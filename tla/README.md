# TLA+ models of StelluxOS

This directory holds TLA+ specifications of the parts of StelluxOS whose correctness depends on interleavings, hardware handshakes, long call sequences or loop arithmetic. It also holds the TLC configurations that check them. `PROJECT.json` lists:
- every component and its modelling status;
- every run, with the mutants that show each property can fail;
- the source lines each definition models;
- the findings and the hazards.

Check a run from this directory with `tlc -workers 2 -config <cfg> <MC module>`.

## The system and its parts

StelluxOS is a small x86-64 kernel. It has a UEFI bootloader (`src/bootloader`), a kernel (`src/kernel`) and a userland shell (`src/userland/apps/shell`).

The part with the most concurrent state is the USB xHCI host controller driver (`src/kernel/src/drivers/usb/xhci`). It talks to a device, the controller. The two share memory (TRB rings, DCBAA, device contexts) and registers (USBCMD, USBSTS, IMAN, PORTSC, ERDP, doorbells). The controller acts on its own between any two driver instructions.

| Part | Source | State | Operations |
|---|---|---|---|
| Producer TRB ring | `xhci_rings.h` `XhciCommandRing` | `m_trbs`, `m_enqueuePtr`, `m_rcsBit`; controller dequeue index and cycle state | `enqueue`; controller fetch and Link-TRB follow |
| Event ring | `xhci_rings.h` `XhciEventRing` | segment, `m_dequeuePtr`, `m_rcsBit`, ERDP; controller enqueue index and cycle state | `hasUnprocessedEvents`, `dequeueEvents`, ERDP update; controller posts |
| Command path and device setup | `xhci.cpp` `_sendCommand`, `_enableDeviceSlot`, `_createDeviceContext`, `_setupDevice` | DCBAA, controller slot states, the driver's position | issue, poll, drain, scan, allocate, Address Device, GET_DESCRIPTOR |
| Controller bring-up | `xhci.cpp` `init`, `_resetHostController`, `_configure*`, `_startHostController`, `_clearIrqFlags` | USBCMD, USBSTS, IMAN, timeouts | stop, halt wait, reset, reset wait, programming, run, interrupt acknowledge |
| Port reset | `xhci.cpp` `_resetPort`, the port loop of `init` | PORTSC of each port, the driver's register image | power, clear CSC, PR/WPR, poll PRC/WRC, check PED |
| Legacy driver | `xhci_hcd.cpp` | as above | same protocol, BSR=0 |
| Module manager | `modules/module_manager.cpp` | module registry, module states, start tasks | register, unregister, start (asynchronous task), stop |
| Shell | `shell.cpp` | command buffer and length | one key at a time |
| Serial driver | `serial/serial.cpp` | the 16550 registers (LCR, IER, divisor latch, MCR), RX FIFO, holding register, `g_kernel_uart_port` | `init_port`, `set_baud_rate`, the LSR tests, both `write`s, `read`, `set_kernel_uart_port` |
| Memory primitives | `memory/kmemory.cpp` | memory, the loop pointers and size | `memcpy`, `memmove`, `memcmp`, `memset` |
| MADT parsing | `acpi/madt.cpp` `madt::init` | the entry pointer, `m_local_apics` | one loop iteration per entry |
| PCI and MSI-X | `pci/pci.cpp` | configuration space, the capability pointer, the local `PciMsiXCapability`, the table loop index | 8/16-bit config reads, 16-bit write, BAR decode, capability walk, table programming, `enableMsix` |
| Bootloader paging | `src/bootloader/paging.c`, `bootloader.c` `create_pml4`, `GetTotalSystemMemory`, `efi_main` | the memory map, the page-table pages, `pml4`, the page allocator's count | `krequest_page`, `MapPages`, the three mapping loops, the NULL check, the CR3 load |
| Others | ELF loading, GOP, syscalls, interrupts | | |

The parts interact like this:
- **Command path.** The command path uses the producer ring, the doorbell and the event ring.
- **Device setup.** Device setup uses the command path, DCBAA and a transfer ring.
- **Bring-up.** Bring-up precedes everything. The port loop runs between `_startHostController` and `_setupDevice`. Port changes raise USBSTS.PCD and EINT, which `_clearIrqFlags` acknowledges during device setup.
- **Boot.** The bootloader builds the page tables and loads CR3 before the kernel runs. Every kernel step after it runs under that translation.
- **Platform discovery.** `_kuser_entry` reaches `madt::init` through `acpiController.init`. `setupMsixIrqRouting` is not called by any code under `src/`; it shares no state with the MADT walk.
- **Shell and serial.** Each iteration of `shell_loop` starts with `serial::read(serial::g_kernel_uart_port)`. The kernel initialises and writes its ports, and may switch the kernel port, before the shell runs. The UARTs receive and transmit throughout.
- **Module manager.** A start task created by `start_module` runs concurrently with the kernel thread that keeps calling the manager.

## Modules

- **`TrbFifo`**: the abstract promise of a TRB ring. A FIFO of payloads, `Put` and `Take`, with a weakly fair `Take`.
- **`XhciTrbRing`**: the producer ring and the controller consuming it.
  - `EnqueueWrite` and `EnqueuePublish` are the two halves of `enqueue()`: the write with the cycle bit cleared, and the final cycle-bit write, with the Link TRB step.
  - `ControllerExecute` and `ControllerFollowLink` are the controller.
  - `Enqueue` is the caller, bounded by `MaxOutstanding`.
  - `FifoRefinement` is `INSTANCE TrbFifo WITH queue <- PendingTrbs`: the TRBs the controller owns now, in the order it will execute them.
- **`XhciEventRing`**: the event ring.
  - `BeginDrain`, `DequeueTrb` and `EndDrain` (the ERDP write) are `dequeueEvents`.
  - `PostEvent` is the controller. It holds back while `Succ(enqueue) = ERDP`.
  - `batch` keeps the pointers a drain returned, so properties can ask what they point at later.
- **`XhciDeviceSetup`**: `_setupDevice` end to end for one port, composed with `XhciEventRing` (`INSTANCE`).
  - The command and transfer rings are plain queues here. `XhciTrbRing` shows they behave as FIFOs.
  - The event ring is kept at slot level, because `_sendCommand` reads events through pointers.
  - `pc` is the driver's position in the code. Each action is one stretch of code between controller-visible effects:
    - `IssueCommand` is enqueue plus doorbell.
    - `SendCommandPoll`, `SendCommandNoEvents`, `SendCommandDequeue` and `SendCommandDrained` are the single poll after `msleep`.
    - `SendCommandSucceeds` and `SendCommandFails` are the scan and `_setupDevice`'s early returns.
    - `PrepareAddressDevice` (with `CreateDeviceContext`) and `RequestDescriptor` are the rest.
  - The controller actions are `HcEnableSlot`, `HcAddressDevice`, `HcControlTransfer` and `HcPortStatusChange` (unsolicited events).
- **`XhciHostController`**: `init()`'s register handshake with a controller that may be faulty (`Faults`), and the port loop with ports that may be faulty.
  - The controller faults: `NoHalt` (never halts), `NoReset` (never leaves reset) and `HostSystemError` (raises HSE once).
  - `OrNotWrite` models `reg |= ~bit` on a register with RW1C bits: every RW1C bit but `bit` is written 1, so it is cleared if set. `bit` itself is written back as read.
  - `_resetPort` is one action per register access: `PortRead`, `PortPowerCheck`, `PortClearCsc`, `PortSetReset`, `PortPoll`, `PortResetChanged`, `PortResetTimedOut` and `PortCheckEnabled`. `copy` is the function's local `portsc` image. `NextPort` is the loop of `init()`.
  - `writePortscReg` has no body in the repository. `WritePortsc` models it as writing back the image it is given: this is the only reading under which `_resetPort` can clear CSC through it. PORTSC bits follow xHCI: PP is RW, PR and WPR set a reset, and CSC, PRC, WRC and PED clear when written 1.
  - The ports' hardware is `HcPortConnect`, `HcPortDisconnect` and `HcPortResetDone`. The port faults are `NoPower` and `Stuck` (the reset never completes).
  - Nothing before the port loop touches PORTSC, so `Running` picks the ports' state as the loop will find it.
  - `ConfigureRuntime` picks the driver: `XhciDriver`, or the legacy `XhciHcd`. The two reach it through the same reset handshake; `XhciHcd`'s `allocateDcbaa` is not in the repository and is taken to be `_setupDcbaa`. Only `XhciDriver` clears the interrupt flags there (`_clearIrqFlags(0)` ends `_configureRuntimeRegisters`); `XhciHcd::init` only constructs the event ring. Its CRCR written without the cycle bit (`xhci_hcd.cpp:479`) is not modelled: no modelled step reads the command ring. Both drivers use the same `_resetPort` steps, with their own poll budgets (`PortBudget`).
    - After its port loop, `XhciDriver` goes to `_setupDevice` (`SetupDevice`).
    - `XhciHcd` goes through `HcdAcknowledge`, `HcdScanPort` and `HcdSetupDevice`. They acknowledge the interrupt, scan for the first connected port and set it up.
  - `ConfigureOperational` reads the scratchpad count (`ScratchpadCounts`). A non-zero count runs `_setupDcbaa`'s loop: one `ScratchpadAlloc` per buffer, then `ScratchpadDone`, with a `uint8_t` index. `PublishDcbaa` writes DCBAAP.
  - `Usb3Ports` is computed from the Supported Protocol capabilities (`SupportedProtocols`) the way `_parseExtendedCapabilityRegisters` does. `FirstPort` and `LastPort` use `uint8_t` arithmetic.
- **`Madt`**: `madt::init`'s walk. The table is its entries laid end to end as bytes of their real lengths (local APIC 8, I/O APIC 12, override 10, NMI 6). `MadtEntry` is one iteration: the type and length bytes, the `MAX_SYSTEM_CPUS` check, the enabled flag, and `entry += entry_length`. `MadtDone` is the loop exit. `EnabledLapics` is the reference result, read entry by entry with `SelectSeq`.
- **`PciMsix`**: `setupMsixIrqRouting` for one function.
  - Configuration space is 256 bytes. `Read8`, `Read16` and `Write16` go through the dword at `offset & 0xfc` and select lanes as the code does. 64-bit addresses are 8-byte little-endian sequences added by `AddBytes`, so no value leaves TLC's integer range.
  - `MsixReadHead`, `MsixWalkStep` and `MsixWalkExit` are `readMsixCapability`. Its local `msixCap` starts as any value of `MsixGarbage`: when no MSI-X capability exists, it is returned uninitialized.
  - `MsixMapTable`, `MsixWriteEntry` and `MsixMapPba` are the BAR decode (`GetBar`), the table loop and the PBA mapping. `EnableMsix` is `enableMsix`'s read-modify-write of Message Control.
  - `pci.h` is not in the repository. The capability fields are placed as the PCI specification lays them out.
  - `FirstCap` is the reference walk of the capability list.
- **`PageConstants`**: `PAGE_SIZE`, shared by the bootloader and the kernel modules.
- **`AddressSpace`**: the abstract promise of the page tables. `mapping` is a function from virtual pages to physical pages or `NoMap`. One step changes the translation of at most one page.
- **`Paging`**: the bootloader's page tables, scaled down to `IndexBits` bits per level (4 entries instead of 512).
  - `mem` maps each table frame to its entries (`present`, `rw`, `pfn`). The data pages are not stored, because nothing reads them.
  - `RequestPage` is `krequest_page`: the next frame of `TableFrames`, or 0 (NULL) when `AllocatePages` fails. At most `MaxAllocFailures` failures happen.
  - `Descend` is one level of `MapPages`: follow a present entry, or allocate, zero and link a new table, with no check for NULL. `MapPages` is the three levels and the level-1 write, in one step.
  - `CreatePml4`, `IdentityMap`, `KernelMap`, `GopMap` and `LoopExit` are `create_pml4`. `Pml4Null` and `LoadCr3` are the end of `efi_main`.
  - `TotalSystemMemory` is `GetTotalSystemMemory` over the descriptors' page counts.
  - `Translate` is the MMU's four-level walk. `MappingRefinement` is `INSTANCE AddressSpace WITH mapping <- Translation`.
- **`BootSequence`**: the boot path in one specification: the bootloader, then the MADT walk (after CR3 is loaded), then the MSI-X setup. Each stage starts when the one before has ended, so one run's behaviours are the sum of the stages' and not their product.
- **`ModuleManager`**: the registry (`m_modules`, searched by `find_module`), each module's `m_state`, and the start tasks.
  - `RegisterModule`, `UnregisterModule`, `UnregisterNull`, `StartModule` and `StopModule` are the calls.
  - `TaskInit`, `TaskSetRunning` and `TaskStart` are the statements of `_module_start_task_entry`, interleaved with later calls.
  - The modules' own `init`, `start` and `stop` are outside the repository. Their results are free choices.
- **`ShellLine`**: `shell_loop`'s line editor.
  - Bytes are abstracted to classes: two ordinary characters, the two line ends, the two erase keys and NUL.
  - `commands` records what `process_command` received. `CString` is what it reads of the buffer.
  - `CommandBranch` is `process_command`'s chain of tests, in the code's order. The command words are constants spelled over the two ordinary characters.
  - `ProcessCommand` is its one state change: shutdown and reboot end the run (`power`, `PoweredDown`).
- **`Serial`**: the driver and the UARTs it drives.
  - `uart` is each port's register file. `OutB` is an `outb` to an offset; offsets 0 and 1 reach DLL and DLM while LCR's DLAB bit is set. An FCR write with bits 1 and 2 clears the two FIFOs. `serial.h` is not in the repository, so the offsets and values are the 16550's.
  - `InitPort` (with `InitPortRegs` and `SetBaudRate`), `WriteString`, `WriteChar` (one iteration of the string loop: wait for THRE, then `outb`), `ReadChar` (wait for DR, then `inb`) and `SetKernelUartPort` are the driver. `LineReceive` and `Transmit` are the hardware. A byte that arrives at a full FIFO is lost (overrun).
  - `written` and `wire` are history: what was written and what went out. `delivered` counts the bytes each FIFO took, less those an FCR write cleared; it bounds the line.
  - `init_port` enables the 16-byte transmit FIFO. In FIFO mode THRE reads 1 only when that FIFO is empty, and `write` waits for it before every byte, so with one writer the FIFO never holds more than one byte. The model keeps it as a one-byte holding register.
- **`ShellSerial`**: composes `Serial` with `ShellLine`. `ShellStep` is one iteration of `shell_loop`: `ReadChar` on `g_kernel_uart_port`, then `ShellLine`'s `EnterKey`, `EraseKey` or `StoreKey` on the byte. A kernel thread (`Kernel`) calls the driver in any order until `StartShell`. Its callers are not in the repository.
- **`KMemory`**: the four primitives as loop-level state machines, one call per behaviour, checked against reference operators (`MemmoveRef`, `MemsetRef`, `MemcmpRef`) over every size, alignment and overlap of a 20-byte memory.
- **`MC*` modules**: give the model values. The `.cfg` files give the bounds.

## Runs

| Run | Checks | Result |
|---|---|---|
| `trb_ring` | `TypeOK`, `TrbsDeliveredInOrder`, `FifoRefinement` | pass. Executed-then-owned TRBs equal the TRBs handed to `enqueue()`, and the ring implements `TrbFifo`, including eventual execution. |
| `device_setup` | `TypeOK`, `CompletionMatchesCommand`, `AddressOnlyEnabledSlot`, `EventsInPostingOrder`, `BatchStable` | pass, with late completions, port events and allocation failures. The event ring's properties are checked here, on the event ring that device setup drives: drains return events in posting order across wraps, and returned pointers are not overwritten while the drain runs. |
| `device_setup_dcbaa` | `ContextPublishedBeforeAddress` | violation. A failed allocation still leads to Address Device. |
| `device_setup_stale_read` | `CompletionReadWhileOwned` | violation. The completion is overwritten after ERDP releases it. This needs one port event per event-ring slot. |
| `host_controller` | `TypeOK`, `ConfiguredOnlyWhenReady`, `ScratchpadArrayFilled`, `ResetTerminates`, `ResetOnlyPoweredPorts`, `PortResetsEnd` | pass, against all three controller faults and both port faults, for both drivers. DCBAAP is never published before every scratchpad entry is filled. |
| `host_controller_start_hang` | `InitTerminates` | violation. HSE during the unbounded wait for HCH to clear. It also checks 256 scratchpad buffers: the `uint8_t` index wraps to 0, and the loop never ends. That was shown in a separate run with no controller fault. |
| `host_controller_rw1c` | `StatusChangesNotLost` | violation, in two ways (each part was checked alone). `usbsts \|= ~EINT` clears PCD or HSE. The last PORTSC write of `_resetPort` sends back PED = 1 and disables the port it reports reset. |
| `module_manager` | `TypeOK`, `RegisteredModulesFindable`, `RegisteredNotUnloaded` | pass. Registering, unregistering and re-registering modules that share a name keeps every named module reachable and never marks a registered one unloaded. |
| `module_manager_start_race` | `StateFollowsLastCall` | violation. A start task still in flight writes `running` after `unregister_module` or `stop_module`. |
| `shell_serial` | `TypeOK`, `CommandWithinLine`, `TransmitInOrder`, `PortConfigured`, `WritesComplete`, `InputConsumed` | pass. The shell reads its keys through `serial::read` after any order of up to three kernel calls to the driver. The buffer index stays in bounds. A command never carries bytes of an older, longer line, across every command branch including shutdown and reboot. Written bytes reach the line in order, with none overwritten in the holding register. Every port keeps either the firmware's settings or 8N1, interrupts off and its divisor. Every write ends. Input on the kernel port is consumed. |
| `boot_sequence` | `TypeOK`, `PageTablesComplete`, `MappingRefinement`, `LocalApicsTracked`, `MsixCapabilityFound`, `EnableSetsOnlyEnableBit`, `BootEnds` | pass. With one failed page allocation allowed, the tables loaded into CR3 translate exactly the identity range, the higher-half kernel and the GOP buffer. Every `MapPages` step changes the translation of at most one page. The MADT walk records exactly the enabled local APICs, in order, up to the limit, over entries of four lengths. The capability walk finds the first MSI-X capability through the byte-lane reads. `enableMsix` changes only the enable bit. The boot sequence ends. |
| `kmemory` | `TypeOK`, `CopyMatchesReference`, `CompareMatchesReference`, `SetMatchesReference` | pass. `memcpy` and `memmove` (both directions, overlapping), `memcmp` (sign of the first difference) and `memset` equal their references. |

Each property of a passing run has a mutant in `PROJECT.json`. A mutant is a plausible slip in the code, such as a missing toggle, an eager ERDP write, a post-decrement, `&&` for `\|\|`, a missing early return, an unchecked halt, a forgotten `timeout--`, a skipped power re-check, a dropped duplicate check or an off-by-one length check. TLC finds each one violating the property.

## Bounds

- **Producer ring.** `RingSize = 5`, `MaxEnqueues = 9` and `MaxOutstanding = 3`. That is two full laps past the Link TRB, with the ring as full as callers can make it.
  - The bound must leave two slots free. With `RingSize - 1` outstanding, the producer rewrites a Link TRB the controller has not followed.
  - The code keeps the callers' bound: one command at a time, three TRBs per control transfer.
- **Event ring.** Checked inside device setup, with `EvRingSize = 4`. Port events and completions together wrap the ring with it full, and drains take runs across the wrap.
- **Device setup.** `MaxSlots = 2`, `EvRingSize = 4` and `MaxPortEvents = 3`.
  - These reach a wrong slot ID, a late completion and a failed allocation.
  - The stale-read run raises `MaxPortEvents` to 4, because overwriting a released slot needs a full lap of events.
- **Controller.** `HaltTimeout = 20` and `ResetTimeout = 100`, the code's budgets, with every fault.
- **Ports.** Two ports, each in any of four starting states and with any fault.
  - One port is USB2 and one USB3, as given by two Supported Protocol capabilities.
  - The pass run allows one connect or disconnect. The violation runs allow two.
  - `PortResetTimeout = 4`, not the code's 100, and `HcdPortResetTimeout = 3`, not 60. Every poll iteration is the same. These budgets still let a reset finish on the first poll, on the last poll, or never.
- **Scratchpad.** The pass run uses two buffers. That is enough for a dropped last entry to be visible. The violation runs add 0 (no loop) and, in the start-hang run, 256 (the wrap).
- **Module manager.** Three modules: two share a name and one has the empty name. Three registrations and two start tasks reach re-registration under a shared name, the double registration of an unnamed module, and a task racing stop and unregister.
- **Serial.** Two ports: COM1 carries every byte class, up to seven (the shell's seven keys), and COM2 carries up to two of one class. Up to three kernel calls: `init_port` with divisor 384 (high byte non-zero, so a misdirected high byte is visible), `write` of a two-character string (the second waits for the first), and `set_kernel_uart_port`. FIFO depth 1. A second byte arriving before the first is read is an overrun. Depth 2 multiplies the states by four and adds no control path.
  - `MCView` drops the registers, the output history and the call count once the shell runs. No action reads them after that, and the invariants about them were checked in the state before `StartShell`.
- **Shell.** `MAX_COMMAND_LENGTH = 4` and seven keys. That fills the line, overflows it, erases, and enters a shorter line after a longer one. The six command words have one or two characters, so every branch of `process_command` is reached.
- **MADT.** Two tables with `MAX_SYSTEM_CPUS = 2`.
  - The first is QEMU-shaped: four local APICs (one disabled) between an I/O APIC, an override and an NMI entry. The limit is reached before the last enabled one.
  - The second has no enabled local APIC.
- **PCI.** Two functions.
  - The first is QEMU-xHCI-shaped: a 64-bit BAR 0 and the list PM -> MSI -> MSI-X. Its table size field is 255, so the table is exactly one page. Larger fields, which make the loop write past the page, are outside the modelled inputs; see the hazard at `pci.cpp:457`.
  - The second has no MSI-X and a list ending in 0xFF. It runs the setup on each of two garbage capabilities.
  - Malformed inputs are checked by hand against `BootEnds`: a zero-length MADT entry and a cyclic capability list both make it fail. They are not in the pass run; see the hazards.
- **Paging.** `IndexBits = 2` gives 4 entries per table and 256 virtual pages. `KernelVirtualBase` is the first page of the upper half of level 4, as `0xFFFF800000000000` is with 9 bits.
  - The memory map has two descriptors, 6 and 14 pages (20 pages of RAM). The kernel is 2.5 pages at page 1, and the GOP buffer 1.5 pages at page 200. The partial pages check the loops' `<` bounds.
  - Sixteen table frames at pages 4 to 19, enough for every table the three loops allocate. They lie inside RAM, as `AllocatePages` would place them.
  - `MaxAllocFailures = 1`. One NULL from `krequest_page` puts one table at page 0 and the properties still hold. Two failures make two levels share page 0, and the walk then reads a data page as a table. That was checked by hand and is listed as a hazard. A memory map with a hole, which leaves tables above `GetTotalSystemMemory`'s sum unmapped, is outside the modelled inputs; see the hazard at `bootloader.c:54`.
- **Memory.** 20 bytes: two words plus a tail. Every address is its own alignment class modulo 8, with every size and every distance between source and destination.

## Fairness

- **Driver code.** Straight-line driver code is weakly fair. It is a single kernel thread that sleeps but is always resumed.
- **Controller.** It is weakly fair in halting, leaving reset, becoming ready, running, fetching owned TRBs and finishing a port reset it can finish. It is not fair in raising errors, posting port events or plugging devices.
- **Boot.** The bootloader runs alone on the boot CPU before `ExitBootServices`, and each walk is a loop on one kernel thread with no lock or wait in it, so each stage is weakly fair. `BootEnds` rests on that alone.
- **Shell and serial.** The shell task is preempted but always rescheduled, and it reads once Data Ready stays set (`WF ShellStep`). The kernel thread finishes a write it started, and the UART always shifts out a held byte. Nothing forces the kernel to call, the line to deliver, or the shell to be started. `WritesComplete` and `InputConsumed` rest on these.
- **Liveness checked.** Device setup, the module manager and the memory primitives have no liveness properties. Their properties are safety.
- **Event ring.** Its properties are safety only: a drain is started by the driver only when `_sendCommand` polls.

## Not modelled, and the plan

- **Next, in this order:**
  1. the rest of the legacy `XhciHcd` driver: its command exchange and event flushing (`xhci_hcd.cpp`);
  2. `readMsiCapability`, `disableMsix`, `enableBusMastering` and `disableLegacyInterrupts`. No code under `src/` calls them yet. The last two write the Status register back through `pciConfigWrite16`; that is listed as a hazard.
- **Not modelled, because the code they depend on is not in the repository:** the system-call handler (its only state is the task's elevated flag; the scheduler behind `SYS_EXIT` is missing, and nothing in the repository issues the calls), the rest of `_kuser_entry` (GDT, IDT, the page frame allocator, scheduler and timers), and the kernel shell task's buffer (`Console::readLine`). The device-context helpers in `xhci_device_ctx.cpp` are pointer casts and printing.
- **Excluded by assumption:** a USB3 protocol range ending at port 255. The `uint8_t` loop in `_parseExtendedCapabilityRegisters` would never end. This is listed as a hazard.
- **Left out:**
  - **Pure I/O:** interrupt stubs, MSRs and printing (`kprint`, `serial::printf`, which is not in the repository).
  - **Serial calls after the shell starts**, and re-initialising a port that has output in flight. Their callers are not in the repository; see the hazards.
  - **Bootloader firmware steps:** loading the ELF kernel, GOP setup and the UEFI file system. Their only effect on the modelled state is the kernel base and size and the framebuffer range, which `Paging` takes as inputs (`Loads`). `ExitBootServices` failing is not modelled.
  - **The kernel entry's shell loop:** it calls `Console::readLine`, which is not in the repository.
  - **Data formatting:** the input-context field values, and the PCI vendor, device and class name tables.
  - **Shell command output:** what `help`, `echo`, `cpuinfo` and `clear` print, and the CPUID reads behind `cpuinfo`.
