---------------------------- MODULE ModuleManager ---------------------------
(***************************************************************************)
(* The kernel module manager (module_manager.cpp): a registry of modules   *)
(* (m_modules, a kstl::vector of shared pointers searched by name) and     *)
(* each module's m_state.  Registration, unregistration, start_module and  *)
(* stop_module run on the calling kernel thread; start_module only creates *)
(* a scheduler task, and that task runs _module_start_task_entry (init(),  *)
(* the state write, start()) concurrently with later calls.  Nothing is    *)
(* locked.                                                                 *)
(*                                                                         *)
(* The modules' own init(), start() and stop() are outside the repository; *)
(* their results are free choices.  on_command changes no manager state,   *)
(* so send_command is not an action here.                                  *)
(***************************************************************************)
EXTENDS Naturals, Sequences, SequencesExt

CONSTANTS
  Mods,          \* module objects that callers may register
  NameOf,        \* mod->name()
  Empty,         \* the empty name
  NullMod,       \* a null module pointer handed to unregister_module
  MaxRegistered, \* bound on the length of m_modules
  MaxTasks       \* bound on start tasks created in a behaviour

ASSUME NullMod \notin Mods

Names == {NameOf[m] : m \in Mods}

States == {"unset", "loaded", "unloaded", "running", "stopped", "error"}

TaskPcs == {"init", "setRunning", "start", "done"}

VARIABLES
  registry,   \* m_modules, in vector order
  state,      \* mod -> m_state
  tasks,      \* start tasks: [mod, pc], in creation order
  lastCall,   \* history: the last lifecycle call the kernel made on a module
  fault       \* the kernel dereferenced a null pointer

vars == <<registry, state, tasks, lastCall, fault>>

(***************************************************************************)
(* find_module(name): an empty name finds nothing; otherwise the first     *)
(* registered module with that name, or NullMod.                           *)
(***************************************************************************)
FindModule(n) ==
  LET i == SelectInSeq(registry, LAMBDA m : NameOf[m] = n)
  IN  IF n = Empty \/ i = 0 THEN NullMod ELSE registry[i]

Init ==
  /\ registry = <<>>
  /\ state = [m \in Mods |-> "unset"]
  /\ tasks = <<>>
  /\ lastCall = [m \in Mods |-> "none"]
  /\ fault = FALSE

(***************************************************************************)
(* A slip in register_module, replacing it in a mutant run: the duplicate *)
(* name check is left out.                                                 *)
(***************************************************************************)
RegisterNoDuplicateCheck(m) ==
  /\ ~fault
  /\ Len(registry) < MaxRegistered
  /\ state' = [state EXCEPT ![m] = "loaded"]
  /\ registry' = Append(registry, m)
  /\ lastCall' = [lastCall EXCEPT ![m] = "register"]
  /\ UNCHANGED <<tasks, fault>>

(* A slip: the module is appended but its state is not set to loaded. *)
RegisterKeepState(m) ==
  /\ ~fault
  /\ Len(registry) < MaxRegistered
  /\ FindModule(NameOf[m]) = NullMod
  /\ registry' = Append(registry, m)
  /\ lastCall' = [lastCall EXCEPT ![m] = "register"]
  /\ UNCHANGED <<state, tasks, fault>>

(***************************************************************************)
(* register_module(mod): refused when find_module(mod->name()) finds a     *)
(* module; otherwise m_state = loaded and the module is appended.  A       *)
(* refused call changes nothing.                                           *)
(***************************************************************************)
RegisterModule(m) ==
  /\ ~fault
  /\ Len(registry) < MaxRegistered
  /\ FindModule(NameOf[m]) = NullMod
  /\ state' = [state EXCEPT ![m] = "loaded"]
  /\ registry' = Append(registry, m)
  /\ lastCall' = [lastCall EXCEPT ![m] = "register"]
  /\ UNCHANGED <<tasks, fault>>

(***************************************************************************)
(* unregister_module(nullptr): the error message dereferences the null     *)
(* pointer (mod->name()) before returning false.                           *)
(***************************************************************************)
UnregisterNull ==
  /\ ~fault
  /\ fault' = TRUE
  /\ UNCHANGED <<registry, state, tasks, lastCall>>

(***************************************************************************)
(* unregister_module(mod): the first vector entry holding mod is erased    *)
(* and m_state = unloaded; a module not registered changes nothing.        *)
(***************************************************************************)
UnregisterModule(m) ==
  /\ ~fault
  /\ m \in ToSet(registry)
  /\ registry' = RemoveFirst(registry, m)
  /\ state' = [state EXCEPT ![m] = "unloaded"]
  /\ lastCall' = [lastCall EXCEPT ![m] = "unregister"]
  /\ UNCHANGED <<tasks, fault>>

(* A slip: start_module hands find_module's result to the task unchecked. *)
StartModuleUnchecked(n) ==
  /\ ~fault
  /\ Len(tasks) < MaxTasks
  /\ tasks' = Append(tasks, [mod |-> FindModule(n), pc |-> "init"])
  /\ lastCall' = [lastCall EXCEPT ![FindModule(n)] = "start"]
  /\ UNCHANGED <<registry, state, fault>>

(***************************************************************************)
(* start_module(name): the module found is handed to a new task that the  *)
(* scheduler will run; start_module itself writes no module state.         *)
(***************************************************************************)
StartModule(n) ==
  /\ ~fault
  /\ Len(tasks) < MaxTasks
  /\ FindModule(n) # NullMod
  /\ tasks' = Append(tasks, [mod |-> FindModule(n), pc |-> "init"])
  /\ lastCall' = [lastCall EXCEPT ![FindModule(n)] = "start"]
  /\ UNCHANGED <<registry, state, fault>>

(***************************************************************************)
(* stop_module(name): mod->stop(), then m_state = stopped or error by its  *)
(* result.                                                                 *)
(***************************************************************************)
StopModule(n) ==
  /\ ~fault
  /\ FindModule(n) # NullMod
  /\ \E ok \in BOOLEAN :
       state' = [state EXCEPT ![FindModule(n)] = IF ok THEN "stopped" ELSE "error"]
  /\ lastCall' = [lastCall EXCEPT ![FindModule(n)] = "stop"]
  /\ UNCHANGED <<registry, tasks, fault>>

-----------------------------------------------------------------------------
(* The start task, _module_start_task_entry(mod), one step per statement. *)

(* if (!mod->init()) m_state = error; *)
TaskInit(t) ==
  /\ ~fault
  /\ tasks[t].pc = "init"
  /\ \E ok \in BOOLEAN :
       /\ tasks' = [tasks EXCEPT ![t].pc = "setRunning"]
       /\ state' = IF ok THEN state ELSE [state EXCEPT ![tasks[t].mod] = "error"]
  /\ UNCHANGED <<registry, lastCall, fault>>

(* m_state = running; whatever init() returned. *)
TaskSetRunning(t) ==
  /\ ~fault
  /\ tasks[t].pc = "setRunning"
  /\ state' = [state EXCEPT ![tasks[t].mod] = "running"]
  /\ tasks' = [tasks EXCEPT ![t].pc = "start"]
  /\ UNCHANGED <<registry, lastCall, fault>>

(* if (!mod->start()) m_state = error; then exit_thread(). *)
TaskStart(t) ==
  /\ ~fault
  /\ tasks[t].pc = "start"
  /\ \E ok \in BOOLEAN :
       state' = IF ok THEN state ELSE [state EXCEPT ![tasks[t].mod] = "error"]
  /\ tasks' = [tasks EXCEPT ![t].pc = "done"]
  /\ UNCHANGED <<registry, lastCall, fault>>

(* After a null dereference the kernel stops; otherwise all tasks done and no call enabled. *)
Halted ==
  /\ fault \/ \A t \in 1..Len(tasks) : tasks[t].pc = "done"
  /\ UNCHANGED vars

Next ==
  \/ \E m \in Mods : RegisterModule(m)
  \/ \E m \in Mods : UnregisterModule(m)
  \/ UnregisterNull
  \/ \E n \in Names : StartModule(n)
  \/ \E n \in Names : StopModule(n)
  \/ \E t \in 1..Len(tasks) : TaskInit(t)
  \/ \E t \in 1..Len(tasks) : TaskSetRunning(t)
  \/ \E t \in 1..Len(tasks) : TaskStart(t)
  \/ Halted

Spec == Init /\ [][Next]_vars

-----------------------------------------------------------------------------

TypeOK ==
  /\ registry \in Seq(Mods)
  /\ state \in [Mods -> States]
  /\ tasks \in Seq([mod : Mods, pc : TaskPcs])
  /\ lastCall \in [Mods -> {"none", "register", "unregister", "start", "stop"}]
  /\ fault \in BOOLEAN

(***************************************************************************)
(* register_module refuses a name find_module already finds, so every     *)
(* registered module with a non-empty name is the one find_module returns *)
(* for its name: start_module, stop_module and send_command reach it.     *)
(* Registering, unregistering and re-registering modules that share a     *)
(* name must keep this.                                                   *)
(***************************************************************************)
RegisteredModulesFindable ==
  \A i \in 1..Len(registry) :
    NameOf[registry[i]] # Empty => FindModule(NameOf[registry[i]]) = registry[i]

(***************************************************************************)
(* A registered module with a name is never reported unloaded:            *)
(* register_module sets m_state = loaded, including for a module          *)
(* registered again after unregister_module set it to unloaded, and the   *)
(* start task only ever writes running or error.  (A module with the      *)
(* empty name escapes the duplicate check and can be registered twice;    *)
(* unregistering it erases one entry and marks it unloaded.)              *)
(***************************************************************************)
RegisteredNotUnloaded ==
  \A m \in ToSet(registry) : NameOf[m] # Empty => state[m] # "unloaded"

(***************************************************************************)
(* m_state says what the kernel last did to the module: a module reported *)
(* running was last started, not stopped or unregistered since.  A start  *)
(* task still in flight when stop_module or unregister_module runs writes *)
(* running over their result.                                              *)
(***************************************************************************)
StateFollowsLastCall ==
  \A m \in Mods : state[m] = "running" => lastCall[m] = "start"

====
