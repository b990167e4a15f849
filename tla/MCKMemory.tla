------------------------------ MODULE MCKMemory ------------------------------
EXTENDS KMemory

AllOps == {"memcpy", "memmove", "memcmp", "memset"}
====
