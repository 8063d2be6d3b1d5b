------------------------------ MODULE MCMemory ------------------------------
(* Small instances of MemorySynthesis: two threads of two items, and a hook  *)
(* of the user before those of the memory.                                   *)
EXTENDS MemorySynthesis

CONSTANTS t1, t2

Manifest == <<"user-hook", "thread-memory-updater", "active-memory-updater">>
=============================================================================
