------------------------------ MODULE MCProcScan ------------------------------
(* PulseAudio with all of its environment countable, with a byte 0xFF in its *)
(* second string, and without environment; and another program.             *)
EXTENDS ProcScan
MCPrograms == {[matches |-> TRUE, uid |-> 1, strings |-> 2, before |-> 2],
               [matches |-> TRUE, uid |-> 1, strings |-> 2, before |-> 1],
               [matches |-> TRUE, uid |-> 2, strings |-> 0, before |-> 0],
               [matches |-> FALSE, uid |-> 0, strings |-> 1, before |-> 1]}
=============================================================================
