------------------------------- MODULE ProcScan -------------------------------
(***************************************************************************)
(* Finding the PulseAudio daemon and borrowing its environment             *)
(* (process.c): sa_process_get_uid walks through /proc, and later the      *)
(* forked child copies /proc/<pid>/environ, takes the user's ids and calls *)
(* execve.  All the while processes end, start, reuse process ids and      *)
(* execute other programs.  A life is what one process executes from one   *)
(* execve to the next or to its end, and an open environ belongs to a life *)
(* and reads as empty after it.  What main() does with the outcome is the  *)
(* subject of AlarmDaemon.                                                 *)
(***************************************************************************)
EXTENDS FiniteSets, Integers

CONSTANTS MaxPid,
          Programs,     \* records: does the name begin with p_name, uid, number of strings
                        \* in environ, how many of them end before the first byte 0xFF
          MaxLives,     \* bound: lives in a behaviour
          IdsFail, Faults  \* may setregid and setreuid fail; opendir, readdir, execve?

ASSUME ScanAssumption ==
  /\ MaxPid \in Nat /\ MaxLives \in Nat
  /\ IdsFail \in BOOLEAN /\ Faults \in BOOLEAN
  /\ Programs \subseteq [matches : BOOLEAN, uid : Nat, strings : Nat, before : Nat]
  /\ \A prog \in Programs : prog.before <= prog.strings

Pids == 1..MaxPid
Root == 0
Nobody == 0             \* no life

VARIABLES pc,           \* get_uid: "opendir", "readdir", "status", "none";
                        \* fake_env: "fopen", "count", "copy", "endless"; "setids", "execve"; "execd", "returned", "aborted"
          running,      \* running[pid]: the life under this pid, or Nobody
          program,      \* program[life]: what it executes
          batch,        \* pids that readdir has fetched and not given out
          next,         \* where the next fetch starts
          proc,         \* process_info_t, with the life its status was read of
          opened,       \* the life whose environ is open
          no_strings, copied,
          gid, uid,     \* of the child
          frees,        \* how often envp was freed
          err,          \* err is set
          staying,      \* history: matching lives that have been there all the scan
          unread        \* history: could a part of /proc not be read?

vars == <<pc, running, program, batch, next, proc, opened, no_strings, copied,
          gid, uid, frees, err, staying, unread>>
scan  == <<batch, next, proc, unread>>
child == <<opened, no_strings, copied, gid, uid, frees, err>>
world == <<running, program, staying>>

Lives == DOMAIN program
Alive(life) == \E p \in Pids : running[p] = life
Matching == {l \in Lives : Alive(l) /\ program[l].matches}

Init ==
  /\ pc = "opendir"
  /\ \E first \in [Pids -> Programs] :
       /\ program = first
       /\ running \in [Pids -> Pids \cup {Nobody}]
       /\ \A p \in Pids : running[p] \in {p, Nobody}
  /\ batch = {} /\ next = 1
  /\ proc = [valid |-> FALSE, uid |-> Root, pid |-> 0, life |-> Nobody]
  /\ opened = Nobody /\ no_strings = 0 /\ copied = 0
  /\ gid = Root /\ uid = Root /\ frees = 0 /\ err = FALSE
  /\ staying = Matching /\ unread = FALSE
-----------------------------------------------------------------------------
(* sa_process_get_uid.                                                     *)

OpenDir ==
  /\ pc = "opendir"
  /\ \/ pc' = "readdir" /\ UNCHANGED unread
     \/ Faults /\ pc' = "none" /\ unread' = TRUE
  /\ UNCHANGED <<batch, next, proc, child, world>>

\* readdir fetches the entries of some more processes, in the order of pids.
\* Bug: the next fetch starts over.
BugFetch ==
  /\ pc = "readdir" /\ batch = {} /\ next <= MaxPid
  /\ \E last \in next..MaxPid : batch' = {p \in next..last : running[p] /= Nobody}
  /\ UNCHANGED <<pc, next, proc, unread, child, world>>
Fetch ==
  /\ pc = "readdir" /\ batch = {} /\ next <= MaxPid
  /\ \E last \in next..MaxPid :
       /\ batch' = {p \in next..last : running[p] /= Nobody}
       /\ next' = last + 1
  /\ UNCHANGED <<pc, proc, unread, child, world>>

TakeEntry ==
  /\ pc = "readdir" /\ batch /= {}
  /\ pc' = "status"
  /\ UNCHANGED <<scan, child, world>>

\* The end of the directory, or an error, which counts as the end.
NotFound ==
  /\ pc = "readdir"
  /\ \/ batch = {} /\ next > MaxPid /\ UNCHANGED unread
     \/ Faults /\ unread' = TRUE
  /\ proc' = [proc EXCEPT !.valid = FALSE]
  /\ pc' = "none"
  /\ UNCHANGED <<batch, next, child, world>>

Found(life) == life /= Nobody /\ program[life].matches

\* The status of a process that is gone cannot be opened, and that of another
\* one perhaps neither; the next entry is taken.  Name and uid come from one
\* read.
\* Bug: a status that cannot be opened is taken for the end.
BugParseStateFile ==
  /\ pc = "status"
  /\ \E p \in batch : LET life == running[p] IN
       /\ \A q \in batch : p <= q
       /\ \/ /\ Found(life)
             /\ proc' = [valid |-> TRUE, uid |-> program[life].uid, pid |-> p, life |-> life]
             /\ pc' = "fopen" /\ batch' = {} /\ next' = 1 /\ UNCHANGED unread
          \/ /\ ~Found(life) \/ Faults
             /\ unread' = (unread \/ Found(life))
             /\ batch' = batch \ {p}
             /\ pc' = IF life = Nobody THEN "none" ELSE "readdir"
             /\ UNCHANGED <<next, proc>>
  /\ UNCHANGED <<child, world>>
ParseStateFile ==
  /\ pc = "status"
  /\ \E p \in batch : LET life == running[p] IN
       /\ \A q \in batch : p <= q
       /\ \/ /\ Found(life)
             /\ proc' = [valid |-> TRUE, uid |-> program[life].uid, pid |-> p, life |-> life]
             /\ pc' = "fopen" /\ batch' = {} /\ next' = 1 /\ UNCHANGED unread
          \/ /\ ~Found(life) \/ Faults
             /\ unread' = (unread \/ Found(life))
             /\ batch' = batch \ {p} /\ pc' = "readdir"
             /\ UNCHANGED <<next, proc>>
  /\ UNCHANGED <<child, world>>
-----------------------------------------------------------------------------
(* The child: sa_process_fake_env and what follows it.                     *)

\* "Process changed pid": the child returns into the daemon's code.
OpenEnviron ==
  /\ pc = "fopen"
  /\ opened' = running[proc.pid]
  /\ IF opened' = Nobody
     THEN pc' = "returned" /\ err' = TRUE
     ELSE pc' = "count" /\ UNCHANGED err
  /\ UNCHANGED <<scan, world, no_strings, copied, gid, uid, frees>>

Strings == program[opened].strings
\* The first pass keeps each byte in a char, which is signed as the code is
\* compiled, and takes 0xFF for EOF, which is -1.
Countable == program[opened].before

\* The first pass; a process that ends in it leaves a part.
\* Bug: the last string is not counted.
BugCountStrings ==
  /\ pc = "count"
  /\ no_strings' \in IF Alive(opened) THEN {IF Countable = 0 THEN 0 ELSE Countable - 1}
                                      ELSE 0..Countable
  /\ pc' = "copy"
  /\ UNCHANGED <<scan, world, opened, copied, gid, uid, frees, err>>
CountStrings ==
  /\ pc = "count"
  /\ no_strings' \in IF Alive(opened) THEN {Countable} ELSE 0..Countable
  /\ pc' = "copy"
  /\ UNCHANGED <<scan, world, opened, copied, gid, uid, frees, err>>

\* The second pass reads again from the start, and a byte 0xFF like any
\* other: each string it copies is whole.  After the end of the process
\* fgetc returns EOF for ever, unless stdio still has the string in its
\* buffer, which the first string is never in; only '\0' ends the loop.
CopyString ==
  /\ pc = "copy" /\ copied < no_strings
  /\ \/ /\ Alive(opened) \/ copied > 0
        /\ copied' = copied + 1 /\ pc' = pc
     \/ /\ ~Alive(opened)
        /\ pc' = "endless" /\ UNCHANGED copied
  /\ UNCHANGED <<scan, world, opened, no_strings, gid, uid, frees, err>>

CopyEnds ==
  /\ pc = "copy" /\ copied >= no_strings
  /\ pc' = "setids"
  /\ UNCHANGED <<scan, world, child>>

\* setregid and setreuid.  A failure frees envp and goes on; a second free of
\* the same block may abort the child.
SetIds ==
  /\ pc = "setids"
  /\ gid' \in IF IdsFail THEN {proc.uid, gid} ELSE {proc.uid}
  /\ uid' \in IF IdsFail THEN {proc.uid, uid} ELSE {proc.uid}
  /\ frees' = (IF gid' = proc.uid THEN 0 ELSE 1) + (IF uid' = proc.uid THEN 0 ELSE 1)
  /\ err' = (frees' > 0)
  /\ pc' = "execve" \/ (frees' = 2 /\ pc' = "aborted")
  /\ UNCHANGED <<scan, world, opened, no_strings, copied>>

\* envp that was freed holds what malloc left there: the program gets a part
\* of it, or the kernel refuses.  After a failure envp is freed once more.
Execve ==
  /\ pc = "execve"
  /\ \/ /\ pc' = "execd"
        /\ copied' \in IF frees > 0 THEN 0..copied ELSE {copied}
        /\ UNCHANGED <<frees, err>>
     \/ /\ Faults \/ frees > 0
        /\ pc' \in IF frees > 0 THEN {"returned", "aborted"} ELSE {"returned"}
        /\ frees' = frees + 1 /\ err' = TRUE
        /\ UNCHANGED copied
  /\ UNCHANGED <<scan, world, opened, no_strings, gid, uid>>
-----------------------------------------------------------------------------
(* The other processes.                                                    *)

\* A process ends.
Ends(p) ==
  /\ running[p] /= Nobody
  /\ running' = [running EXCEPT ![p] = Nobody]
  /\ staying' = staying \ {running[p]}
  /\ UNCHANGED <<pc, program, scan, child>>

\* A process starts under a free pid, or executes another program.
Becomes(p, prog) ==
  /\ Cardinality(Lives) < MaxLives
  /\ LET life == Cardinality(Lives) + 1
     IN  /\ program' = [l \in Lives \cup {life} |-> IF l = life THEN prog ELSE program[l]]
         /\ running' = [running EXCEPT ![p] = life]
  /\ staying' = staying \ {running[p]}
  /\ UNCHANGED <<pc, scan, child>>

Scan == OpenDir \/ Fetch \/ TakeEntry \/ NotFound \/ ParseStateFile
Child == OpenEnviron \/ CountStrings \/ CopyString \/ CopyEnds \/ SetIds \/ Execve
Others == \E p \in Pids : Ends(p) \/ \E prog \in Programs : Becomes(p, prog)
Next == Scan \/ Child \/ Others

\* The scan and the child are running programs.
Spec == Init /\ [][Next]_vars /\ WF_vars(Scan) /\ WF_vars(Child)
-----------------------------------------------------------------------------
TypeOK ==
  /\ pc \in {"opendir", "readdir", "status", "none", "fopen", "count", "copy", "endless",
             "setids", "execve", "execd", "returned", "aborted"}
  /\ running \in [Pids -> Lives \cup {Nobody}]
  /\ program \in [Lives -> Programs]
  /\ batch \subseteq Pids /\ next \in 1..(MaxPid + 1)
  /\ pc = "status" => batch /= {}
  /\ proc.pid \in Pids \cup {0} /\ (proc.valid => proc.pid \in Pids)
  /\ opened \in Lives \cup {Nobody}
  /\ no_strings \in Nat /\ copied \in 0..no_strings
  /\ frees \in 0..3 /\ err \in BOOLEAN /\ staying \subseteq Lives /\ unread \in BOOLEAN

\* "Didn't find process" is true: a PulseAudio that was there all the time
\* is found, whatever comes and goes in /proc meanwhile (process.c:74-98),
\* if /proc and its status can be read.
NotFoundMeansAbsent == pc = "none" => staying = {} \/ unread

\* A child that has met no error executes the program with the whole
\* environment of one process, unless that process has ended meanwhile or a
\* byte 0xFF in its environment ended the count (process.c:142-165).
WholeOrGone == pc = "execd" /\ ~err => copied = Strings \/ ~Alive(opened) \/ Countable < Strings

\* The child comes to execve or gives up, if the process whose environment
\* it copies lives on.
ChildDecides ==
  pc = "fopen" ~> (pc \in {"execd", "returned", "aborted"} \/ (opened /= Nobody /\ ~Alive(opened)))

\* The same of an environment with any bytes: "while((c = fgetc(fp)) != -1)"
\* (process.c:142) means the end of the file.
WholeAnyBytes == pc = "execd" /\ ~err => copied = Strings \/ ~Alive(opened)

\* The walk through /proc ends: with PulseAudio or without.
ScanEnds == pc = "opendir" ~> pc \in {"none", "fopen"}

\* Neither loop is held up by what happens in /proc.
Decides == ScanEnds /\ ChildDecides

\* "No exit, bc the process could have gone offline" (process.c:138): the
\* child gets over the end of the process at any time.
ChildEnds == pc = "fopen" ~> pc \in {"execd", "returned", "aborted"}

\* "Process changed pid" (process.c:197): the environment is never that of
\* another process under the same pid.
EnvironmentOfFound == pc = "execd" => opened = proc.life

\* "Error setregid()" and "Error setreuid()" (process.c:204 and 208): a
\* child that has met an error does not execute the program.
ErrorPreventsExec == pc = "execd" => ~err
=============================================================================
