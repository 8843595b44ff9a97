--------------------------- MODULE ProcScanProofs ---------------------------
(***************************************************************************)
(* What holds of the walk through /proc and of the copy of the environment *)
(* for any number of pids, programs and lives, and whatever the other      *)
(* processes do.  A process that has been there all the time and has not   *)
(* been looked at is among the entries that have been fetched, or behind   *)
(* them; and an environ that is open belongs to one life, which does not   *)
(* come back once it has ended.                                            *)
(***************************************************************************)
EXTENDS ProcScan, FiniteSetTheorems, TLAPS

\* Lives are numbered as they begin.
Numbered == \E n \in Nat : Lives = 1..n

\* What the steps need to know of each other's results.
Handed ==
  /\ proc \in [valid : BOOLEAN, uid : Nat, pid : Nat, life : Nat]
  /\ pc = "fopen" => proc.valid
  /\ pc \in {"count", "copy", "setids", "execve", "execd"} => opened \in Lives
  /\ pc \in {"opendir", "readdir", "status", "none", "fopen", "count"} => copied = 0

\* A matching process that stays is still to come, if nothing failed to be read.
Ahead ==
  /\ \A l \in staying : program[l].matches
  /\ pc \in {"opendir", "readdir", "status"} /\ ~unread =>
       \A l \in staying : \E p \in Pids : running[p] = l /\ (p \in batch \/ p >= next)
  /\ pc = "none" => staying = {} \/ unread

\* The number of strings is that of those before a byte 0xFF, while the
\* process lives, and a child without an error has copied as many.
Counted ==
  /\ pc \in {"copy", "setids", "execve", "execd"} /\ Alive(opened) => no_strings = Countable
  /\ pc \in {"setids", "execve"} => copied = no_strings
  /\ pc = "execve" => frees \in 0..2 /\ (frees > 0 => err)
  /\ pc = "execd" /\ ~err => copied = no_strings

IInv == TypeOK /\ Numbered /\ Handed /\ Ahead /\ Counted

-----------------------------------------------------------------------------
LEMMA ProgramTypes ==
  ASSUME TypeOK, NEW l \in Lives
  PROVE  /\ program[l].matches \in BOOLEAN
         /\ program[l].uid \in Nat /\ program[l].strings \in Nat
         /\ program[l].before \in 0..program[l].strings
BY ScanAssumption DEF TypeOK, Lives

LEMMA InitInv == Init => IInv
<1> SUFFICES ASSUME Init PROVE IInv
  OBVIOUS
<1> USE ScanAssumption DEF Init
<1>1. program \in [Pids -> Programs] /\ Lives = 1..MaxPid
  BY DEF Pids, Lives
<1>2. TypeOK
  <2>1. running \in [Pids -> Lives \cup {Nobody}] /\ program \in [Lives -> Programs]
    BY <1>1 DEF Pids
  <2>2. staying \subseteq Lives
    BY DEF Matching
  <2>3. next \in 1..(MaxPid + 1)
    OBVIOUS
  <2>4. /\ batch \subseteq Pids /\ pc = "opendir" /\ opened \in Lives \cup {Nobody}
        /\ proc.pid \in Pids \cup {0} /\ ~proc.valid
    OBVIOUS
  <2>5. no_strings \in Nat /\ copied \in 0..no_strings /\ frees \in 0..3
    OBVIOUS
  <2>6. err \in BOOLEAN /\ unread \in BOOLEAN
    OBVIOUS
  <2> QED
    BY <2>1, <2>2, <2>3, <2>4, <2>5, <2>6 DEF TypeOK
<1>3. Numbered /\ Handed /\ Counted
  BY <1>1 DEF Numbered, Handed, Counted, Root, Nobody
<1>4. Ahead
  BY <1>1 DEF Ahead, Matching, Alive, Pids
<1> QED
  BY <1>2, <1>3, <1>4 DEF IInv

-----------------------------------------------------------------------------
(* The steps of the scan and of the child leave the other processes alone. *)

LEMMA NumberedKept ==
  ASSUME IInv, UNCHANGED world
  PROVE  Numbered' /\ Lives' = Lives /\ Alive(opened)' = (\E p \in Pids : running[p] = opened')
BY DEF IInv, Numbered, Lives, world, Alive

LEMMA ScanInv ==
  ASSUME IInv, Scan
  PROVE  IInv'
<1> USE DEF IInv, Lives, scan, child, world
<1>0. /\ UNCHANGED <<running, program, staying>>
      /\ UNCHANGED <<opened, no_strings, copied, gid, uid, frees, err>>
      /\ pc \in {"opendir", "readdir", "status"}
      /\ pc' \in {"readdir", "none", "status", "fopen"}
  BY DEF Scan, OpenDir, Fetch, TakeEntry, NotFound, ParseStateFile
<1>1. Numbered'
  BY <1>0, NumberedKept
<1>2. Counted'
  BY <1>0 DEF Counted
<1>3. /\ proc' \in [valid : BOOLEAN, uid : Nat, pid : Nat, life : Nat]
      /\ batch' \subseteq Pids /\ next' \in 1..(MaxPid + 1)
      /\ pc' = "status" => batch' /= {}
      /\ proc'.pid \in Pids \cup {0} /\ (proc'.valid => proc'.pid \in Pids)
      /\ pc' = "fopen" => proc'.valid
      /\ unread' \in BOOLEAN
  <2> USE <1>0, ScanAssumption DEF TypeOK, Handed, Pids
  <2>1. CASE OpenDir
    BY <2>1 DEF OpenDir
  <2>2. CASE Fetch
    BY <2>2 DEF Fetch
  <2>3. CASE TakeEntry
    BY <2>3 DEF TakeEntry
  <2>4. CASE NotFound
    BY <2>4 DEF NotFound
  <2>5. CASE ParseStateFile
    <3>1. PICK p \in batch :
            \/ /\ running[p] /= Nobody
               /\ proc' = [valid |-> TRUE, uid |-> program[running[p]].uid,
                           pid |-> p, life |-> running[p]]
               /\ batch' = {} /\ next' = 1 /\ pc' = "fopen"
            \/ /\ batch' = batch \ {p} /\ pc' = "readdir"
               /\ UNCHANGED <<next, proc>>
      BY <2>5 DEF ParseStateFile, Found
    <3>2. unread' \in BOOLEAN
      BY <2>5 DEF ParseStateFile, Found
    <3>3. p \in Pids /\ p \in Nat /\ running[p] \in Lives \cup {Nobody}
      OBVIOUS
    <3>4. running[p] \in Nat
      BY <3>3 DEF Numbered, Nobody
    <3>5. running[p] /= Nobody => program[running[p]].uid \in Nat
      BY <3>3, ProgramTypes
    <3>6. CASE pc' = "fopen" /\ running[p] /= Nobody
      <4>1. /\ proc' = [valid |-> TRUE, uid |-> program[running[p]].uid,
                        pid |-> p, life |-> running[p]]
            /\ batch' = {} /\ next' = 1
        BY <3>1, <3>6
      <4>2. proc' \in [valid : BOOLEAN, uid : Nat, pid : Nat, life : Nat]
        BY <3>3, <3>4, <3>5, <3>6, <4>1
      <4>3. proc'.pid = p /\ proc'.valid = TRUE
        BY <4>1
      <4>4. next' \in 1..(MaxPid + 1)
        BY <4>1
      <4> QED
        BY <3>2, <3>3, <3>6, <4>1, <4>2, <4>3, <4>4
    <3>7. CASE batch' = batch \ {p} /\ pc' = "readdir" /\ UNCHANGED <<next, proc>>
      BY <3>2, <3>7
    <3> QED
      BY <3>1, <3>6, <3>7
  <2> QED
    BY <2>1, <2>2, <2>3, <2>4, <2>5 DEF Scan
<1>4. TypeOK' /\ Handed'
  BY <1>0, <1>3 DEF TypeOK, Handed
<1>5. Ahead'
  <2> USE <1>0 DEF TypeOK, Ahead
  <2>1. CASE OpenDir
    BY <2>1 DEF OpenDir
  <2>2. CASE Fetch
    \* A process behind the old entries is in this fetch, or behind it.
    <3>1. PICK last \in next..MaxPid :
            /\ batch' = {p \in next..last : running[p] /= Nobody}
            /\ next' = last + 1
      BY <2>2 DEF Fetch
    <3>2. batch = {} /\ pc' = "readdir" /\ pc = "readdir"
      BY <2>2 DEF Fetch
    <3>3. ASSUME NEW l \in staying, ~unread
          PROVE  \E p \in Pids : running[p] = l /\ (p \in batch' \/ p >= next')
      <4>1. PICK p \in Pids : running[p] = l /\ p >= next
        BY <3>2, <3>3
      <4>2. l /= Nobody
        BY DEF Numbered, Nobody
      <4>3. CASE p <= last
        BY <3>1, <4>1, <4>2, <4>3 DEF Pids
      <4>4. CASE p > last
        BY <3>1, <4>1, <4>4 DEF Pids
      <4> QED
        BY <4>3, <4>4, ScanAssumption DEF Pids
    <3>4. unread' = unread
      BY <2>2 DEF Fetch
    <3> QED
      BY <3>2, <3>3, <3>4
  <2>3. CASE TakeEntry
    BY <2>3 DEF TakeEntry
  <2>4. CASE NotFound
    <3>1. pc' = "none" /\ (unread' \/ (batch = {} /\ next > MaxPid))
      BY <2>4 DEF NotFound
    <3>2. batch = {} /\ next > MaxPid => staying = {} \/ unread
      BY <2>4, ScanAssumption DEF Pids, NotFound
    <3>3. unread => unread'
      BY <2>4 DEF NotFound
    <3> QED
      BY <3>1, <3>2, <3>3
  <2>5. CASE ParseStateFile
    <3>1. PICK p \in batch :
            \/ pc' = "fopen"
            \/ /\ unread' = (unread \/ Found(running[p]))
               /\ batch' = batch \ {p} /\ pc' = "readdir" /\ next' = next
      BY <2>5 DEF ParseStateFile
    <3>2. CASE pc' = "fopen"
      BY <3>2
    <3>3. CASE /\ unread' = (unread \/ Found(running[p]))
               /\ batch' = batch \ {p} /\ pc' = "readdir" /\ next' = next
      \* The entry that is dropped is not that of a process that stays, or
      \* its status could not be read.
      <4>1. \A l \in staying : l /= Nobody /\ program[l].matches
        BY DEF Numbered, Nobody
      <4>2. CASE Found(running[p])
        BY <3>3, <4>2
      <4>3. CASE ~Found(running[p])
        <5>1. running[p] \notin staying
          BY <4>1, <4>3 DEF Found
        <5> QED
          BY <3>3, <5>1
      <4> QED
        BY <4>2, <4>3
    <3> QED
      BY <3>1, <3>2, <3>3
  <2> QED
    BY <2>1, <2>2, <2>3, <2>4, <2>5 DEF Scan
<1> QED
  BY <1>1, <1>2, <1>4, <1>5

LEMMA ChildInv ==
  ASSUME IInv, Child
  PROVE  IInv'
<1> USE DEF IInv, Lives, scan, world
<1>0. /\ UNCHANGED <<running, program, staying>>
      /\ UNCHANGED <<batch, next, proc, unread>>
      /\ pc \in {"fopen", "count", "copy", "setids", "execve"}
      /\ pc' \in {"returned", "count", "copy", "endless", "setids", "execve", "aborted", "execd"}
  BY DEF Child, OpenEnviron, CountStrings, CopyString, CopyEnds, SetIds, Execve, child
<1>1. Numbered' /\ Ahead'
  BY <1>0, NumberedKept DEF Ahead
<1>2. CASE OpenEnviron
  <2>1. opened' \in Lives \cup {Nobody} /\ UNCHANGED <<no_strings, copied, gid, uid, frees>>
    BY <1>2 DEF OpenEnviron, TypeOK, Handed
  <2>2. /\ err' \in BOOLEAN /\ pc = "fopen"
        /\ pc' = "returned" \/ (pc' = "count" /\ opened' \in Lives)
    BY <1>2, <2>1 DEF OpenEnviron, TypeOK
  <2> QED
    BY <1>0, <1>1, <2>1, <2>2 DEF TypeOK, Handed, Counted
<1>3. CASE CountStrings
  <2>1. Countable \in Nat
    BY <1>3, ProgramTypes DEF CountStrings, Handed, Countable
  <2>2. /\ no_strings' \in Nat /\ pc = "count" /\ pc' = "copy" /\ copied = 0
        /\ UNCHANGED <<opened, copied, gid, uid, frees, err>>
        /\ Alive(opened) => no_strings' = Countable
    BY <1>3, <2>1 DEF CountStrings, Handed
  <2>3. TypeOK' /\ Handed'
    BY <1>0, <2>2 DEF TypeOK, Handed
  <2>4. Counted'
    BY <1>0, <2>2 DEF Counted, Alive, Countable
  <2> QED
    BY <1>1, <2>3, <2>4
<1>4. CASE CopyString
  BY <1>0, <1>1, <1>4 DEF CopyString, TypeOK, Handed, Counted, Alive, Countable
<1>5. CASE CopyEnds
  BY <1>0, <1>1, <1>5 DEF CopyEnds, child, TypeOK, Handed, Counted, Alive, Countable
<1>6. CASE SetIds
  <2>1. /\ frees' \in 0..2 /\ err' \in BOOLEAN
        /\ UNCHANGED <<opened, no_strings, copied>>
        /\ pc = "setids" /\ pc' \in {"execve", "aborted"}
    BY <1>6 DEF SetIds
  <2>2. frees' \in 0..3 /\ err' \in BOOLEAN /\ (frees' > 0 => err')
    <3>1. frees' \in 0..3
      BY <2>1
    <3>2. ASSUME frees' > 0 PROVE err' = TRUE
      BY <1>6, <3>2 DEF SetIds
    <3> QED
      BY <2>1, <3>1, <3>2
  <2>3. TypeOK' /\ Handed'
    BY <1>0, <2>1, <2>2 DEF TypeOK, Handed
  <2>4. Counted'
    <3>1. pc' \in {"execve", "aborted"} /\ copied' = no_strings' /\ no_strings' = no_strings
      BY <2>1 DEF Counted
    <3>2. Alive(opened)' => no_strings' = Countable'
      BY <1>0, <2>1 DEF Counted, Alive, Countable
    <3> QED
      BY <2>1, <2>2, <3>1, <3>2 DEF Counted
  <2> QED
    BY <1>1, <2>3, <2>4
<1>7. CASE Execve
  <2>1. /\ pc = "execve" /\ copied = no_strings
        /\ frees \in 0..2 /\ (frees > 0 => err)
        /\ UNCHANGED <<opened, no_strings, gid, uid>>
    BY <1>7 DEF Execve, Counted
  <2>2. CASE pc' = "execd"
    <3>1. /\ copied' \in IF frees > 0 THEN 0..copied ELSE {copied}
          /\ UNCHANGED <<frees, err>>
      BY <1>7, <2>2 DEF Execve
    <3>2. copied' \in 0..no_strings' /\ (~(frees > 0) => copied' = no_strings')
      BY <2>1, <3>1 DEF TypeOK
    <3>3. ~err' => copied' = no_strings'
      BY <2>1, <3>1, <3>2
    <3> QED
      BY <1>0, <1>1, <2>1, <2>2, <3>1, <3>2, <3>3 DEF TypeOK, Handed, Counted, Alive, Countable
  <2>3. CASE pc' /= "execd"
    <3>1. pc' \in {"returned", "aborted"} /\ frees' = frees + 1 /\ err' = TRUE /\ copied' = copied
      BY <1>7, <2>3 DEF Execve
    <3> QED
      BY <1>0, <1>1, <2>1, <3>1 DEF TypeOK, Handed, Counted
  <2> QED
    BY <2>2, <2>3
<1> QED
  BY <1>1, <1>2, <1>3, <1>4, <1>5, <1>6, <1>7 DEF Child

-----------------------------------------------------------------------------
(* The steps of the other processes.                                       *)

LEMMA EndsInv ==
  ASSUME IInv, NEW p \in Pids, Ends(p)
  PROVE  IInv'
<1> USE DEF IInv, Lives, scan, child, Ends
<1>1. TypeOK' /\ Numbered' /\ Handed'
  BY DEF TypeOK, Numbered, Handed, Nobody
<1>2. Ahead'
  BY DEF TypeOK, Ahead
<1>3. Counted'
  \* Nobody comes alive.
  <2>1. opened \in Lives /\ Alive(opened)' => Alive(opened)
    BY DEF TypeOK, Numbered, Alive, Nobody
  <2> QED
    BY <2>1 DEF Counted, Handed, Countable
<1> QED
  BY <1>1, <1>2, <1>3

LEMMA BecomesInv ==
  ASSUME IInv, NEW p \in Pids, NEW prog \in Programs, Becomes(p, prog)
  PROVE  IInv'
<1> USE DEF IInv, scan, child
<1>1. PICK n \in Nat : Lives = 1..n
  BY DEF Numbered
<1> DEFINE life == n + 1
<1>2. Cardinality(Lives) = n
  BY <1>1, FS_Interval
<1>3. /\ program' = [l \in Lives \cup {life} |-> IF l = life THEN prog ELSE program[l]]
      /\ running' = [running EXCEPT ![p] = life]
      /\ staying' = staying \ {running[p]}
      /\ UNCHANGED <<pc, batch, next, proc, unread, opened, no_strings, copied,
                     gid, uid, frees, err>>
  BY <1>2 DEF Becomes
<1>4. /\ Lives' = Lives \cup {life} /\ life \notin Lives /\ Lives' = 1..life
      /\ \A l \in Lives : program'[l] = program[l]
  BY <1>1, <1>3 DEF Lives
<1> HIDE DEF life
<1>5. program' \in [Lives' -> Programs]
  BY <1>3, <1>4 DEF TypeOK
<1>6. TypeOK'
  BY <1>3, <1>4, <1>5 DEF TypeOK
<1>7. Numbered' /\ Handed'
  BY <1>1, <1>3, <1>4 DEF Numbered, Handed, life
<1>8. Ahead'
  <2>1. \A l \in staying' : l \in Lives /\ l \in staying /\ l /= running[p]
    BY <1>3 DEF TypeOK
  <2> QED
    BY <1>3, <1>4, <2>1 DEF TypeOK, Ahead
<1>9. Counted'
  \* The new life is another one than that of the open environ.
  <2>1. opened \in Lives /\ Alive(opened)' => Alive(opened)
    BY <1>3, <1>4 DEF TypeOK, Alive
  <2>2. opened \in Lives => program'[opened] = program[opened]
    BY <1>4
  <2> QED
    BY <1>3, <2>1, <2>2 DEF Counted, Handed, Countable
<1> QED
  BY <1>6, <1>7, <1>8, <1>9

LEMMA NextInv == IInv /\ [Next]_vars => IInv'
<1> SUFFICES ASSUME IInv, [Next]_vars PROVE IInv'
  OBVIOUS
<1>1. CASE Scan
  BY <1>1, ScanInv
<1>2. CASE Child
  BY <1>2, ChildInv
<1>3. CASE Others
  BY <1>3, EndsInv, BecomesInv DEF Others
<1>4. CASE UNCHANGED vars
  BY <1>4 DEF vars, IInv, TypeOK, Numbered, Handed, Ahead, Counted, Lives, Alive, Countable
<1> QED
  BY <1>1, <1>2, <1>3, <1>4 DEF Next

\* Every variable keeps its type, and no set of entries is looked into when
\* it is empty (process.c:74-90).
THEOREM TypeOKAlways == Spec => []TypeOK
<1>1. IInv => TypeOK
  BY DEF IInv
<1> QED
  BY <1>1, InitInv, NextInv, PTL DEF Spec

\* A PulseAudio that is there during the whole walk through /proc is found
\* (process.c:74-98), for any number of pids and programs, whatever other
\* processes come and go, and however many entries one fetch returns.
THEOREM NotFoundMeansAbsentAlways == Spec => []NotFoundMeansAbsent
<1>1. IInv => NotFoundMeansAbsent
  BY DEF IInv, Ahead, NotFoundMeansAbsent
<1> QED
  BY <1>1, InitInv, NextInv, PTL DEF Spec

\* A child that has met no error executes the program with all strings of
\* one process, unless that process has ended or has a byte 0xFF in its
\* environment (process.c:142-165), for any number of strings.
THEOREM WholeOrGoneAlways == Spec => []WholeOrGone
<1>1. IInv => WholeOrGone
  <2> SUFFICES ASSUME IInv, pc = "execd", ~err, Alive(opened)
               PROVE  copied = Strings \/ Countable < Strings
    BY DEF WholeOrGone
  <2>1. copied = Countable /\ opened \in Lives
    BY DEF IInv, Counted, Handed
  <2>2. Strings \in Nat /\ Countable \in 0..Strings
    BY <2>1, ProgramTypes DEF IInv, Strings, Countable
  <2> QED
    BY <2>1, <2>2
<1> QED
  BY <1>1, InitInv, NextInv, PTL DEF Spec
=============================================================================
