-------------------------- MODULE AlarmDaemonProofs --------------------------
(* What holds of the daemon for any number of processes, monitor threads   *)
(* and attempts, and any choice of faults: type correctness, the mutex,    *)
(* and that no death of the playback process is missed.                    *)
EXTENDS AlarmDaemon, TLAPS

LEMMA ConstantTypes ==
    /\ Daemon \in Procs /\ Pids \subseteq Procs /\ Daemon \notin Pids
    /\ Nobody \notin Procs /\ 0 \in 0..Tries /\ Tries \in 0..Tries /\ Tries \in Nat
    /\ Blank \in Memory /\ Closed \in Conn /\ FreeSlot \in Monitor
<1>1. 0 \in 0..Tries /\ Tries \in 0..Tries /\ Tries \in Nat
  BY TriesAssumption
<1> QED
  BY <1>1, ProcessAssumption DEF Procs, Blank, Memory, Closed, Conn, FreeSlot, Monitor

-----------------------------------------------------------------------------
(* Type correctness *)

LEMMA TypeInit == Init => TypeOK
<1> SUFFICES ASSUME Init PROVE TypeOK
  OBVIOUS
<1> USE ConstantTypes DEF Init
<1>1. proc \in [Pids -> ProcStates] /\ parent \in [Pids -> Procs \cup {Nobody}]
  BY DEF ProcStates
<1>2. mem \in [Procs -> Memory]
  <2>1. PICK m \in InitialMemory : mem = [s \in Procs |-> IF s = Daemon THEN m ELSE Blank]
    OBVIOUS
  <2>2. PICK b \in BOOLEAN : m = [Blank EXCEPT !.req_stop_flag = b]
    BY DEF InitialMemory
  <2>3. m \in Memory
    BY <2>2 DEF Memory
  <2> QED
    BY <2>1, <2>3
<1> QED
  BY <1>1, <1>2 DEF TypeOK, LoopStates, CommandKinds

LEMMA TypeExits ==
  ASSUME TypeOK, NEW p \in Procs, NEW c \in [Procs -> Conn], ExitsLeaving(p, c),
         UNCHANGED sock \/ sock' = Nobody
  PROVE  TypeOK'
<1> USE ConstantTypes
<1>t. /\ mem \in [Procs -> Memory] /\ mon \in [Monitors -> Monitor]
      /\ proc \in [Pids -> ProcStates] /\ parent \in [Pids -> Procs \cup {Nobody}]
  BY DEF TypeOK
<1>1. proc' \in [Pids -> ProcStates]
  BY <1>t DEF ExitsLeaving, ProcStates
<1>2. parent' \in [Pids -> Procs \cup {Nobody}]
  BY <1>t DEF ExitsLeaving
<1>3. conn' \in [Procs -> Conn]
  BY DEF ExitsLeaving, Conn
<1>4. mem' \in [Procs -> Memory]
  BY <1>t DEF ExitsLeaving
<1>5. mon' \in [Monitors -> Monitor]
  BY <1>t DEF ExitsLeaving
<1> QED
  BY <1>1, <1>2, <1>3, <1>4, <1>5 DEF ExitsLeaving, TypeOK, LoopStates

LEMMA TypeSupervisorExits ==
  ASSUME TypeOK, NEW s \in Procs, SupervisorExits(s)
  PROVE  TypeOK'
<1>1. CASE DaemonExits
  BY <1>1 DEF DaemonExits, TypeOK
<1>2. CASE Exits(s) /\ UNCHANGED sock
  BY <1>2, TypeExits DEF Exits, TypeOK
<1> QED
  BY <1>1, <1>2 DEF SupervisorExits

LEMMA SpawnUpdate ==
  ASSUME NEW f \in [Procs -> Memory], NEW s \in Procs, NEW p \in Pids
  PROVE  [f EXCEPT ![s].pid = p, ![s].i = 0] \in [Procs -> Memory]
<1>1. 0 \in 0..Tries
  BY ConstantTypes
<1> QED
  BY <1>1 DEF Memory

LEMMA SpawnMemory ==
  ASSUME mem \in [Procs -> Memory], NEW s \in Procs, NEW p \in Pids, NEW l, Spawn(s, p, l)
  PROVE  mem' \in [Procs -> Memory]
<1>1. [mem EXCEPT ![p] = mem[s]] \in [Procs -> Memory]
  BY ConstantTypes
<1>2. mem' = [mem EXCEPT ![p] = mem[s], ![s].pid = p, ![s].i = 0]
  BY DEF Spawn
<1>3. mem' = [[mem EXCEPT ![p] = mem[s]] EXCEPT ![s].pid = p, ![s].i = 0]
  BY <1>2
<1> QED
  BY <1>1, <1>3, SpawnUpdate

LEMMA TypeLoop ==
  ASSUME TypeOK, NEW s \in Procs, LoopStep(s)
  PROVE  TypeOK'
<1> USE ConstantTypes
<1>t. mem \in [Procs -> Memory] /\ conn \in [Procs -> Conn] /\ mon \in [Monitors -> Monitor]
  BY DEF TypeOK
<1>1. CASE Resume(s)
  BY <1>1 DEF Resume, TypeOK, Goto, LoopStates, NoEffectOnOthers
<1>2. CASE LockForPlayback(s)
  <2>1. mem' \in [Procs -> Memory]
    BY <1>t, <1>2 DEF LockForPlayback, Memory
  <2> QED
    BY <1>2, <2>1 DEF LockForPlayback, TypeOK, Goto, LoopStates, NoEffectOnOthers
<1>3. CASE FindUid(s)
  BY <1>3 DEF FindUid, TypeOK, Goto, LoopStates, NoEffectOnOthers
<1>4. ASSUME NEW p \in Pids, NEW m \in Monitors, Fork(s, p, m) PROVE TypeOK'
  <2>1. mem' \in [Procs -> Memory]
    BY <1>t, <1>4, SpawnMemory DEF Fork
  <2>2. mon' \in [Monitors -> Monitor]
    BY <1>t, <1>4 DEF Fork, Monitor
  <2> QED
    BY <1>4, <2>1, <2>2 DEF Fork, Spawn, TypeOK, Goto, LoopStates, ProcStates
<1>5. CASE Connect(s)
  <2>1. conn' \in [Procs -> Conn]
    BY <1>t, <1>5 DEF Connect, Conn, TypeOK, Command, Reachable
  <2> QED
    BY <1>5, <2>1 DEF Connect, TypeOK, Goto, LoopStates, NoEffectOnOthers
<1>6. CASE ConnectRefused(s)
  <2>1. mem' \in [Procs -> Memory]
    BY <1>t, <1>6 DEF ConnectRefused, Memory
  <2> QED
    BY <1>6, <2>1 DEF ConnectRefused, TypeOK, Goto, LoopStates, NoEffectOnOthers
<1>7. CASE Send(s)
  <2>1. conn' \in [Procs -> Conn]
    BY <1>t, <1>7 DEF Send, Conn
  <2> QED
    BY <1>7, <2>1 DEF Send, TypeOK, Goto, LoopStates, NoEffectOnOthers
<1>8. CASE SendKills(s)
  BY <1>8, TypeSupervisorExits DEF SendKills
<1>9. CASE ReceiveAck(s)
  <2>1. mem' \in [Procs -> Memory]
    BY <1>t, <1>9 DEF ReceiveAck, Memory
  <2> QED
    BY <1>9, <2>1 DEF ReceiveAck, TypeOK, Goto, LoopStates, NoEffectOnOthers
<1>10. CASE ReceiveNoAck(s)
  BY <1>10 DEF ReceiveNoAck, TypeOK, Goto, LoopStates, NoEffectOnOthers
<1>11. CASE FinishPlayback(s)
  <2>1. mem' \in [Procs -> Memory]
    BY <1>t, <1>11 DEF FinishPlayback, Memory
  <2> QED
    BY <1>11, <2>1 DEF FinishPlayback, TypeOK, Goto, LoopStates, NoEffectOnOthers
<1>12. CASE RestartPlayback(s)
  <2>1. mem' \in [Procs -> Memory]
    BY <1>t, <1>12 DEF RestartPlayback, Memory
  <2> QED
    BY <1>12, <2>1 DEF RestartPlayback, TypeOK, Goto, LoopStates, NoEffectOnOthers
<1>13. CASE StopPlayback(s)
  <2>1. mem' \in [Procs -> Memory]
    BY <1>t, <1>13 DEF StopPlayback, Memory
  <2> QED
    BY <1>13, <2>1 DEF StopPlayback, TypeOK, Goto, LoopStates, NoEffectOnOthers
<1>14. CASE WaitAgain(s)
  BY <1>14 DEF WaitAgain, TypeOK, Goto, LoopStates, NoEffectOnOthers
<1>15. CASE LoopFails(s)
  <2>1. CASE s # Daemon /\ Exits(s) /\ UNCHANGED sock
    BY <1>t, <2>1, TypeExits DEF Exits
  <2>2. CASE DaemonExits
    BY <2>2 DEF DaemonExits, TypeOK
  <2>3. CASE Goto(s, "fail")
    <3>1. CASE ~(s # Daemon /\ Exits(s)) /\ ~DaemonExits
      <4>1. mem' \in [Procs -> Memory]
        BY <1>t, <1>15, <2>3, <3>1 DEF LoopFails, Memory
      <4> QED
        BY <1>15, <2>3, <3>1, <4>1 DEF LoopFails, TypeOK, Goto, LoopStates
    <3> QED
      BY <2>1, <2>2, <3>1, <1>15 DEF LoopFails
  <2> QED
    BY <1>15, <2>1, <2>2, <2>3 DEF LoopFails
<1> QED
  BY <1>1, <1>2, <1>3, <1>4, <1>5, <1>6, <1>7, <1>8, <1>9, <1>10, <1>11, <1>12,
     <1>13, <1>14, <1>15 DEF LoopStep

LEMMA TypeLoopEnv ==
  ASSUME TypeOK, NEW s \in Procs, LoopEnv(s)
  PROVE  TypeOK'
<1> USE ConstantTypes
<1>t. mem \in [Procs -> Memory]
  BY DEF TypeOK
<1>1. CASE FallAsleep(s)
  BY <1>1 DEF FallAsleep, TypeOK, Goto, LoopStates, NoEffectOnOthers
<1>2. CASE ObserveFails(s)
  BY <1>2 DEF ObserveFails, TypeOK, Goto, LoopStates, NoEffectOnOthers
<1>3. CASE SuspendFails(s)
  BY <1>3, TypeSupervisorExits DEF SuspendFails
<1>4. CASE ForkFails(s)
  BY <1>4 DEF ForkFails, AfterSpawnError, TypeOK, Goto, LoopStates, NoEffectOnOthers
<1>5. CASE SpuriousWakeup(s)
  BY <1>5 DEF SpuriousWakeup, TypeOK, Goto, LoopStates, NoEffectOnOthers
<1>6. ASSUME NEW p \in Pids, ForkUnwatched(s, p) PROVE TypeOK'
  <2>1. mem' \in [Procs -> Memory]
    BY <1>t, <1>6, SpawnMemory DEF ForkUnwatched
  <2> QED
    BY <1>6, <2>1 DEF ForkUnwatched, AfterSpawnError, Spawn, TypeOK, Goto, LoopStates, ProcStates
<1> QED
  BY <1>1, <1>2, <1>3, <1>4, <1>5, <1>6 DEF LoopEnv

LEMMA TypeMonitor ==
  ASSUME TypeOK, NEW m \in Monitors, MonitorStep(m)
  PROVE  TypeOK'
<1> USE ConstantTypes
<1>t. /\ mem \in [Procs -> Memory] /\ mon \in [Monitors -> Monitor]
      /\ proc \in [Pids -> ProcStates] /\ parent \in [Pids -> Procs \cup {Nobody}]
  BY DEF TypeOK
<1>1. CASE MonitorStarts(m)
  <2>1. mon' \in [Monitors -> Monitor]
    BY <1>t, <1>1 DEF MonitorStarts, ChildOf, Monitor
  <2> QED
    BY <1>1, <2>1 DEF MonitorStarts, TypeOK
<1>2. CASE MonitorReaps(m)
  <2>1. mon' \in [Monitors -> Monitor]
    BY <1>t, <1>2 DEF MonitorReaps, Monitor
  <2>2. proc' \in [Pids -> ProcStates] /\ parent' \in [Pids -> Procs \cup {Nobody}]
    BY <1>t, <1>2 DEF MonitorReaps, ProcStates
  <2> QED
    BY <1>2, <2>1, <2>2 DEF MonitorReaps, TypeOK
<1>3. CASE MonitorSignals(m)
  <2>1. mon[m].sup \in Procs
    BY <1>t DEF Monitor
  <2>2. mem' \in [Procs -> Memory]
    BY <1>t, <1>3, <2>1 DEF MonitorSignals, Memory
  <2>3. mon' \in [Monitors -> Monitor]
    BY <1>t, <1>3 DEF MonitorSignals
  <2>4. pc' \in [Procs -> LoopStates]
    BY <1>3, <2>1 DEF MonitorSignals, TypeOK, LoopStates
  <2> QED
    BY <1>3, <2>2, <2>3, <2>4 DEF MonitorSignals, TypeOK
<1> QED
  BY <1>1, <1>2, <1>3 DEF MonitorStep

LEMMA TypeSound ==
  ASSUME TypeOK, NEW p \in Pids, NEW from, NEW to \in ProcStates, SoundStep(p, from, to),
         sock' \in Pids \cup {Nobody}, conn' \in [Procs -> Conn]
  PROVE  TypeOK'
BY DEF SoundStep, TypeOK

LEMMA TypeProc ==
  ASSUME TypeOK, NEW p \in Pids, ProcStep(p) \/ ProcEnv(p)
  PROVE  TypeOK'
<1> USE ConstantTypes
<1>t. /\ mem \in [Procs -> Memory] /\ conn \in [Procs -> Conn]
      /\ proc \in [Pids -> ProcStates] /\ sock \in Pids \cup {Nobody}
  BY DEF TypeOK
<1>a. \A s \in Procs : Acked(s) \in [Procs -> Conn]
  BY <1>t DEF Acked, Conn
<1>1. CASE ChildExecs(p)
  <2>1. mem' \in [Procs -> Memory]
    BY <1>t, <1>1 DEF ChildExecs
  <2> QED
    BY <1>1, <2>1 DEF ChildExecs, TypeOK, ProcStates
<1>2. CASE ChildFails(p)
  BY <1>2 DEF ChildFails, AfterSpawnError, Goto, TypeOK, ProcStates, LoopStates
<1>3. CASE Unlink(p) \/ Bind(p) \/ Listen(p)
  BY <1>t, <1>3, TypeSound DEF Unlink, Bind, Listen, ProcStates
<1>4. CASE BindFails(p) \/ SoundCrashes(p) \/ SoundFinishes(p)
  BY <1>t, <1>4, TypeExits DEF BindFails, SoundCrashes, SoundFinishes, Exits
<1>5. ASSUME NEW s \in Procs, ServePlay(p, s) PROVE TypeOK'
  <2>1. conn' \in [Procs -> Conn]
    BY <1>t, <1>5 DEF ServePlay, Conn
  <2> QED
    BY <1>t, <1>5, <2>1, TypeSound DEF ServePlay, ProcStates
<1>6. ASSUME NEW s \in Procs, PlaybackReady(p, s) \/ ServeStop(p, s) PROVE TypeOK'
  BY <1>t, <1>a, <1>6, TypeSound DEF PlaybackReady, ServeStop, ProcStates
<1>7. ASSUME NEW s \in Procs, ServePlayTwice(p, s) \/ ServeStopIdle(p, s) PROVE TypeOK'
  BY <1>t, <1>a, <1>7, TypeExits DEF ServePlayTwice, ServeStopIdle, Exits
<1> QED
  BY <1>1, <1>2, <1>3, <1>4, <1>5, <1>6, <1>7 DEF ProcStep, ProcEnv

LEMMA TypeControl ==
  ASSUME TypeOK, ControlStep \/ ControlEnv
  PROVE  TypeOK'
<1> USE ConstantTypes
<1>t. mem \in [Procs -> Memory]
  BY DEF TypeOK
<1>1. CASE CtlListens \/ CtlAccepts \/ CtlHangup \/ CtlFails
  BY <1>1 DEF CtlListens, CtlAccepts, CtlHangup, CtlFails, CtlGoto, TypeOK
<1>2. CASE CtlReceives
  BY <1>2, ChoiceAssumption DEF CtlReceives, CtlGoto, TypeOK
<1>3. CASE CtlLocks
  <2>1. mem' \in [Procs -> Memory]
    BY <1>t, <1>3 DEF CtlLocks, Memory
  <2> QED
    BY <1>3, <2>1 DEF CtlLocks, CtlGoto, TypeOK
<1>4. CASE CtlDecodes
  <2> DEFINE a == (msg = "on") \/ (mem[Daemon].act_flag /\ msg # "off")
             r == mem[Daemon].req_stop_flag \/ msg = "disarm"
  <2>0. a \in BOOLEAN /\ r \in BOOLEAN
    OBVIOUS
  <2>1. mem' \in [Procs -> Memory]
    <3>1. mem' = [mem EXCEPT ![Daemon].lk = "none", ![Daemon].act_flag = a,
                             ![Daemon].req_stop_flag = r]
      BY <1>4 DEF CtlDecodes
    <3>2. ASSUME NEW x \in BOOLEAN, NEW y \in BOOLEAN
          PROVE  [mem EXCEPT ![Daemon].lk = "none", ![Daemon].act_flag = x,
                             ![Daemon].req_stop_flag = y] \in [Procs -> Memory]
      BY <1>t DEF Memory
    <3> QED
      BY <2>0, <3>1, <3>2
  <2> QED
    BY <1>4, <2>1 DEF CtlDecodes, TypeOK, LoopStates, CommandKinds
<1> QED
  BY <1>1, <1>2, <1>3, <1>4 DEF ControlStep, ControlEnv

LEMMA TypeMain ==
  ASSUME TypeOK, BootStep \/ CreateFails \/ LoopCancelled \/ CtlCancelled
  PROVE  TypeOK'
<1> USE ConstantTypes
<1>t. mem \in [Procs -> Memory]
  BY DEF TypeOK
<1>1. CASE CreateLoop \/ CreateControl \/ JoinControl
  BY <1>1 DEF CreateLoop, CreateControl, JoinControl, BootFrame, Goto, TypeOK, LoopStates
<1>2. CASE JoinLoop \/ CreateFails
  BY <1>2 DEF JoinLoop, CreateFails, DaemonExits, TypeOK
<1>3. CASE LoopCancelled
  <2>1. mem' \in [Procs -> Memory]
    BY <1>t, <1>3 DEF LoopCancelled, Memory
  <2> QED
    BY <1>3, <2>1 DEF LoopCancelled, Goto, TypeOK, LoopStates
<1>4. CASE CtlCancelled
  BY <1>4 DEF CtlCancelled, CtlGoto, TypeOK
<1> QED
  BY <1>1, <1>2, <1>3, <1>4 DEF BootStep

LEMMA TypeStutter == TypeOK /\ UNCHANGED vars => TypeOK'
  BY DEF TypeOK, vars

(* Every variable keeps its type, for any constants: in particular the     *)
(* attempts to connect stay within their limit (main.c:417).               *)
THEOREM TypeCorrect == Spec => []TypeOK
<1>1. TypeOK /\ [Next]_vars => TypeOK'
  BY TypeLoop, TypeLoopEnv, TypeMonitor, TypeProc, TypeControl, TypeMain, TypeStutter
     DEF Next, Terminated
<1> QED
  BY <1>1, TypeInit, PTL DEF Spec

-----------------------------------------------------------------------------
(* Mutual exclusion: MutexInvariant is inductive *)

LEMMA MutexInit == Init => MutexInvariant
<1> SUFFICES ASSUME Init PROVE MutexInvariant
  OBVIOUS
<1>1. ctl = "none" /\ pc = [s \in Procs |-> "none"] /\ proc = [p \in Pids |-> "free"]
  BY DEF Init
<1> QED
  BY <1>1, ConstantTypes DEF MutexInvariant, Critical

LEMMA MutexExits ==
  ASSUME TypeOK, MutexInvariant, NEW p \in Pids, NEW c, ExitsLeaving(p, c)
  PROVE  MutexInvariant'
<1>1. /\ mem' = [mem EXCEPT ![p] = Blank] /\ pc' = [pc EXCEPT ![p] = "none"]
      /\ UNCHANGED <<ctl, boot>>
  BY DEF ExitsLeaving
<1>2. \A q \in Pids : /\ proc'[q] = "child" => proc[q] = "child" /\ q # p
                      /\ q # p /\ proc[q] = "clone" => proc'[q] = "clone"
  BY DEF ExitsLeaving
<1>3. mem \in [Procs -> Memory] /\ pc \in [Procs -> LoopStates]
  BY DEF TypeOK
<1>4. p # Daemon /\ p \in Procs
  BY ConstantTypes
<1>5. pc'[p] = "none" /\ \A s \in Procs \ {p} : mem'[s] = mem[s] /\ pc'[s] = pc[s]
  BY <1>1, <1>3, <1>4
<1>6. /\ boot' \in {"init", "loop"} => ctl' = "none"
      /\ ctl' = "cs" => mem'[Daemon].lk = "ctl" \/ pc'[Daemon] = "fail"
  BY <1>1, <1>4, <1>5, ConstantTypes DEF MutexInvariant
<1>7. \A s \in Procs : pc'[s] \in Critical => mem'[s].lk = "loop"
  BY <1>5 DEF MutexInvariant, Critical
<1>8. \A q \in Pids : pc'[q] # "none" => proc'[q] = "clone"
  BY <1>2, <1>5, ConstantTypes DEF MutexInvariant
<1>9. \A q \in Pids : proc'[q] = "child" => mem'[q].lk = "loop"
  BY <1>2, <1>5, ConstantTypes DEF MutexInvariant
<1> QED
  BY <1>6, <1>7, <1>8, <1>9 DEF MutexInvariant, Critical

LEMMA MutexSupervisorExits ==
  ASSUME TypeOK, MutexInvariant, NEW s \in Procs, SupervisorExits(s)
  PROVE  MutexInvariant'
<1>1. CASE s = Daemon
  BY <1>1 DEF SupervisorExits, DaemonExits, MutexInvariant
<1>2. CASE s # Daemon
  BY <1>2, MutexExits DEF SupervisorExits, Exits, Procs
<1> QED
  BY <1>1, <1>2

LEMMA MutexSpawn ==
  ASSUME TypeOK, MutexInvariant, NEW s \in Procs, NEW p \in Pids, NEW l, Spawn(s, p, l)
  PROVE  MutexInvariant'
<1>t. /\ mem \in [Procs -> Memory] /\ pc \in [Procs -> LoopStates]
      /\ proc \in [Pids -> ProcStates]
  BY DEF TypeOK
<1>1. pc[s] = "fork" /\ mem[s].lk = "loop"
  BY DEF Spawn, At, MutexInvariant, Critical
<1>2. p \in Procs /\ pc[p] = "none" /\ p # s
  BY <1>1, ConstantTypes DEF Spawn, Fresh, MutexInvariant
<1>3. mem' = [mem EXCEPT ![p] = mem[s], ![s].pid = p, ![s].i = 0]
  BY DEF Spawn
<1>4. mem'[p] = mem[s] /\ mem'[s].lk = mem[s].lk
  BY <1>t, <1>2, <1>3 DEF Memory
<1>5. \A q \in Procs \ {p, s} : mem'[q] = mem[q]
  BY <1>t, <1>2, <1>3
<1>6. pc' = [pc EXCEPT ![s] = l] /\ proc' = [proc EXCEPT ![p] = "child"] /\ UNCHANGED <<ctl, boot>>
  BY DEF Spawn, Goto
<1>7. /\ boot' \in {"init", "loop"} => ctl' = "none"
      /\ ctl' = "cs" => mem'[Daemon].lk = "ctl" \/ pc'[Daemon] = "fail"
  BY <1>t, <1>1, <1>2, <1>4, <1>5, <1>6, ConstantTypes DEF MutexInvariant
<1>8. \A r \in Procs : pc'[r] \in Critical => mem'[r].lk = "loop"
  BY <1>t, <1>1, <1>2, <1>4, <1>5, <1>6 DEF MutexInvariant, Critical
<1>9. \A q \in Pids : pc'[q] # "none" => proc'[q] = "clone"
  BY <1>t, <1>1, <1>2, <1>6, ConstantTypes DEF MutexInvariant
<1>10. \A q \in Pids : proc'[q] = "child" => mem'[q].lk = "loop"
  BY <1>t, <1>1, <1>2, <1>4, <1>5, <1>6, ConstantTypes DEF MutexInvariant
<1> QED
  BY <1>7, <1>8, <1>9, <1>10 DEF MutexInvariant

(* main_loop goes on where nobody else has the mutex, and holds it where    *)
(* it must.                                                                *)
LEMMA MutexGoesOn ==
  ASSUME TypeOK, MutexInvariant, NEW s \in Procs, NEW l, Goto(s, l), NoEffectOnOthers,
         mem[s].lk # "ctl", pc[s] \notin {"none", "fail"},
         \A q \in Procs \ {s} : mem'[q] = mem[q],
         l \in Critical => mem'[s].lk = "loop"
  PROVE  MutexInvariant'
<1>t. pc \in [Procs -> LoopStates]
  BY DEF TypeOK
<1>1. pc'[s] = l /\ \A q \in Procs \ {s} : pc'[q] = pc[q]
  BY <1>t DEF Goto
<1>2. UNCHANGED <<proc, ctl, boot>>
  BY DEF NoEffectOnOthers
<1>3. boot' \in {"init", "loop"} => ctl' = "none"
  BY <1>2 DEF MutexInvariant
<1>4. ASSUME NEW q \in Pids
      PROVE  (pc'[q] # "none" => proc'[q] = "clone") /\ (proc'[q] = "child" => mem'[q].lk = "loop")
  <2>1. CASE q = s
    <3>1. proc[q] = "clone"
      BY <2>1 DEF MutexInvariant
    <3> QED
      BY <1>2, <3>1
  <2>2. CASE q # s
    BY <1>1, <1>2, <2>2 DEF MutexInvariant, Procs
  <2> QED
    BY <2>1, <2>2
<1>5. \A q \in Procs : pc'[q] \in Critical => mem'[q].lk = "loop"
  BY <1>1 DEF MutexInvariant
<1>6. ctl' = "cs" => mem'[Daemon].lk = "ctl" \/ pc'[Daemon] = "fail"
  <2>1. CASE s = Daemon
    BY <1>2, <2>1 DEF MutexInvariant
  <2>2. CASE s # Daemon
    BY <1>1, <1>2, <2>2 DEF MutexInvariant, Procs
  <2> QED
    BY <2>1, <2>2
<1> QED
  BY <1>3, <1>4, <1>5, <1>6 DEF MutexInvariant

LEMMA MutexLoop ==
  ASSUME TypeOK, MutexInvariant, NEW s \in Procs, LoopStep(s)
  PROVE  MutexInvariant'
<1> USE ConstantTypes
<1>t. mem \in [Procs -> Memory] /\ pc \in [Procs -> LoopStates]
  BY DEF TypeOK
<1>1. CASE Resume(s)
  BY <1>t, <1>1 DEF Resume, At, Goto, NoEffectOnOthers, MutexInvariant, Critical
<1>2. CASE LockForPlayback(s)
  BY <1>t, <1>2 DEF LockForPlayback, At, LockFree, Goto, NoEffectOnOthers, MutexInvariant, Critical, Memory
<1>3. CASE FindUid(s)
  BY <1>t, <1>3 DEF FindUid, At, Goto, NoEffectOnOthers, MutexInvariant, Critical
<1>5. CASE Connect(s)
  BY <1>t, <1>5 DEF Connect, At, Goto, NoEffectOnOthers, MutexInvariant, Critical
<1>6. CASE ConnectRefused(s)
  <2>1. \/ UNCHANGED pc /\ mem' = [mem EXCEPT ![s].i = mem[s].i + 1]
        \/ /\ pc' = [pc EXCEPT ![s] = "wait"]
           /\ \A q \in Procs \ {s} : mem'[q] = mem[q]
    BY <1>t, <1>6 DEF ConnectRefused, Goto
  <2>2. CASE UNCHANGED pc /\ mem' = [mem EXCEPT ![s].i = mem[s].i + 1]
    <3>1. \A q \in Procs : mem'[q].lk = mem[q].lk
      BY <1>t, <2>2 DEF Memory
    <3> QED
      BY <1>6, <2>2, <3>1 DEF ConnectRefused, NoEffectOnOthers, MutexInvariant
  <2>3. CASE /\ pc' = [pc EXCEPT ![s] = "wait"]
             /\ \A q \in Procs \ {s} : mem'[q] = mem[q]
    BY <1>t, <1>6, <2>3 DEF ConnectRefused, At, NoEffectOnOthers, MutexInvariant, Critical
  <2> QED
    BY <2>1, <2>2, <2>3
<1>4. ASSUME NEW p \in Pids, NEW m \in Monitors, Fork(s, p, m) PROVE MutexInvariant'
  BY <1>4, MutexSpawn DEF Fork
<1>8. CASE SendKills(s)
  BY <1>8, MutexSupervisorExits DEF SendKills
<1>7. CASE Send(s)
  BY <1>t, <1>7 DEF Send, At, Goto, NoEffectOnOthers, MutexInvariant, Critical
<1>9. CASE ReceiveAck(s)
  <2>1. /\ pc[s] = "recv" /\ mem[s].lk = "loop" /\ NoEffectOnOthers
        /\ \/ Goto(s, "perr") /\ UNCHANGED mem
           \/ Goto(s, "wait") /\ mem' = [mem EXCEPT ![s].lk = "none", ![s].i = 0]
    BY <1>9 DEF ReceiveAck, At, MutexInvariant, Critical
  <2>2. \A q \in Procs \ {s} : mem'[q] = mem[q]
    BY <1>t, <2>1
  <2>3. "wait" \notin Critical
    BY DEF Critical
  <2> QED
    BY <2>1, <2>2, <2>3, MutexGoesOn
<1>10. CASE ReceiveNoAck(s)
  BY <1>t, <1>10 DEF ReceiveNoAck, At, Goto, NoEffectOnOthers, MutexInvariant, Critical
<1>11. CASE FinishPlayback(s)
  <2>1. pc[s] = "woken" /\ mem[s].lk = "none" /\ NoEffectOnOthers /\ Goto(s, "watch")
    BY <1>11 DEF FinishPlayback, Woken, At, LockFree
  <2>2. \A q \in Procs \ {s} : mem'[q] = mem[q]
    BY <1>t, <1>11 DEF FinishPlayback
  <2>3. "watch" \notin Critical
    BY <1>t, <1>11 DEF FinishPlayback, Memory, Critical
  <2> QED
    BY <2>1, <2>2, <2>3, MutexGoesOn
<1>12. CASE RestartPlayback(s)
  <2>1. pc[s] = "woken" /\ mem[s].lk = "none" /\ NoEffectOnOthers /\ Goto(s, "uid")
    BY <1>12 DEF RestartPlayback, Woken, At, LockFree
  <2>2. \A q \in Procs \ {s} : mem'[q] = mem[q]
    BY <1>t, <1>12 DEF RestartPlayback
  <2>3. mem'[s].lk = "loop"
    BY <1>t, <1>12 DEF RestartPlayback, Memory, Critical
  <2> QED
    BY <2>1, <2>2, <2>3, MutexGoesOn
<1>13. CASE StopPlayback(s)
  <2>1. pc[s] = "woken" /\ mem[s].lk = "none" /\ NoEffectOnOthers /\ Goto(s, "connect")
    BY <1>13 DEF StopPlayback, Woken, At, LockFree
  <2>2. \A q \in Procs \ {s} : mem'[q] = mem[q]
    BY <1>t, <1>13 DEF StopPlayback
  <2>3. mem'[s].lk = "loop"
    BY <1>t, <1>13 DEF StopPlayback, Memory, Critical
  <2> QED
    BY <2>1, <2>2, <2>3, MutexGoesOn
<1>14. CASE WaitAgain(s)
  BY <1>t, <1>14 DEF WaitAgain, At, Woken, LockFree, Goto, NoEffectOnOthers, MutexInvariant, Critical
<1>15. CASE LoopFails(s)
  <2>1. CASE s # Daemon /\ Exits(s)
    <3>1. s \in Pids
      BY <2>1 DEF Procs
    <3> QED
      BY <2>1, <3>1, MutexExits DEF Exits
  <2>2. CASE DaemonExits
    BY <2>2 DEF DaemonExits, MutexInvariant
  <2>3. CASE /\ s = Daemon /\ Goto(s, "fail")
             /\ mem' = IF pc[s] = "werr" THEN [mem EXCEPT ![s].lk = "none"] ELSE mem
             /\ UNCHANGED <<proc, ctl, boot>>
    BY <1>t, <2>3 DEF Goto, MutexInvariant, Critical, Memory
  <2> QED
    BY <1>15, <2>1, <2>2, <2>3 DEF LoopFails
<1> QED
  BY <1>1, <1>2, <1>3, <1>4, <1>5, <1>6, <1>7, <1>8, <1>9, <1>10, <1>11, <1>12,
     <1>13, <1>14, <1>15 DEF LoopStep

LEMMA MutexLoopEnv ==
  ASSUME TypeOK, MutexInvariant, NEW s \in Procs, LoopEnv(s)
  PROVE  MutexInvariant'
<1> USE ConstantTypes
<1>t. mem \in [Procs -> Memory] /\ pc \in [Procs -> LoopStates]
  BY DEF TypeOK
<1>1. CASE FallAsleep(s)
  BY <1>t, <1>1 DEF FallAsleep, At, Goto, NoEffectOnOthers, MutexInvariant, Critical
<1>2. CASE ObserveFails(s)
  BY <1>t, <1>2 DEF ObserveFails, At, Goto, NoEffectOnOthers, MutexInvariant, Critical
<1>3. CASE SuspendFails(s)
  BY <1>3, MutexSupervisorExits DEF SuspendFails
<1>4. CASE ForkFails(s)
  BY <1>t, <1>4 DEF ForkFails, AfterSpawnError, At, Goto, NoEffectOnOthers, MutexInvariant, Critical
<1>5. CASE SpuriousWakeup(s)
  BY <1>t, <1>5 DEF SpuriousWakeup, At, Goto, NoEffectOnOthers, MutexInvariant, Critical
<1>6. ASSUME NEW p \in Pids, ForkUnwatched(s, p) PROVE MutexInvariant'
  BY <1>6, MutexSpawn DEF ForkUnwatched
<1> QED
  BY <1>1, <1>2, <1>3, <1>4, <1>5, <1>6 DEF LoopEnv

LEMMA MutexMonitor ==
  ASSUME TypeOK, MutexInvariant, NEW m \in Monitors, MonitorStep(m)
  PROVE  MutexInvariant'
<1> USE ConstantTypes
<1>t. /\ mem \in [Procs -> Memory] /\ pc \in [Procs -> LoopStates]
      /\ proc \in [Pids -> ProcStates] /\ mon[m] \in Monitor
  BY DEF TypeOK
<1>1. CASE MonitorStarts(m)
  BY <1>1 DEF MonitorStarts, MutexInvariant
<1>2. CASE MonitorReaps(m)
  <2>1. /\ UNCHANGED <<pc, mem, ctl, boot>>
        /\ \A q \in Pids : \/ proc'[q] = proc[q]
                           \/ proc[q] = "zombie" /\ proc'[q] = "free"
    BY <1>t, <1>2 DEF MonitorReaps
  <2> QED
    BY <1>t, <2>1 DEF MutexInvariant
<1>3. CASE MonitorSignals(m)
  <2> DEFINE s == mon[m].sup
  <2>1. s \in Procs
    BY <1>t DEF Monitor
  <2>2. \A q \in Procs : mem'[q].lk = mem[q].lk
    BY <1>t, <1>3, <2>1 DEF MonitorSignals, Memory
  <2>3. /\ \A q \in Procs : pc'[q] = pc[q] \/ (pc[q] = "wait" /\ pc'[q] = "woken")
        /\ UNCHANGED <<proc, ctl, boot>>
    BY <1>t, <1>3, <2>1 DEF MonitorSignals
  <2> QED
    BY <2>2, <2>3 DEF MutexInvariant, Critical
<1> QED
  BY <1>1, <1>2, <1>3 DEF MonitorStep

LEMMA MutexSound ==
  ASSUME TypeOK, MutexInvariant, NEW p \in Pids, NEW from, NEW to, SoundStep(p, from, to),
         from \in Sounds, to # "child"
  PROVE  MutexInvariant'
<1>1. proc' = [proc EXCEPT ![p] = to] /\ UNCHANGED <<pc, mem, ctl, boot>> /\ proc \in [Pids -> ProcStates]
  BY DEF SoundStep, TypeOK
<1>2. proc[p] # "clone"
  BY DEF SoundStep, Sounds
<1> QED
  BY <1>1, <1>2, ConstantTypes DEF MutexInvariant

LEMMA MutexProc ==
  ASSUME TypeOK, MutexInvariant, NEW p \in Pids, ProcStep(p) \/ ProcEnv(p)
  PROVE  MutexInvariant'
<1> USE ConstantTypes
<1>t. /\ mem \in [Procs -> Memory] /\ pc \in [Procs -> LoopStates]
      /\ proc \in [Pids -> ProcStates]
  BY DEF TypeOK
<1>1. CASE ChildExecs(p)
  <2>1. /\ proc' = [proc EXCEPT ![p] = "exec"] /\ mem' = [mem EXCEPT ![p] = Blank]
        /\ UNCHANGED <<pc, ctl, boot>> /\ pc[p] = "none"
    BY <1>1 DEF ChildExecs, MutexInvariant
  <2> QED
    BY <1>t, <2>1 DEF MutexInvariant, Critical
<1>2. CASE ChildFails(p)
  <2>1. PICK l \in AfterSpawnError : pc' = [pc EXCEPT ![p] = l]
    BY <1>2 DEF ChildFails, Goto
  <2>2. /\ proc' = [proc EXCEPT ![p] = "clone"] /\ UNCHANGED <<mem, ctl, boot>>
        /\ mem[p].lk = "loop"
    BY <1>2 DEF ChildFails, MutexInvariant
  <2> QED
    BY <1>t, <2>1, <2>2 DEF MutexInvariant
<1>3. CASE Unlink(p) \/ Bind(p) \/ Listen(p)
  BY <1>3, MutexSound DEF Unlink, Bind, Listen, Sounds
<1>4. CASE BindFails(p) \/ SoundCrashes(p) \/ SoundFinishes(p)
  BY <1>4, MutexExits DEF BindFails, SoundCrashes, SoundFinishes, Exits
<1>5. ASSUME NEW s \in Procs, ServePlay(p, s) \/ PlaybackReady(p, s) \/ ServeStop(p, s)
      PROVE  MutexInvariant'
  BY <1>5, MutexSound DEF ServePlay, PlaybackReady, ServeStop, Sounds
<1>6. ASSUME NEW s \in Procs, ServePlayTwice(p, s) \/ ServeStopIdle(p, s) PROVE MutexInvariant'
  BY <1>6, MutexExits DEF ServePlayTwice, ServeStopIdle, Exits
<1> QED
  BY <1>1, <1>2, <1>3, <1>4, <1>5, <1>6 DEF ProcStep, ProcEnv

LEMMA MutexControl ==
  ASSUME TypeOK, MutexInvariant, ControlStep \/ ControlEnv
  PROVE  MutexInvariant'
<1> USE ConstantTypes
<1>t. mem \in [Procs -> Memory] /\ pc \in [Procs -> LoopStates]
  BY DEF TypeOK
<1>1. CASE CtlListens \/ CtlAccepts \/ CtlHangup \/ CtlFails \/ CtlReceives
  BY <1>1 DEF CtlListens, CtlAccepts, CtlHangup, CtlFails, CtlReceives, CtlAt, CtlGoto, MutexInvariant
<1>2. CASE CtlLocks
  BY <1>t, <1>2 DEF CtlLocks, CtlAt, CtlGoto, LockFree, MutexInvariant, Critical, Memory
<1>3. CASE CtlDecodes
  <2>1. \A q \in Procs : q # Daemon => mem'[q] = mem[q] /\ pc'[q] = pc[q]
    BY <1>t, <1>3 DEF CtlDecodes
  <2>2. pc'[Daemon] = pc[Daemon] \/ pc'[Daemon] = "woken"
    BY <1>t, <1>3 DEF CtlDecodes
  <2>3. ctl = "cs" /\ ctl' # "cs" /\ ctl' # "none" /\ UNCHANGED <<proc, boot>>
    BY <1>3 DEF CtlDecodes, CtlAt
  <2>4. pc[Daemon] \notin Critical
    BY <2>3 DEF MutexInvariant, Critical
  <2> QED
    BY <2>1, <2>2, <2>3, <2>4 DEF MutexInvariant, Critical
<1> QED
  BY <1>1, <1>2, <1>3 DEF ControlStep, ControlEnv

LEMMA MutexMain ==
  ASSUME TypeOK, MutexInvariant, BootStep \/ CreateFails \/ LoopCancelled \/ CtlCancelled
  PROVE  MutexInvariant'
<1> USE ConstantTypes
<1>t. mem \in [Procs -> Memory] /\ pc \in [Procs -> LoopStates]
  BY DEF TypeOK
<1>1. CASE CreateLoop \/ CreateControl \/ JoinControl
  BY <1>t, <1>1 DEF CreateLoop, CreateControl, JoinControl, BootFrame, Goto, MutexInvariant, Critical
<1>2. CASE JoinLoop \/ CreateFails
  BY <1>2 DEF JoinLoop, CreateFails, DaemonExits, MutexInvariant
<1>3. CASE LoopCancelled
  <2>1. \/ UNCHANGED mem
        \/ mem[Daemon].lk = "none" /\ mem' = [mem EXCEPT ![Daemon].lk = "loop"]
    BY <1>3 DEF LoopCancelled, LockFree
  <2>2. pc' = [pc EXCEPT ![Daemon] = "dead"] /\ pc[Daemon] # "fail" /\ UNCHANGED <<proc, ctl, boot>>
    BY <1>3 DEF LoopCancelled, Goto
  <2> QED
    BY <1>t, <2>1, <2>2 DEF MutexInvariant, Critical
<1>4. CASE CtlCancelled
  BY <1>4 DEF CtlCancelled, CtlGoto, MutexInvariant
<1> QED
  BY <1>1, <1>2, <1>3, <1>4 DEF BootStep

LEMMA MutexStep == TypeOK /\ MutexInvariant /\ [Next]_vars => MutexInvariant'
<1>1. MutexInvariant /\ UNCHANGED vars => MutexInvariant'
  BY DEF MutexInvariant, vars
<1> QED
  BY <1>1, MutexLoop, MutexLoopEnv, MutexMonitor, MutexProc, MutexControl, MutexMain
     DEF Next, Terminated

LEMMA MutexInvariantImplies == MutexInvariant => MutualExclusion
  BY ConstantTypes DEF MutexInvariant, MutualExclusion, Critical

LEMMA MutexAlways == Spec => []MutexInvariant
<1> QED
  BY TypeCorrect, MutexInit, MutexStep, PTL DEF Spec

(* main_loop holds the mutex from sa_main_req_sound_playback's lock to     *)
(* pthread_cond_wait (main.c:386-432), in the daemon and in every copy of  *)
(* it, and control_listen decodes no command meanwhile.                    *)
THEOREM MutexCorrect == Spec => []MutualExclusion
  BY MutexAlways, MutexInvariantImplies, PTL

-----------------------------------------------------------------------------
(* Every death is noticed: DeathWillBeNoticed is inductive, given the mutex *)

LEMMA DeathInit == Init => DeathWillBeNoticed
<1> SUFFICES ASSUME Init PROVE DeathWillBeNoticed
  OBVIOUS
<1>1. pc = [s \in Procs |-> "none"]
  BY DEF Init
<1> QED
  BY <1>1 DEF DeathWillBeNoticed

(* A step of thread s that leaves the monitors and the child of s alone.   *)
LEMMA DeathLocal ==
  ASSUME DeathWillBeNoticed, NEW s \in Procs, UNCHANGED mon,
         \A q \in Procs \ {s} : pc'[q] = pc[q] /\ mem'[q] = mem[q],
         mem'[s].pid = mem[s].pid,
         pc'[s] \in {"connect", "send", "recv", "wait"} => Watched(s),
         pc'[s] = "woken" => mem'[s].flag \/ Watched(s)
  PROVE  DeathWillBeNoticed'
<1>1. \A q \in Procs : Watched(q) => Watched(q)'
  BY DEF Watched
<1> QED
  BY <1>1 DEF DeathWillBeNoticed

LEMMA DeathExits ==
  ASSUME TypeOK, DeathWillBeNoticed, NEW p \in Pids, NEW c, ExitsLeaving(p, c)
  PROVE  DeathWillBeNoticed'
<1>t. mem \in [Procs -> Memory] /\ pc \in [Procs -> LoopStates]
  BY DEF TypeOK
<1>1. pc'[p] = "none" /\ \A q \in Procs \ {p} : mem'[q] = mem[q] /\ pc'[q] = pc[q]
  BY <1>t, ConstantTypes DEF ExitsLeaving
<1>2. \A m \in Monitors : mon[m].st # "free" /\ mon[m].sup # p => mon'[m] = mon[m]
  BY DEF ExitsLeaving
<1>3. \A q \in Procs \ {p} : Watched(q) => Watched(q)'
  BY <1>1, <1>2 DEF Watched
<1> QED
  BY <1>1, <1>3 DEF DeathWillBeNoticed

LEMMA DeathSupervisorExits ==
  ASSUME TypeOK, DeathWillBeNoticed, NEW s \in Procs, SupervisorExits(s)
  PROVE  DeathWillBeNoticed'
<1>1. CASE s = Daemon
  BY <1>1 DEF SupervisorExits, DaemonExits, DeathWillBeNoticed, Watched
<1>2. CASE s # Daemon
  BY <1>2, DeathExits DEF SupervisorExits, Exits, Procs
<1> QED
  BY <1>1, <1>2

(* After a fork the child is watched by its own monitor, which will read   *)
(* the new pid however late it starts, or the supervisor is not waiting.   *)
LEMMA DeathSpawn ==
  ASSUME TypeOK, MutexInvariant, DeathWillBeNoticed, NEW s \in Procs, NEW p \in Pids, NEW l,
         Spawn(s, p, l),
         \A m \in Monitors : mon[m].st # "free" => mon'[m] = mon[m],
         \/ l \in AfterSpawnError
         \/ l = "connect" /\ \E m \in Monitors : mon'[m].st = "start" /\ mon'[m].sup = s
  PROVE  DeathWillBeNoticed'
<1>t. /\ mem \in [Procs -> Memory] /\ pc \in [Procs -> LoopStates]
      /\ proc \in [Pids -> ProcStates]
  BY DEF TypeOK
<1>1. pc[s] = "fork" /\ p \in Procs /\ pc[p] = "none" /\ p # s
  BY ConstantTypes DEF Spawn, At, Fresh, MutexInvariant
<1>2. mem' = [mem EXCEPT ![p] = mem[s], ![s].pid = p, ![s].i = 0] /\ pc' = [pc EXCEPT ![s] = l]
  BY DEF Spawn, Goto
<1>3. \A q \in Procs \ {p, s} : mem'[q] = mem[q] /\ pc'[q] = pc[q]
  BY <1>t, <1>1, <1>2
<1>4. pc'[p] = "none" /\ pc'[s] = l
  BY <1>t, <1>1, <1>2
<1>5. \A q \in Procs \ {p, s} : Watched(q) => Watched(q)'
  BY <1>3 DEF Watched
<1>6. l = "connect" => Watched(s)'
  BY DEF Watched, AfterSpawnError
<1> QED
  BY <1>1, <1>3, <1>4, <1>5, <1>6 DEF DeathWillBeNoticed, AfterSpawnError

LEMMA DeathLoop ==
  ASSUME TypeOK, MutexInvariant, DeathWillBeNoticed, NEW s \in Procs, LoopStep(s)
  PROVE  DeathWillBeNoticed'
<1> USE ConstantTypes
<1>t. mem \in [Procs -> Memory] /\ pc \in [Procs -> LoopStates] /\ mon \in [Monitors -> Monitor]
  BY DEF TypeOK
<1>1. CASE Resume(s)
  BY <1>t, <1>1, DeathLocal DEF Resume, Goto, NoEffectOnOthers, DeathWillBeNoticed
<1>2. CASE LockForPlayback(s)
  <2>1. mem'[s].pid = mem[s].pid /\ \A q \in Procs \ {s} : mem'[q] = mem[q]
    BY <1>t, <1>2 DEF LockForPlayback, Memory
  <2> QED
    BY <1>t, <1>2, <2>1, DeathLocal DEF LockForPlayback, Goto, NoEffectOnOthers, DeathWillBeNoticed
<1>3. CASE FindUid(s)
  BY <1>t, <1>3, DeathLocal DEF FindUid, Goto, NoEffectOnOthers, DeathWillBeNoticed
<1>4. ASSUME NEW p \in Pids, NEW m \in Monitors, Fork(s, p, m) PROVE DeathWillBeNoticed'
  <2>1. mon' = [mon EXCEPT ![m] = [st |-> "start", sup |-> s, pid |-> Nobody]] /\ mon[m].st = "free"
    BY <1>4 DEF Fork
  <2>2. mon'[m].st = "start" /\ mon'[m].sup = s /\ \A n \in Monitors \ {m} : mon'[n] = mon[n]
    BY <1>t, <2>1
  <2> QED
    BY <1>4, <2>1, <2>2, DeathSpawn DEF Fork
<1>5. CASE Connect(s)
  BY <1>t, <1>5, DeathLocal DEF Connect, At, Goto, NoEffectOnOthers, DeathWillBeNoticed
<1>6. CASE ConnectRefused(s)
  <2>1. mem'[s].pid = mem[s].pid /\ \A q \in Procs \ {s} : mem'[q] = mem[q]
    BY <1>t, <1>6 DEF ConnectRefused, Memory
  <2> QED
    BY <1>t, <1>6, <2>1, DeathLocal DEF ConnectRefused, At, Goto, NoEffectOnOthers, DeathWillBeNoticed
<1>7. CASE Send(s)
  BY <1>t, <1>7, DeathLocal DEF Send, At, Goto, NoEffectOnOthers, DeathWillBeNoticed
<1>8. CASE SendKills(s)
  BY <1>8, DeathSupervisorExits DEF SendKills
<1>9. CASE ReceiveAck(s)
  <2>1. mem'[s].pid = mem[s].pid /\ \A q \in Procs \ {s} : mem'[q] = mem[q]
    BY <1>t, <1>9 DEF ReceiveAck, Memory
  <2> QED
    BY <1>t, <1>9, <2>1, DeathLocal DEF ReceiveAck, At, Goto, NoEffectOnOthers, DeathWillBeNoticed
<1>10. CASE ReceiveNoAck(s)
  BY <1>t, <1>10, DeathLocal DEF ReceiveNoAck, Goto, NoEffectOnOthers, DeathWillBeNoticed
<1>11. CASE FinishPlayback(s)
  <2>1. mem'[s].pid = mem[s].pid /\ \A q \in Procs \ {s} : mem'[q] = mem[q]
    BY <1>t, <1>11 DEF FinishPlayback, Memory
  <2> QED
    BY <1>t, <1>11, <2>1, DeathLocal DEF FinishPlayback, Goto, NoEffectOnOthers, DeathWillBeNoticed
<1>12. CASE RestartPlayback(s)
  <2>1. mem'[s].pid = mem[s].pid /\ \A q \in Procs \ {s} : mem'[q] = mem[q]
    BY <1>t, <1>12 DEF RestartPlayback, Memory
  <2> QED
    BY <1>t, <1>12, <2>1, DeathLocal DEF RestartPlayback, Goto, NoEffectOnOthers, DeathWillBeNoticed
<1>13. CASE StopPlayback(s)
  <2>1. mem'[s].pid = mem[s].pid /\ \A q \in Procs \ {s} : mem'[q] = mem[q]
    BY <1>t, <1>13 DEF StopPlayback, Memory
  <2> QED
    BY <1>t, <1>13, <2>1, DeathLocal DEF StopPlayback, At, Woken, Goto, NoEffectOnOthers, DeathWillBeNoticed
<1>14. CASE WaitAgain(s)
  BY <1>t, <1>14, DeathLocal DEF WaitAgain, At, Woken, Goto, NoEffectOnOthers, DeathWillBeNoticed
<1>15. CASE LoopFails(s)
  <2>1. CASE s # Daemon /\ Exits(s)
    <3>1. s \in Pids
      BY <2>1 DEF Procs
    <3> QED
      BY <2>1, <3>1, DeathExits DEF Exits
  <2>2. CASE DaemonExits
    BY <2>2 DEF DaemonExits, DeathWillBeNoticed, Watched
  <2>3. CASE /\ s = Daemon /\ Goto(s, "fail")
             /\ mem' = IF pc[s] = "werr" THEN [mem EXCEPT ![s].lk = "none"] ELSE mem
             /\ UNCHANGED mon
    <3>1. mem'[s].pid = mem[s].pid /\ \A q \in Procs \ {s} : mem'[q] = mem[q]
      BY <1>t, <2>3 DEF Memory
    <3> QED
      BY <1>t, <2>3, <3>1, DeathLocal DEF Goto
  <2> QED
    BY <1>15, <2>1, <2>2, <2>3 DEF LoopFails
<1> QED
  BY <1>1, <1>2, <1>3, <1>4, <1>5, <1>6, <1>7, <1>8, <1>9, <1>10, <1>11, <1>12,
     <1>13, <1>14, <1>15 DEF LoopStep

LEMMA DeathLoopEnv ==
  ASSUME TypeOK, MutexInvariant, DeathWillBeNoticed, NEW s \in Procs, LoopEnv(s)
  PROVE  DeathWillBeNoticed'
<1> USE ConstantTypes
<1>t. mem \in [Procs -> Memory] /\ pc \in [Procs -> LoopStates]
  BY DEF TypeOK
<1>1. CASE FallAsleep(s) \/ ObserveFails(s) \/ ForkFails(s)
  BY <1>t, <1>1, DeathLocal
     DEF FallAsleep, ObserveFails, ForkFails, AfterSpawnError, Goto, NoEffectOnOthers
<1>2. CASE SuspendFails(s)
  BY <1>2, DeathSupervisorExits DEF SuspendFails
<1>3. CASE SpuriousWakeup(s)
  <2>1. Watched(s)
    BY <1>3 DEF SpuriousWakeup, At, DeathWillBeNoticed
  <2> QED
    BY <1>t, <1>3, <2>1, DeathLocal DEF SpuriousWakeup, Goto, NoEffectOnOthers
<1>4. ASSUME NEW p \in Pids, ForkUnwatched(s, p) PROVE DeathWillBeNoticed'
  BY <1>4, DeathSpawn DEF ForkUnwatched
<1> QED
  BY <1>1, <1>2, <1>3, <1>4 DEF LoopEnv

(* A monitor that signals stops watching, but its supervisor is then not   *)
(* about to wait, since the mutex is free, and finds the flag set.         *)
LEMMA DeathMonitor ==
  ASSUME TypeOK, MutexInvariant, DeathWillBeNoticed, NEW m \in Monitors, MonitorStep(m)
  PROVE  DeathWillBeNoticed'
<1> USE ConstantTypes
<1>t. /\ mem \in [Procs -> Memory] /\ pc \in [Procs -> LoopStates]
      /\ mon \in [Monitors -> Monitor]
  BY DEF TypeOK
<1>1. CASE MonitorStarts(m)
  <2>1. UNCHANGED <<pc, mem>>
    BY <1>1 DEF MonitorStarts
  <2>2. /\ mon'[m].st # "free" /\ mon'[m].sup = mon[m].sup
        /\ mon'[m].st = "wait" => mon'[m].pid = mem[mon[m].sup].pid
    BY <1>t, <1>1 DEF MonitorStarts, Monitor
  <2>3. \A n \in Monitors \ {m} : mon'[n] = mon[n]
    BY <1>t, <1>1 DEF MonitorStarts
  <2>4. \A q \in Procs : Watched(q) => Watched(q)'
    BY <2>1, <2>2, <2>3 DEF Watched
  <2> QED
    BY <2>1, <2>4 DEF DeathWillBeNoticed
<1>2. CASE MonitorReaps(m)
  <2>1. UNCHANGED <<pc, mem>>
    BY <1>2 DEF MonitorReaps
  <2>2. \A n \in Monitors : \/ mon'[n] = mon[n]
                            \/ mon'[n].st = "lock" /\ mon'[n].sup = mon[n].sup
    BY <1>t, <1>2 DEF MonitorReaps, Monitor
  <2>3. \A n \in Monitors : mon'[n].st = "lock" => mon'[n].st # "free" /\ mon'[n].st # "wait"
    OBVIOUS
  <2>4. \A n \in Monitors : mon'[n] # mon[n] => mon[n].st = "wait"
    BY <1>t, <1>2 DEF MonitorReaps
  <2>5. \A q \in Procs : Watched(q) => Watched(q)'
    BY <2>1, <2>2, <2>3, <2>4 DEF Watched
  <2> QED
    BY <2>1, <2>5 DEF DeathWillBeNoticed
<1>3. CASE MonitorSignals(m)
  <2> DEFINE s == mon[m].sup
  <2>1. s \in Procs /\ mem[s].lk = "none"
    BY <1>t, <1>3 DEF MonitorSignals, LockFree, Monitor
  <2>2. mem' = [mem EXCEPT ![s].flag = TRUE]
    BY <1>3 DEF MonitorSignals
  <2>3. mem'[s].flag /\ \A q \in Procs \ {s} : mem'[q] = mem[q]
    BY <1>t, <2>1, <2>2 DEF Memory
  <2>4. pc[s] \notin Critical
    BY <2>1 DEF MutexInvariant
  <2>5. pc'[s] \notin {"connect", "send", "recv", "wait"}
    BY <1>t, <1>3, <2>1, <2>4 DEF MonitorSignals, Critical
  <2>6. \A q \in Procs \ {s} : pc'[q] = pc[q]
    BY <1>t, <1>3 DEF MonitorSignals
  <2>7. \A n \in Monitors : mon[n].sup # s => mon'[n] = mon[n]
    BY <1>t, <1>3 DEF MonitorSignals
  <2>8. \A q \in Procs \ {s} : Watched(q) => Watched(q)'
    BY <2>3, <2>7 DEF Watched
  <2> QED
    BY <2>3, <2>5, <2>6, <2>8 DEF DeathWillBeNoticed
<1> QED
  BY <1>1, <1>2, <1>3 DEF MonitorStep

LEMMA DeathProc ==
  ASSUME TypeOK, MutexInvariant, DeathWillBeNoticed, NEW p \in Pids, ProcStep(p) \/ ProcEnv(p)
  PROVE  DeathWillBeNoticed'
<1> USE ConstantTypes
<1>t. mem \in [Procs -> Memory] /\ pc \in [Procs -> LoopStates]
  BY DEF TypeOK
<1>1. CASE ChildExecs(p)
  <2>1. /\ mem' = [mem EXCEPT ![p] = Blank] /\ UNCHANGED <<pc, mon>> /\ pc[p] = "none"
    BY <1>1 DEF ChildExecs, MutexInvariant
  <2>2. \A q \in Procs \ {p} : mem'[q] = mem[q]
    BY <1>t, <2>1
  <2>3. \A q \in Procs \ {p} : Watched(q) => Watched(q)'
    BY <2>1, <2>2 DEF Watched
  <2> QED
    BY <2>1, <2>2, <2>3 DEF DeathWillBeNoticed
<1>2. CASE ChildFails(p)
  <2>1. PICK l \in AfterSpawnError : pc' = [pc EXCEPT ![p] = l]
    BY <1>2 DEF ChildFails, Goto
  <2> QED
    BY <1>t, <1>2, <2>1, DeathLocal DEF ChildFails, AfterSpawnError
<1>3. CASE UNCHANGED <<pc, mem, mon>>
  BY <1>3 DEF DeathWillBeNoticed, Watched
<1>4. CASE BindFails(p) \/ SoundCrashes(p) \/ SoundFinishes(p)
  BY <1>4, DeathExits DEF BindFails, SoundCrashes, SoundFinishes, Exits
<1>5. ASSUME NEW s \in Procs, ServePlayTwice(p, s) \/ ServeStopIdle(p, s) PROVE DeathWillBeNoticed'
  BY <1>5, DeathExits DEF ServePlayTwice, ServeStopIdle, Exits
<1> QED
  BY <1>1, <1>2, <1>3, <1>4, <1>5
     DEF ProcStep, ProcEnv, SoundStep, Unlink, Bind, Listen, ServePlay, PlaybackReady, ServeStop

LEMMA DeathControl ==
  ASSUME TypeOK, DeathWillBeNoticed, ControlStep \/ ControlEnv
  PROVE  DeathWillBeNoticed'
<1> USE ConstantTypes
<1>t. mem \in [Procs -> Memory] /\ pc \in [Procs -> LoopStates]
  BY DEF TypeOK
<1>1. CASE CtlListens \/ CtlAccepts \/ CtlHangup \/ CtlFails \/ CtlReceives
  BY <1>1 DEF CtlListens, CtlAccepts, CtlHangup, CtlFails, CtlReceives, CtlGoto,
              DeathWillBeNoticed, Watched
<1>2. CASE CtlLocks
  <2>1. UNCHANGED <<pc, mon>> /\ mem' = [mem EXCEPT ![Daemon].lk = "ctl"]
    BY <1>2 DEF CtlLocks, CtlGoto
  <2>2. \A q \in Procs : mem'[q].pid = mem[q].pid /\ mem'[q].flag = mem[q].flag
    BY <1>t, <2>1 DEF Memory
  <2> QED
    BY <2>1, <2>2 DEF DeathWillBeNoticed, Watched
<1>3. CASE CtlDecodes
  <2>1. UNCHANGED mon /\ \A q \in Procs \ {Daemon} : mem'[q] = mem[q] /\ pc'[q] = pc[q]
    BY <1>t, <1>3 DEF CtlDecodes
  <2>2. mem'[Daemon].pid = mem[Daemon].pid /\ mem'[Daemon].flag = mem[Daemon].flag
    BY <1>t, <1>3 DEF CtlDecodes, Memory
  <2>3. \/ pc'[Daemon] = pc[Daemon]
        \/ pc[Daemon] = "wait" /\ pc'[Daemon] = "woken"
    BY <1>t, <1>3 DEF CtlDecodes
  <2> QED
    BY <2>1, <2>2, <2>3, DeathLocal DEF DeathWillBeNoticed
<1> QED
  BY <1>1, <1>2, <1>3 DEF ControlStep, ControlEnv

LEMMA DeathMain ==
  ASSUME TypeOK, DeathWillBeNoticed, BootStep \/ CreateFails \/ LoopCancelled \/ CtlCancelled
  PROVE  DeathWillBeNoticed'
<1> USE ConstantTypes
<1>t. mem \in [Procs -> Memory] /\ pc \in [Procs -> LoopStates]
  BY DEF TypeOK
<1>1. CASE CreateLoop
  BY <1>t, <1>1, DeathLocal DEF CreateLoop, BootFrame, Goto
<1>2. CASE UNCHANGED <<pc, mem, mon>>
  BY <1>2 DEF DeathWillBeNoticed, Watched
<1>3. CASE LoopCancelled
  <2>1. mem' = mem \/ mem' = [mem EXCEPT ![Daemon].lk = "loop"]
    BY <1>3 DEF LoopCancelled
  <2>2. mem'[Daemon].pid = mem[Daemon].pid /\ \A q \in Procs \ {Daemon} : mem'[q] = mem[q]
    BY <1>t, <2>1 DEF Memory
  <2> QED
    BY <1>t, <1>3, <2>2, DeathLocal DEF LoopCancelled, Goto
<1> QED
  BY <1>1, <1>2, <1>3
     DEF BootStep, BootFrame, CreateControl, JoinControl, JoinLoop, CreateFails, DaemonExits,
         CtlCancelled, CtlGoto

LEMMA DeathStep ==
  TypeOK /\ MutexInvariant /\ DeathWillBeNoticed /\ [Next]_vars => DeathWillBeNoticed'
<1>1. DeathWillBeNoticed /\ UNCHANGED vars => DeathWillBeNoticed'
  BY DEF DeathWillBeNoticed, Watched, vars
<1> QED
  BY <1>1, DeathLoop, DeathLoopEnv, DeathMonitor, DeathProc, DeathControl, DeathMain
     DEF Next, Terminated

(* Whenever main_loop waits for a playback process, or is about to, some   *)
(* monitor thread will set the flag and broadcast when that process dies   *)
(* (main.c:432, process.c:106), for any number of processes and monitors,  *)
(* every order in which they run, and every failure.                       *)
THEOREM DeathNoticed == Spec => []DeathWillBeNoticed
  BY TypeCorrect, MutexAlways, DeathInit, DeathStep, PTL DEF Spec

-----------------------------------------------------------------------------
(* One playback process at a time *)

(* Only the daemon runs main_loop.                                         *)
LEMMA OnlyDaemon ==
  ASSUME MutexInvariant, OneChild, NEW s \in Procs, pc[s] # "none"
  PROVE  s = Daemon
  BY DEF MutexInvariant, OneChild, Procs

LEMMA LoopIsDaemon ==
  ASSUME MutexInvariant, OneChild, NEW s \in Procs, LoopStep(s) \/ LoopEnv(s)
  PROVE  s = Daemon
<1>1. pc[s] # "none"
  <2>1. CASE LoopStep(s)
    BY <2>1
       DEF LoopStep, Resume, LockForPlayback, FindUid, Fork, Spawn, Connect, ConnectRefused, Send,
           SendKills, ReceiveAck, ReceiveNoAck, FinishPlayback, RestartPlayback, StopPlayback,
           WaitAgain, LoopFails, Woken, At
  <2>2. CASE LoopEnv(s)
    BY <2>2
       DEF LoopEnv, FallAsleep, ObserveFails, SuspendFails, ForkFails, SpuriousWakeup,
           ForkUnwatched, Spawn, At
  <2> QED
    BY <2>1, <2>2
<1> QED
  BY <1>1, OnlyDaemon

(* What every step but fork() does to the playback processes and their     *)
(* monitors: none is added.                                                *)
Fewer ==
    /\ \A p \in Pids : proc'[p] # "clone"
    /\ \A p \in Pids : Alive(p)' => Alive(p) /\ parent'[p] = parent[p]
    /\ mem'[Daemon].pid = mem[Daemon].pid
    /\ \A m \in Monitors : Busy(m)' => Busy(m) /\ mon'[m].sup = mon[m].sup
    /\ \A m \in Monitors : mon'[m].st = "wait" => mon'[m].pid = mem[Daemon].pid
    /\ \A m \in Monitors :
           mon'[m].st = "lock" => mon[m].st = "lock" \/ \A p \in Pids : ~Alive(p)'

(* main_loop comes to a stage where nothing is alive only when nothing is, *)
(* and the flag is set only when nothing is.                               *)
Settled ==
    /\ pc'[Daemon] \in Quiet => ~mem'[Daemon].flag /\ (pc[Daemon] \in Quiet \/ NoneLeft)
    /\ mem'[Daemon].flag => mem[Daemon].flag \/ NoneLeft'

LEMMA FewerKeeps ==
  ASSUME OneChild, OneMonitor, Fewer, Settled
  PROVE  OneChild' /\ OneMonitor'
<1>1. NoneLeft => NoneLeft'
  BY DEF NoneLeft, Fewer
<1>2. OneChild'
  BY <1>1 DEF OneChild, Fewer, Settled
<1>3. OneMonitor'
  BY DEF OneMonitor, Fewer
<1> QED
  BY <1>2, <1>3

LEMMA SameIsFewer ==
  ASSUME OneChild, OneMonitor, UNCHANGED <<proc, parent, mon>>, mem'[Daemon].pid = mem[Daemon].pid
  PROVE  Fewer
  BY DEF OneChild, OneMonitor, Fewer, Alive, Busy

LEMMA ExitsFewer ==
  ASSUME TypeOK, OneChild, OneMonitor, NEW p \in Pids, NEW c, ExitsLeaving(p, c)
  PROVE  Fewer /\ mem'[Daemon] = mem[Daemon] /\ pc'[Daemon] = pc[Daemon] /\ UNCHANGED <<ctl, msg>>
<1>t. mem \in [Procs -> Memory] /\ pc \in [Procs -> LoopStates] /\ p # Daemon
  BY ConstantTypes DEF TypeOK
<1>1. mem'[Daemon] = mem[Daemon] /\ pc'[Daemon] = pc[Daemon] /\ UNCHANGED <<ctl, msg>>
  BY <1>t, ConstantTypes DEF ExitsLeaving
<1>2. \A q \in Pids : proc'[q] = proc[q] \/ proc'[q] \in {"free", "zombie"}
  BY DEF ExitsLeaving
<1>3. \A q \in Pids : Alive(q)' => Alive(q)
  BY <1>2 DEF Alive, Sounds
<1>4. \A q \in Pids : parent[q] = Daemon => parent'[q] = parent[q]
  BY <1>t DEF ExitsLeaving
<1>5. \A m \in Monitors : mon'[m] = mon[m] \/ mon'[m] = FreeSlot
  BY DEF ExitsLeaving
<1> QED
  BY <1>1, <1>2, <1>3, <1>4, <1>5 DEF Fewer, OneChild, OneMonitor, Busy, FreeSlot

Alone == OneChild /\ OneMonitor /\ WokenForAReason

LEMMA AloneInit == Init => Alone
<1> SUFFICES ASSUME Init PROVE Alone
  OBVIOUS
<1>1. pc[Daemon] = "none" /\ ctl = "none"
  BY ConstantTypes DEF Init
<1>2. \A p \in Pids : proc[p] = "free"
  BY DEF Init
<1>3. \A m \in Monitors : mon[m] = FreeSlot
  BY DEF Init
<1>4. ~mem[Daemon].flag
  <2>1. PICK m \in InitialMemory : mem = [s \in Procs |-> IF s = Daemon THEN m ELSE Blank]
    BY DEF Init
  <2>2. PICK b \in BOOLEAN : m = [Blank EXCEPT !.req_stop_flag = b]
    BY DEF InitialMemory
  <2>3. mem[Daemon] = m /\ m.flag = FALSE
    BY <2>1, <2>2, ConstantTypes DEF Blank
  <2> QED
    BY <2>3
<1>5. NoneLeft
  BY <1>2, <1>3 DEF NoneLeft, Alive, Sounds, Busy, FreeSlot
<1>6. OneChild
  BY <1>2, <1>4, <1>5 DEF OneChild, NoneLeft
<1>7. OneMonitor
  BY <1>3 DEF OneMonitor, Busy, FreeSlot
<1>8. WokenForAReason
  BY <1>1 DEF WokenForAReason, Disarming
<1> QED
  BY <1>6, <1>7, <1>8 DEF Alone

LEMMA AloneDaemonExits == Alone /\ DaemonExits => Alone'
  BY DEF DaemonExits, Alone, OneChild, OneMonitor, WokenForAReason, NoneLeft, Alive, Busy, Disarming

(* A step of main_loop that starts nothing.                                *)
LEMMA AloneLocal ==
  ASSUME Alone, UNCHANGED <<proc, parent, mon>>, mem'[Daemon].pid = mem[Daemon].pid,
         Settled, WokenForAReason'
  PROVE  Alone'
  BY SameIsFewer, FewerKeeps DEF Alone

(* fork(): nothing was left, so the child and its monitor are the only     *)
(* ones.                                                                   *)
LEMMA AloneFork ==
  ASSUME TypeOK, Alone, NEW p \in Pids, NEW m \in Monitors, Fork(Daemon, p, m)
  PROVE  Alone'
<1>t. /\ mem \in [Procs -> Memory] /\ pc \in [Procs -> LoopStates] /\ mon \in [Monitors -> Monitor]
      /\ proc \in [Pids -> ProcStates] /\ parent \in [Pids -> Procs \cup {Nobody}]
      /\ Daemon \in Procs /\ p # Daemon /\ p \in Procs
  BY ConstantTypes DEF TypeOK
<1>1. /\ pc[Daemon] = "fork"
      /\ proc' = [proc EXCEPT ![p] = "child"] /\ parent' = [parent EXCEPT ![p] = Daemon]
      /\ mem' = [mem EXCEPT ![p] = mem[Daemon], ![Daemon].pid = p, ![Daemon].i = 0]
      /\ pc' = [pc EXCEPT ![Daemon] = "connect"]
      /\ mon' = [mon EXCEPT ![m] = [st |-> "start", sup |-> Daemon, pid |-> Nobody]]
      /\ UNCHANGED <<ctl, msg>>
  BY DEF Fork, Spawn, At, Goto
<1>2. NoneLeft /\ ~mem[Daemon].flag /\ ~mem[Daemon].fin_play
  BY <1>1 DEF Alone, OneChild, WokenForAReason, Quiet
<1>3. /\ proc'[p] = "child" /\ parent'[p] = Daemon
      /\ \A q \in Pids \ {p} : proc'[q] = proc[q]
  BY <1>t, <1>1
<1>4. /\ mem'[Daemon].pid = p /\ mem'[Daemon].flag = mem[Daemon].flag
      /\ mem'[Daemon].fin_play = mem[Daemon].fin_play
  BY <1>t, <1>1 DEF Memory
<1>5. mon'[m] = [st |-> "start", sup |-> Daemon, pid |-> Nobody]
      /\ \A n \in Monitors \ {m} : mon'[n] = mon[n]
  BY <1>t, <1>1
<1>6. pc'[Daemon] = "connect"
  BY <1>t, <1>1
<1>7. OneChild'
  BY <1>2, <1>3, <1>4, <1>6 DEF Alone, OneChild, NoneLeft, Alive, Quiet
<1>8. OneMonitor'
  BY <1>2, <1>5 DEF OneMonitor, NoneLeft, Busy
<1>9. WokenForAReason'
  BY <1>2, <1>4, <1>6 DEF WokenForAReason, Disarming
<1> QED
  BY <1>7, <1>8, <1>9 DEF Alone

LEMMA AloneLoop ==
  ASSUME TypeOK, MutexInvariant, Alone, NEW s \in Procs, LoopStep(s)
  PROVE  Alone'
<1>d. s = Daemon
  BY LoopIsDaemon DEF Alone
<1>t. mem \in [Procs -> Memory] /\ pc \in [Procs -> LoopStates] /\ Daemon \in Procs
  BY ConstantTypes DEF TypeOK
<1>w. WokenForAReason /\ (mem[Daemon].flag => NoneLeft)
  BY DEF Alone, OneChild
<1>q. pc[Daemon] \in Quiet => ~mem[Daemon].flag
  BY DEF Alone, OneChild
<1>g. \A l : Goto(Daemon, l) => pc'[Daemon] = l
  BY <1>t DEF Goto
<1> DEFINE Frame == UNCHANGED <<proc, parent, mon, ctl, msg>>
           Same == /\ mem'[Daemon].pid = mem[Daemon].pid /\ mem'[Daemon].flag = mem[Daemon].flag
                   /\ mem'[Daemon].fin_play = mem[Daemon].fin_play
                   /\ mem'[Daemon].req_stop_flag = mem[Daemon].req_stop_flag
<1>1. CASE Resume(s)
  <2>1. Frame /\ Same /\ pc[Daemon] = "suspend" /\ pc'[Daemon] = "plock"
    BY <1>1, <1>d, <1>g DEF Resume, At, NoEffectOnOthers
  <2> QED
    BY <1>w, <1>q, <2>1, AloneLocal DEF Settled, Quiet, WokenForAReason, Disarming
<1>2. CASE LockForPlayback(s)
  <2>1. /\ Frame /\ pc[Daemon] = "plock" /\ pc'[Daemon] = "uid"
        /\ mem' = [mem EXCEPT ![Daemon].lk = "loop", ![Daemon].fin_play = FALSE]
    BY <1>2, <1>d, <1>g DEF LockForPlayback, At, NoEffectOnOthers
  <2>2. /\ mem'[Daemon].pid = mem[Daemon].pid /\ mem'[Daemon].flag = mem[Daemon].flag
        /\ ~mem'[Daemon].fin_play
    BY <1>t, <2>1 DEF Memory
  <2> QED
    BY <1>w, <1>q, <2>1, <2>2, AloneLocal DEF Settled, Quiet, WokenForAReason, Disarming
<1>3. CASE FindUid(s)
  <2>1. Frame /\ Same /\ pc[Daemon] = "uid" /\ pc'[Daemon] \in {"perr", "fork"}
    BY <1>3, <1>d, <1>g DEF FindUid, At, NoEffectOnOthers
  <2> QED
    BY <1>w, <1>q, <2>1, AloneLocal DEF Settled, Quiet, WokenForAReason, Disarming
<1>4. ASSUME NEW p \in Pids, NEW m \in Monitors, Fork(s, p, m) PROVE Alone'
  BY <1>4, <1>d, AloneFork
<1>5. CASE Connect(s) \/ Send(s)
  <2>1. Frame /\ Same /\ pc[Daemon] \in {"connect", "send"} /\ pc'[Daemon] \in {"send", "recv"}
    BY <1>5, <1>d, <1>g DEF Connect, Send, At, NoEffectOnOthers
  <2> QED
    BY <1>w, <2>1, AloneLocal DEF Settled, Quiet, WokenForAReason, Disarming
<1>6. CASE ConnectRefused(s)
  <2>1. Frame /\ pc[Daemon] = "connect" /\ pc'[Daemon] \in {"connect", "wait"}
    BY <1>6, <1>d, <1>g DEF ConnectRefused, At, NoEffectOnOthers
  <2>2. Same
    BY <1>t, <1>6, <1>d DEF ConnectRefused, Memory
  <2> QED
    BY <1>w, <2>1, <2>2, AloneLocal DEF Settled, Quiet, WokenForAReason, Disarming
<1>7. CASE SendKills(s)
  BY <1>7, <1>d, AloneDaemonExits DEF SendKills, SupervisorExits
<1>8. CASE ReceiveAck(s) \/ ReceiveNoAck(s)
  <2>1. Frame /\ pc[Daemon] = "recv" /\ pc'[Daemon] \in {"perr", "wait"}
    BY <1>8, <1>d, <1>g DEF ReceiveAck, ReceiveNoAck, At, NoEffectOnOthers
  <2>2. Same
    BY <1>t, <1>8, <1>d DEF ReceiveAck, ReceiveNoAck, Memory
  <2> QED
    BY <1>w, <2>1, <2>2, AloneLocal DEF Settled, Quiet, WokenForAReason, Disarming
<1>9. CASE FinishPlayback(s)
  <2>1. /\ Frame /\ pc[Daemon] = "woken" /\ pc'[Daemon] = "watch" /\ mem[Daemon].fin_play
        /\ mem' = [mem EXCEPT ![Daemon].flag = FALSE, ![Daemon].fin_play = FALSE, ![Daemon].i = 0]
    BY <1>9, <1>d, <1>g DEF FinishPlayback, Woken, At, NoEffectOnOthers
  <2>2. mem'[Daemon].pid = mem[Daemon].pid /\ ~mem'[Daemon].flag
    BY <1>t, <2>1 DEF Memory
  <2>3. mem[Daemon].flag /\ ~Disarming
    BY <1>w, <2>1 DEF WokenForAReason
  <2> QED
    BY <1>w, <2>1, <2>2, <2>3, AloneLocal DEF Settled, Quiet, WokenForAReason, Disarming
<1>10. CASE RestartPlayback(s)
  <2>1. /\ Frame /\ pc[Daemon] = "woken" /\ pc'[Daemon] = "uid"
        /\ ~mem[Daemon].fin_play /\ mem[Daemon].flag
        /\ mem' = [mem EXCEPT ![Daemon].flag = FALSE, ![Daemon].lk = "loop"]
    BY <1>10, <1>d, <1>g DEF RestartPlayback, Woken, At, NoEffectOnOthers
  <2>2. /\ mem'[Daemon].pid = mem[Daemon].pid /\ ~mem'[Daemon].flag
        /\ mem'[Daemon].fin_play = mem[Daemon].fin_play
    BY <1>t, <2>1 DEF Memory
  <2> QED
    BY <1>w, <2>1, <2>2, AloneLocal DEF Settled, Quiet, WokenForAReason, Disarming
<1>11. CASE StopPlayback(s)
  <2>1. /\ Frame /\ pc[Daemon] = "woken" /\ pc'[Daemon] = "connect" /\ ~mem[Daemon].flag
        /\ mem' = [mem EXCEPT ![Daemon].req_stop_flag = FALSE, ![Daemon].fin_play = TRUE,
                              ![Daemon].lk = "loop"]
    BY <1>11, <1>d, <1>g DEF StopPlayback, Woken, At, NoEffectOnOthers
  <2>2. mem'[Daemon].pid = mem[Daemon].pid /\ mem'[Daemon].flag = mem[Daemon].flag
    BY <1>t, <2>1 DEF Memory
  <2>3. ~Disarming
    BY <1>w, <2>1 DEF WokenForAReason
  <2> QED
    BY <1>w, <2>1, <2>2, <2>3, AloneLocal DEF Settled, Quiet, WokenForAReason, Disarming
<1>12. CASE WaitAgain(s)
  <2>1. Frame /\ Same /\ pc[Daemon] = "woken" /\ pc'[Daemon] = "wait"
    BY <1>12, <1>d, <1>g DEF WaitAgain, Woken, At, NoEffectOnOthers
  <2> QED
    BY <1>w, <2>1, AloneLocal DEF Settled, Quiet, WokenForAReason, Disarming
<1>13. CASE LoopFails(s)
  <2>1. CASE DaemonExits
    BY <2>1, AloneDaemonExits
  <2>2. CASE /\ Goto(s, "fail") /\ Frame
             /\ mem' = IF pc[s] = "werr" THEN [mem EXCEPT ![s].lk = "none"] ELSE mem
    <3>1. pc'[Daemon] = "fail" /\ Same
      BY <1>t, <2>2, <1>d, <1>g DEF Memory
    <3> QED
      BY <1>w, <2>2, <3>1, AloneLocal DEF Settled, Quiet, WokenForAReason, Disarming
  <2> QED
    BY <1>13, <1>d, <2>1, <2>2 DEF LoopFails
<1> QED
  BY <1>1, <1>2, <1>3, <1>4, <1>5, <1>6, <1>7, <1>8, <1>9, <1>10, <1>11, <1>12, <1>13 DEF LoopStep

LEMMA AloneLoopEnv ==
  ASSUME Undisturbed, TypeOK, MutexInvariant, Alone, NEW s \in Procs, LoopEnv(s)
  PROVE  Alone'
<1>d. s = Daemon
  BY LoopIsDaemon DEF Alone
<1>t. pc \in [Procs -> LoopStates] /\ Daemon \in Procs
  BY ConstantTypes DEF TypeOK
<1>w. WokenForAReason
  BY DEF Alone
<1>q. pc[Daemon] \in Quiet => ~mem[Daemon].flag
  BY DEF Alone, OneChild
<1>g. \A l : Goto(Daemon, l) => pc'[Daemon] = l
  BY <1>t DEF Goto
<1>1. CASE FallAsleep(s) \/ ObserveFails(s)
  <2>1. /\ UNCHANGED <<proc, parent, mon, ctl, msg, mem>>
        /\ pc[Daemon] = "watch" /\ pc'[Daemon] \in {"suspend", "werr"}
    BY <1>1, <1>d, <1>g DEF FallAsleep, ObserveFails, At, NoEffectOnOthers
  <2> QED
    BY <1>w, <1>q, <2>1, AloneLocal DEF Settled, Quiet, WokenForAReason, Disarming
<1>2. CASE SuspendFails(s)
  BY <1>2, <1>d, AloneDaemonExits DEF SuspendFails, SupervisorExits
<1>3. CASE ForkFails(s)
  <2>1. /\ UNCHANGED <<proc, parent, mon, ctl, msg, mem>>
        /\ pc[Daemon] = "fork" /\ pc'[Daemon] \in {"uid", "hung"}
    BY <1>3, <1>d, <1>g DEF ForkFails, AfterSpawnError, At, NoEffectOnOthers
  <2> QED
    BY <1>w, <1>q, <2>1, AloneLocal DEF Settled, Quiet, WokenForAReason, Disarming
<1>4. CASE SpuriousWakeup(s)
  BY <1>4 DEF SpuriousWakeup, Undisturbed
<1>5. ASSUME NEW p \in Pids, ForkUnwatched(s, p) PROVE Alone'
  BY <1>5 DEF ForkUnwatched, Undisturbed
<1> QED
  BY <1>1, <1>2, <1>3, <1>4, <1>5 DEF LoopEnv

LEMMA AloneMonitor ==
  ASSUME TypeOK, Alone, NEW m \in Monitors, MonitorStep(m)
  PROVE  Alone'
<1>t. /\ mem \in [Procs -> Memory] /\ pc \in [Procs -> LoopStates]
      /\ mon \in [Monitors -> Monitor] /\ proc \in [Pids -> ProcStates] /\ Daemon \in Procs
  BY ConstantTypes DEF TypeOK
<1>i. OneChild /\ OneMonitor /\ WokenForAReason
  BY DEF Alone
<1>b. Busy(m) => mon[m].sup = Daemon
  BY <1>i DEF OneMonitor
<1>1. CASE MonitorStarts(m)
  <2>1. mon[m].st = "start" /\ mon[m].sup = Daemon /\ UNCHANGED <<proc, parent, pc, mem, ctl, msg>>
    BY <1>1, <1>b DEF MonitorStarts, Busy
  <2>2. \/ mon' = [mon EXCEPT ![m].st = "wait", ![m].pid = mem[Daemon].pid]
        \/ /\ ~ChildOf(Daemon, mem[Daemon].pid)
           /\ mon' = [mon EXCEPT ![m].st = "lock", ![m].pid = Nobody]
    BY <1>1, <2>1 DEF MonitorStarts
  <2>3. \A n \in Monitors \ {m} : mon'[n] = mon[n]
    BY <1>t, <2>2
  <2>4. mon'[m].sup = mon[m].sup
        /\ \/ mon'[m].st = "wait" /\ mon'[m].pid = mem[Daemon].pid
           \/ mon'[m].st = "lock" /\ ~ChildOf(Daemon, mem[Daemon].pid)
    BY <1>t, <2>2 DEF Monitor
  <2>5. ~ChildOf(Daemon, mem[Daemon].pid) => \A p \in Pids : ~Alive(p)
    BY <1>i DEF ChildOf, OneChild, Alive, Sounds
  <2>6. Fewer
    BY <1>i, <2>1, <2>3, <2>4, <2>5 DEF Fewer, OneChild, OneMonitor, Busy, Alive
  <2>7. Settled
    BY <1>i, <2>1 DEF Settled, OneChild
  <2>8. WokenForAReason'
    BY <1>i, <2>1 DEF WokenForAReason, Disarming
  <2> QED
    BY <1>i, <2>6, <2>7, <2>8, FewerKeeps DEF Alone
<1>2. CASE MonitorReaps(m)
  <2>1. /\ mon[m].st = "wait" /\ mon[m].pid = mem[Daemon].pid /\ proc[mem[Daemon].pid] = "zombie"
        /\ UNCHANGED <<pc, mem, ctl, msg>>
    BY <1>2, <1>i DEF MonitorReaps, OneMonitor
  <2>2. \A p \in Pids : ~Alive(p)
    BY <1>i, <2>1 DEF OneChild, Alive, Sounds
  <2>3. \A p \in Pids : ~Alive(p)' /\ proc'[p] # "clone"
    BY <1>t, <1>2, <1>i, <2>2 DEF MonitorReaps, Alive, Sounds, OneChild
  <2>4. \A n \in Monitors : \/ mon'[n] = mon[n]
                            \/ mon[n].st = "wait" /\ mon'[n].st = "lock" /\ mon'[n].sup = mon[n].sup
    BY <1>t, <1>2 DEF MonitorReaps, Monitor
  <2>5. Fewer
    BY <1>i, <2>1, <2>3, <2>4 DEF Fewer, OneMonitor, Busy
  <2>6. Settled
    BY <1>i, <2>1 DEF Settled, OneChild
  <2>7. WokenForAReason'
    BY <1>i, <2>1 DEF WokenForAReason, Disarming
  <2> QED
    BY <1>i, <2>5, <2>6, <2>7, FewerKeeps DEF Alone
<1>3. CASE MonitorSignals(m)
  <2>1. /\ mon[m].st = "lock" /\ mon[m].sup = Daemon /\ UNCHANGED <<proc, parent, ctl, msg>>
        /\ mem' = [mem EXCEPT ![Daemon].flag = TRUE]
        /\ pc' = IF pc[Daemon] = "wait" THEN [pc EXCEPT ![Daemon] = "woken"] ELSE pc
        /\ mon' = [mon EXCEPT ![m] = FreeSlot]
    BY <1>3, <1>b DEF MonitorSignals, Busy
  <2>2. /\ mem'[Daemon].flag /\ mem'[Daemon].pid = mem[Daemon].pid
        /\ mem'[Daemon].fin_play = mem[Daemon].fin_play
    BY <1>t, <2>1 DEF Memory
  <2>3. pc'[Daemon] = IF pc[Daemon] = "wait" THEN "woken" ELSE pc[Daemon]
    BY <1>t, <2>1
  <2>4. mon'[m].st = "free" /\ \A n \in Monitors \ {m} : mon'[n] = mon[n]
    BY <1>t, <2>1 DEF FreeSlot
  <2>5. (\A p \in Pids : ~Alive(p)') /\ \A n \in Monitors : ~Busy(n)'
    BY <1>i, <2>1, <2>4 DEF OneMonitor, Busy, Alive
  <2>6. pc[Daemon] \notin Quiet
    BY <1>i, <2>1 DEF OneChild, NoneLeft, Busy
  <2>7. OneChild' /\ OneMonitor'
    BY <1>i, <2>1, <2>3, <2>5, <2>6 DEF OneChild, OneMonitor, NoneLeft, Busy, Quiet
  <2>8. WokenForAReason'
    BY <1>i, <2>1, <2>2, <2>3 DEF WokenForAReason, Disarming
  <2> QED
    BY <2>7, <2>8 DEF Alone
<1> QED
  BY <1>1, <1>2, <1>3 DEF MonitorStep

(* A step of the playback process that leaves the daemon alone.            *)
LEMMA AloneUnseen ==
  ASSUME Alone, Fewer, pc'[Daemon] = pc[Daemon], mem'[Daemon] = mem[Daemon], UNCHANGED <<ctl, msg>>
  PROVE  Alone'
<1>1. Settled
  BY DEF Settled, Alone, OneChild
<1>2. WokenForAReason'
  BY DEF Alone, WokenForAReason, Disarming
<1> QED
  BY <1>1, <1>2, FewerKeeps DEF Alone

LEMMA AloneExits ==
  ASSUME TypeOK, Alone, NEW p \in Pids, NEW c, ExitsLeaving(p, c)
  PROVE  Alone'
  BY ExitsFewer, AloneUnseen DEF Alone

LEMMA AloneSound ==
  ASSUME TypeOK, Alone, NEW p \in Pids, NEW from \in Sounds, NEW to \in Sounds, SoundStep(p, from, to)
  PROVE  Alone'
<1>1. /\ proc[p] = from /\ proc' = [proc EXCEPT ![p] = to]
      /\ UNCHANGED <<parent, pc, mem, mon, ctl, msg>>
  BY DEF SoundStep
<1>2. \A q \in Pids : proc'[q] = proc[q] \/ (q = p /\ proc[q] \in Sounds /\ proc'[q] \in Sounds)
  BY <1>1 DEF TypeOK
<1>3. Fewer
  BY <1>1, <1>2 DEF Alone, OneChild, OneMonitor, Fewer, Alive, Busy, Sounds
<1> QED
  BY <1>1, <1>3, AloneUnseen

LEMMA AloneProc ==
  ASSUME Undisturbed, TypeOK, Alone, NEW p \in Pids, ProcStep(p) \/ ProcEnv(p)
  PROVE  Alone'
<1>t. /\ mem \in [Procs -> Memory] /\ proc \in [Pids -> ProcStates]
      /\ Daemon \in Procs /\ p # Daemon
  BY ConstantTypes DEF TypeOK
<1>1. CASE ChildExecs(p)
  <2>1. /\ proc[p] = "child" /\ proc' = [proc EXCEPT ![p] = "exec"]
        /\ mem' = [mem EXCEPT ![p] = Blank] /\ UNCHANGED <<parent, pc, mon, ctl, msg>>
    BY <1>1 DEF ChildExecs
  <2>2. mem'[Daemon] = mem[Daemon]
    BY <1>t, <2>1
  <2>3. \A q \in Pids : proc'[q] = proc[q] \/ (q = p /\ proc'[q] = "exec")
    BY <1>t, <2>1
  <2>4. Fewer
    BY <2>1, <2>2, <2>3 DEF Alone, OneChild, OneMonitor, Fewer, Alive, Busy, Sounds
  <2> QED
    BY <2>1, <2>2, <2>4, AloneUnseen
<1>2. CASE ChildFails(p)
  BY <1>2 DEF ChildFails, Undisturbed
<1>3. CASE Unlink(p) \/ Bind(p) \/ Listen(p)
  BY <1>3, AloneSound DEF Unlink, Bind, Listen, Sounds
<1>4. CASE BindFails(p) \/ SoundCrashes(p) \/ SoundFinishes(p)
  BY <1>4, AloneExits DEF BindFails, SoundCrashes, SoundFinishes, Exits
<1>5. ASSUME NEW s \in Procs, ServePlay(p, s) \/ PlaybackReady(p, s) \/ ServeStop(p, s)
      PROVE  Alone'
  BY <1>5, AloneSound DEF ServePlay, PlaybackReady, ServeStop, Sounds
<1>6. ASSUME NEW s \in Procs, ServePlayTwice(p, s) \/ ServeStopIdle(p, s) PROVE Alone'
  BY <1>6, AloneExits DEF ServePlayTwice, ServeStopIdle, Exits
<1> QED
  BY <1>1, <1>2, <1>3, <1>4, <1>5, <1>6 DEF ProcStep, ProcEnv

(* A disarm is received while the alarm is heard, so not while it is being *)
(* stopped, and none is under way once it has been decoded.                *)
LEMMA AloneControl ==
  ASSUME Undisturbed, TypeOK, Alone, ControlStep \/ ControlEnv
  PROVE  Alone'
<1>t. mem \in [Procs -> Memory] /\ pc \in [Procs -> LoopStates] /\ Daemon \in Procs
  BY ConstantTypes DEF TypeOK
<1>i. OneChild /\ OneMonitor /\ WokenForAReason
  BY DEF Alone
<1>1. CASE CtlListens \/ CtlAccepts \/ CtlHangup \/ CtlFails
  <2>1. UNCHANGED <<proc, parent, mon, pc, mem, msg>> /\ ctl' \notin {"lock", "cs"}
    BY <1>1 DEF CtlListens, CtlAccepts, CtlHangup, CtlFails, CtlGoto
  <2> QED
    BY <1>i, <2>1, AloneLocal DEF Settled, OneChild, WokenForAReason, Disarming
<1>2. CASE CtlReceives
  <2>1. UNCHANGED <<proc, parent, mon, pc, mem>>
    BY <1>2 DEF CtlReceives, CtlGoto
  <2>2. Disarming' => pc[Daemon] = "wait" /\ ~mem[Daemon].fin_play
    BY <1>2 DEF CtlReceives, CtlGoto, Disarming, Audible, Undisturbed
  <2> QED
    BY <1>i, <2>1, <2>2, AloneLocal DEF Settled, OneChild, WokenForAReason
<1>3. CASE CtlLocks
  <2>1. /\ UNCHANGED <<proc, parent, mon, pc, msg>> /\ ctl = "lock"
        /\ mem' = [mem EXCEPT ![Daemon].lk = "ctl"]
    BY <1>3 DEF CtlLocks, CtlAt, CtlGoto
  <2>2. /\ mem'[Daemon].pid = mem[Daemon].pid /\ mem'[Daemon].flag = mem[Daemon].flag
        /\ mem'[Daemon].fin_play = mem[Daemon].fin_play
        /\ mem'[Daemon].req_stop_flag = mem[Daemon].req_stop_flag
    BY <1>t, <2>1 DEF Memory
  <2> QED
    BY <1>i, <2>1, <2>2, AloneLocal DEF Settled, OneChild, WokenForAReason, Disarming
<1>4. CASE CtlDecodes
  <2>1. /\ UNCHANGED <<proc, parent, mon>> /\ ctl = "cs" /\ ctl' \in {"ret", "recv"}
        /\ pc' = IF msg = "disarm" /\ pc[Daemon] = "wait"
                 THEN [pc EXCEPT ![Daemon] = "woken"] ELSE pc
    BY <1>4 DEF CtlDecodes, CtlAt
  <2>2. /\ mem'[Daemon].pid = mem[Daemon].pid /\ mem'[Daemon].flag = mem[Daemon].flag
        /\ mem'[Daemon].fin_play = mem[Daemon].fin_play
    BY <1>t, <1>4 DEF CtlDecodes, Memory
  <2>3. mem'[Daemon].req_stop_flag = (mem[Daemon].req_stop_flag \/ msg = "disarm")
    BY <1>t, <1>4 DEF CtlDecodes, Memory
  <2>4. mem[Daemon].req_stop_flag \/ msg = "disarm" => mem'[Daemon].req_stop_flag
    BY <2>3
  <2>5. pc'[Daemon] = IF msg = "disarm" /\ pc[Daemon] = "wait" THEN "woken" ELSE pc[Daemon]
    BY <1>t, <2>1
  <2>6. Settled
    BY <1>i, <2>2, <2>5 DEF Settled, OneChild, Quiet
  <2>7. WokenForAReason'
    BY <1>i, <2>1, <2>2, <2>4, <2>5 DEF WokenForAReason, Disarming
  <2> QED
    BY <2>1, <2>2, <2>6, <2>7, AloneLocal
<1> QED
  BY <1>1, <1>2, <1>3, <1>4 DEF ControlStep, ControlEnv

(* Until main() creates it, main_loop does nothing.                        *)
LEMMA LoopRunning ==
  ASSUME NEW s \in Procs, LoopStep(s) \/ LoopEnv(s)
  PROVE  pc[s] # "none" /\ (boot' = boot \/ boot' = "exited")
<1>1. CASE LoopStep(s)
  BY <1>1
     DEF LoopStep, Resume, LockForPlayback, FindUid, Fork, Spawn, Connect, ConnectRefused, Send,
         SendKills, ReceiveAck, ReceiveNoAck, FinishPlayback, RestartPlayback, StopPlayback,
         WaitAgain, LoopFails, Woken, At, NoEffectOnOthers, SupervisorExits, DaemonExits, Exits,
         ExitsLeaving
<1>2. CASE LoopEnv(s)
  BY <1>2
     DEF LoopEnv, FallAsleep, ObserveFails, SuspendFails, ForkFails, SpuriousWakeup,
         ForkUnwatched, Spawn, At, NoEffectOnOthers, SupervisorExits, DaemonExits, Exits,
         ExitsLeaving
<1> QED
  BY <1>1, <1>2

LEMMA BootingInit == Init => Booting
  BY ConstantTypes DEF Init, Booting

LEMMA BootingStep ==
  ASSUME TypeOK, MutexInvariant, OneChild, Booting, [Next]_vars
  PROVE  Booting'
<1>t. /\ pc \in [Procs -> LoopStates] /\ Daemon \in Procs
      /\ \A p \in Pids : p # Daemon
  BY ConstantTypes DEF TypeOK
<1>1. ASSUME NEW s \in Procs, LoopStep(s) \/ LoopEnv(s) PROVE Booting'
  <2>1. s = Daemon
    BY <1>1, LoopIsDaemon
  <2>2. pc[Daemon] # "none" /\ (boot' = boot \/ boot' = "exited")
    BY <1>1, <2>1, LoopRunning
  <2> QED
    BY <2>2 DEF Booting
<1>2. ASSUME NEW m \in Monitors, MonitorStep(m) PROVE Booting'
  <2>1. UNCHANGED <<boot, cancel>> /\ (pc' = pc \/ \E s : pc[s] = "wait" /\ pc' = [pc EXCEPT ![s] = "woken"])
    BY <1>2 DEF MonitorStep, MonitorStarts, MonitorReaps, MonitorSignals
  <2> QED
    BY <1>t, <2>1 DEF Booting
<1>3. ASSUME NEW p \in Pids, ProcStep(p) \/ ProcEnv(p) PROVE Booting'
  <2>1. UNCHANGED <<boot, cancel>> /\ (pc' = pc \/ \E l : pc' = [pc EXCEPT ![p] = l])
    BY <1>3
       DEF ProcStep, ProcEnv, ChildExecs, ChildFails, Unlink, Bind, BindFails, Listen, SoundFinishes,
           ServePlay, PlaybackReady, ServePlayTwice, ServeStop, ServeStopIdle, SoundCrashes,
           SoundStep, Exits, ExitsLeaving, Goto
  <2> QED
    BY <1>t, <2>1 DEF Booting
<1>4. CASE ControlStep \/ ControlEnv
  <2>1. ctl # "none" /\ boot' = boot
    BY <1>4
       DEF ControlStep, ControlEnv, CtlListens, CtlAccepts, CtlReceives, CtlHangup, CtlFails,
           CtlLocks, CtlDecodes, CtlAt, CtlGoto
  <2> QED
    BY <2>1 DEF MutexInvariant, Booting
<1>5. CASE BootStep \/ CreateFails
  <2>1. boot' # "init"
    BY <1>5
       DEF BootStep, CreateLoop, CreateControl, JoinControl, JoinLoop, CreateFails, DaemonExits
  <2> QED
    BY <2>1 DEF Booting
<1>6. CASE LoopCancelled \/ CtlCancelled
  <2>1. cancel # {} /\ boot' = boot
    BY <1>6 DEF LoopCancelled, CtlCancelled, CtlGoto
  <2> QED
    BY <2>1 DEF Booting
<1>7. CASE UNCHANGED vars
  BY <1>7 DEF vars, Booting
<1> QED
  BY <1>1, <1>2, <1>3, <1>4, <1>5, <1>6, <1>7 DEF Next, Terminated

LEMMA AloneMain ==
  ASSUME TypeOK, MutexInvariant, Booting, Alone,
         BootStep \/ CreateFails \/ LoopCancelled \/ CtlCancelled
  PROVE  Alone'
<1>t. mem \in [Procs -> Memory] /\ pc \in [Procs -> LoopStates] /\ Daemon \in Procs
  BY ConstantTypes DEF TypeOK
<1>i. OneChild /\ OneMonitor /\ WokenForAReason
  BY DEF Alone
<1>1. CASE CreateLoop
  <2>1. /\ UNCHANGED <<proc, parent, mon, mem, ctl, msg>> /\ ctl = "none"
        /\ pc'[Daemon] = "watch"
    BY <1>t, <1>1 DEF CreateLoop, BootFrame, Goto, MutexInvariant
  <2>2. ~Disarming /\ ~Disarming'
    BY <2>1 DEF Disarming
  <2>3. pc[Daemon] \in Quiet
    BY <1>1 DEF CreateLoop, Booting, Quiet
  <2>4. Settled
    BY <1>i, <2>1, <2>3 DEF Settled, OneChild
  <2> QED
    BY <1>i, <2>1, <2>2, <2>4, AloneLocal DEF WokenForAReason
<1>2. CASE CreateControl \/ JoinControl \/ CtlCancelled
  <2>1. UNCHANGED <<proc, parent, mon, pc, mem, msg>>
    BY <1>2 DEF CreateControl, JoinControl, CtlCancelled, BootFrame, CtlGoto
  <2>2. ctl' = ctl \/ ctl' \notin {"lock", "cs"}
    BY <1>2 DEF CreateControl, JoinControl, CtlCancelled, CtlGoto
  <2> QED
    BY <1>i, <2>1, <2>2, AloneLocal DEF Settled, OneChild, WokenForAReason, Disarming
<1>3. CASE JoinLoop \/ CreateFails
  BY <1>3, AloneDaemonExits DEF JoinLoop, CreateFails
<1>4. CASE LoopCancelled
  <2>1. /\ UNCHANGED <<proc, parent, mon, ctl, msg>> /\ pc'[Daemon] = "dead"
        /\ mem' = mem \/ mem' = [mem EXCEPT ![Daemon].lk = "loop"]
    BY <1>t, <1>4 DEF LoopCancelled, Goto
  <2>2. mem'[Daemon].pid = mem[Daemon].pid /\ mem'[Daemon].flag = mem[Daemon].flag
    BY <1>t, <2>1 DEF Memory
  <2> QED
    BY <1>i, <2>1, <2>2, AloneLocal DEF Settled, Quiet, WokenForAReason
<1> QED
  BY <1>1, <1>2, <1>3, <1>4 DEF BootStep

LEMMA AloneStep ==
  ASSUME Undisturbed
  PROVE  TypeOK /\ MutexInvariant /\ Booting /\ Alone /\ [Next]_vars => Alone'
<1> SUFFICES ASSUME TypeOK, MutexInvariant, Booting, Alone, [Next]_vars PROVE Alone'
  OBVIOUS
<1>1. CASE UNCHANGED vars
  BY <1>1 DEF vars, Alone, OneChild, OneMonitor, WokenForAReason, NoneLeft, Alive, Busy, Disarming
<1> QED
  BY <1>1, AloneLoop, AloneLoopEnv, AloneMonitor, AloneProc, AloneControl, AloneMain
     DEF Next, Terminated

LEMMA AloneAlways ==
  ASSUME Undisturbed
  PROVE  Spec => []Booting /\ []Alone
<1>1. Init => Booting /\ Alone
  BY BootingInit, AloneInit
<1>2. TypeOK /\ MutexInvariant /\ Booting /\ Alone /\ [Next]_vars => Booting' /\ Alone'
  <2>1. Alone => OneChild
    BY DEF Alone
  <2> QED
    BY <2>1, BootingStep, AloneStep
<1> QED
  BY <1>1, <1>2, TypeCorrect, MutexAlways, PTL DEF Spec

(* At most one playback process runs at a time, which sound.c relies on    *)
(* (each unlinks the playback socket when it starts and when it ends), as  *)
(* long as no wait ends without reason (main.c:432), every child has its   *)
(* monitor and executes the playback program, and the user disarms only an *)
(* alarm that he hears.                                                    *)
THEOREM OneSoundAlways ==
  ASSUME Undisturbed
  PROVE  Spec => []OneSound
<1>1. Alone => OneSound
  BY DEF Alone, OneChild, OneSound
<1> QED
  BY <1>1, AloneAlways, PTL

(* main_loop leaves the loop around pthread_cond_wait when the flag is set *)
(* or when the stop has been sent.                                         *)
LEMMA WokenLeaves ==
  ASSUME TypeOK, MutexInvariant, OneChild, Booting, [Next]_vars,
         pc[Daemon] = "woken", pc'[Daemon] \in {"uid", "watch"}
  PROVE  mem[Daemon].flag \/ mem[Daemon].fin_play
<1>t. /\ pc \in [Procs -> LoopStates] /\ Daemon \in Procs
      /\ \A p \in Pids : p # Daemon
  BY ConstantTypes DEF TypeOK
<1> SUFFICES ASSUME ~mem[Daemon].flag, ~mem[Daemon].fin_play PROVE FALSE
  OBVIOUS
<1>g. \A l : Goto(Daemon, l) => pc'[Daemon] = l
  BY <1>t DEF Goto
<1>1. ASSUME NEW s \in Procs, LoopStep(s) PROVE FALSE
  <2>1. s = Daemon
    BY <1>1, LoopIsDaemon
  <2>2. CASE WaitAgain(Daemon) \/ StopPlayback(Daemon)
    BY <1>g, <2>2 DEF WaitAgain, StopPlayback
  <2> QED
    BY <1>1, <2>1, <2>2
       DEF LoopStep, Resume, LockForPlayback, FindUid, Fork, Spawn, Connect, ConnectRefused, Send,
           SendKills, ReceiveAck, ReceiveNoAck, FinishPlayback, RestartPlayback, Woken, LoopFails, At
<1>2. ASSUME NEW s \in Procs, LoopEnv(s) PROVE FALSE
  <2>1. s = Daemon
    BY <1>2, LoopIsDaemon
  <2> QED
    BY <1>2, <2>1
       DEF LoopEnv, FallAsleep, ObserveFails, SuspendFails, ForkFails, SpuriousWakeup,
           ForkUnwatched, Spawn, At
<1>3. ASSUME NEW m \in Monitors, MonitorStep(m) PROVE FALSE
  <2>1. pc' = pc \/ \E s : pc[s] = "wait" /\ pc' = [pc EXCEPT ![s] = "woken"]
    BY <1>3 DEF MonitorStep, MonitorStarts, MonitorReaps, MonitorSignals
  <2> QED
    BY <1>t, <2>1
<1>4. ASSUME NEW p \in Pids, ProcStep(p) \/ ProcEnv(p) PROVE FALSE
  <2>1. pc' = pc \/ \E l : pc' = [pc EXCEPT ![p] = l]
    BY <1>4
       DEF ProcStep, ProcEnv, ChildExecs, ChildFails, Unlink, Bind, BindFails, Listen, SoundFinishes,
           ServePlay, PlaybackReady, ServePlayTwice, ServeStop, ServeStopIdle, SoundCrashes,
           SoundStep, Exits, ExitsLeaving, Goto
  <2> QED
    BY <1>t, <2>1
<1>5. CASE ControlStep \/ ControlEnv
  <2>1. pc' = pc
    BY <1>5
       DEF ControlStep, ControlEnv, CtlListens, CtlAccepts, CtlReceives, CtlHangup, CtlFails,
           CtlLocks, CtlDecodes, CtlGoto
  <2> QED
    BY <2>1
<1>6. CASE BootStep \/ CreateFails
  BY <1>6
     DEF BootStep, CreateLoop, CreateControl, JoinControl, JoinLoop, CreateFails, DaemonExits, Booting
<1>7. CASE LoopCancelled \/ CtlCancelled
  BY <1>7, <1>g DEF LoopCancelled, CtlCancelled, CtlGoto
<1>8. CASE UNCHANGED vars
  BY <1>8 DEF vars
<1> QED
  BY <1>1, <1>2, <1>3, <1>4, <1>5, <1>6, <1>7, <1>8 DEF Next, Terminated

LEMMA LeavingStep ==
  ASSUME TypeOK, MutexInvariant, Booting, Alone, [Next]_vars, NEW s \in Procs,
         pc[s] = "woken", pc'[s] \in {"uid", "watch"}
  PROVE  ~Alive(mem[s].pid)
<1>1. s = Daemon
  BY OnlyDaemon DEF Alone
<1>2. mem[Daemon].flag \/ mem[Daemon].fin_play
  BY <1>1, WokenLeaves DEF Alone
<1>3. mem[Daemon].flag
  BY <1>1, <1>2 DEF Alone, WokenForAReason
<1> QED
  BY <1>1, <1>3 DEF Alone, OneChild, NoneLeft, Alive

(* main_loop leaves a playback process, to start another ("bc sound proc   *)
(* died", main.c:447) or to watch for inactivity ("after normal            *)
(* termination", main.c:439), only when it is dead, under the same         *)
(* hypotheses.                                                             *)
THEOREM LeavingMeansDiedAlways ==
  ASSUME Undisturbed
  PROVE  Spec => LeavingMeansDied
<1> DEFINE Left == \A s \in Procs : pc[s] = "woken" /\ pc'[s] \in {"uid", "watch"}
                                     => ~Alive(mem[s].pid)
<1>1. TypeOK /\ MutexInvariant /\ Booting /\ Alone /\ [Next]_vars => [Left]_vars
  BY LeavingStep
<1> HIDE DEF Left
<1>2. Spec => [][Left]_vars
  BY <1>1, TypeCorrect, MutexAlways, AloneAlways, PTL DEF Spec
<1> QED
  BY <1>2 DEF Left, LeavingMeansDied

-----------------------------------------------------------------------------
(* The alarm clock *)

(* What the user sees of the daemon besides the phase.                     *)
SameRequests == mem'[Daemon].act_flag = mem[Daemon].act_flag
                /\ mem'[Daemon].req_stop_flag = mem[Daemon].req_stop_flag

LEMMA ClockSame ==
  ASSUME Phase' = Phase, SameRequests, UNCHANGED proc
  PROVE  UNCHANGED Clock!vars
  BY DEF Clock!vars, Alive, SameRequests

LEMMA ClockFails ==
  ASSUME Phase' = "down", SameRequests, UNCHANGED proc
  PROVE  [Clock!Next]_(Clock!vars)
<1>1. CASE Phase = "down"
  BY <1>1, ClockSame
<1>2. CASE Phase # "down"
  <2>1. Clock!Fail
    BY <1>2 DEF Clock!Fail, Alive, SameRequests
  <2> QED
    BY <2>1 DEF Clock!Next
<1> QED
  BY <1>1, <1>2

LEMMA ClockDaemonExits == DaemonExits => [Clock!Next]_(Clock!vars)
  BY ClockFails DEF DaemonExits, Phase, SameRequests

(* A step that the user sees, if at all, by the player being gone.         *)
LEMMA ClockDies ==
  ASSUME Fewer, Phase' = Phase, SameRequests
  PROVE  [Clock!Next]_(Clock!vars)
<1>1. (\E p \in Pids : Alive(p)') => \E p \in Pids : Alive(p)
  BY DEF Fewer
<1>2. CASE (\E p \in Pids : Alive(p)) /\ ~(\E p \in Pids : Alive(p)')
  <2>1. Clock!Die
    BY <1>2 DEF Clock!Die, SameRequests
  <2> QED
    BY <2>1 DEF Clock!Next
<1>3. CASE (\E p \in Pids : Alive(p)') <=> \E p \in Pids : Alive(p)
  <2>1. UNCHANGED Clock!vars
    BY <1>3 DEF Clock!vars, SameRequests
  <2> QED
    BY <2>1
<1> QED
  BY <1>1, <1>2, <1>3

LEMMA ClockLoop ==
  ASSUME TypeOK, MutexInvariant, Alone, NEW s \in Procs, LoopStep(s)
  PROVE  [Clock!Next]_(Clock!vars)
<1>d. s = Daemon
  BY LoopIsDaemon DEF Alone
<1>t. mem \in [Procs -> Memory] /\ pc \in [Procs -> LoopStates] /\ Daemon \in Procs
  BY ConstantTypes DEF TypeOK
<1>w. WokenForAReason /\ OneChild
  BY DEF Alone
<1>g. \A l : Goto(Daemon, l) => pc'[Daemon] = l
  BY <1>t DEF Goto
<1> DEFINE Frame == UNCHANGED <<proc, boot>> /\ boot # "exited"
           Same == SameRequests /\ mem'[Daemon].fin_play = mem[Daemon].fin_play
<1>1. CASE Resume(s) \/ FindUid(s) \/ Connect(s) \/ Send(s)
  <2>1. Frame /\ Same
    BY <1>1 DEF Resume, FindUid, Connect, Send, At, NoEffectOnOthers, Running, SameRequests
  <2>2. \/ pc[Daemon] = "suspend" /\ pc'[Daemon] = "plock"
        \/ pc[Daemon] \in {"uid", "connect", "send"} /\ pc'[Daemon] \in {"perr", "fork", "send", "recv"}
    BY <1>1, <1>d, <1>g DEF Resume, FindUid, Connect, Send, At
  <2>3. Phase' = Phase
    BY <2>1, <2>2 DEF Phase
  <2> QED
    BY <2>1, <2>3, ClockSame
<1>2. CASE LockForPlayback(s)
  <2>1. /\ Frame /\ pc[Daemon] = "plock" /\ pc'[Daemon] = "uid"
        /\ mem' = [mem EXCEPT ![Daemon].lk = "loop", ![Daemon].fin_play = FALSE]
    BY <1>2, <1>d, <1>g DEF LockForPlayback, At, NoEffectOnOthers, Running
  <2>2. SameRequests /\ ~mem'[Daemon].fin_play
    BY <1>t, <2>1 DEF Memory, SameRequests
  <2>3. Phase = "asleep" /\ Phase' = "ringing"
    BY <2>1, <2>2 DEF Phase
  <2>4. Clock!Ring
    BY <2>1, <2>2, <2>3 DEF Clock!Ring, SameRequests, Alive
  <2> QED
    BY <2>4 DEF Clock!Next
<1>3. ASSUME NEW p \in Pids, NEW m \in Monitors, Fork(s, p, m) PROVE [Clock!Next]_(Clock!vars)
  <2>1. /\ pc[Daemon] = "fork" /\ pc'[Daemon] = "connect" /\ UNCHANGED boot /\ boot # "exited"
        /\ proc' = [proc EXCEPT ![p] = "child"]
        /\ mem' = [mem EXCEPT ![p] = mem[Daemon], ![Daemon].pid = p, ![Daemon].i = 0]
    BY <1>3, <1>d, <1>g DEF Fork, Spawn, At, Running
  <2>2. p # Daemon /\ p \in Procs
    BY ConstantTypes
  <2>3. Same
    BY <1>t, <2>1, <2>2 DEF Memory, SameRequests
  <2>4. NoneLeft /\ ~mem[Daemon].fin_play
    BY <1>w, <2>1 DEF OneChild, WokenForAReason, Quiet
  <2>5. Phase = "ringing" /\ Phase' = "ringing"
    BY <2>1, <2>3, <2>4 DEF Phase
  <2>6. proc'[p] = "child"
    BY <2>1 DEF TypeOK
  <2>7. ~(\E q \in Pids : Alive(q)) /\ (\E q \in Pids : Alive(q)')
    BY <2>4, <2>6 DEF NoneLeft, Alive
  <2>8. Clock!Play
    BY <2>3, <2>5, <2>7 DEF Clock!Play, SameRequests
  <2> QED
    BY <2>8 DEF Clock!Next
<1>4. CASE ConnectRefused(s) \/ ReceiveAck(s) \/ ReceiveNoAck(s) \/ WaitAgain(s)
  <2>1. /\ Frame /\ pc[Daemon] \in {"connect", "recv", "woken"}
        /\ pc'[Daemon] \in {"connect", "perr", "wait"}
    BY <1>4, <1>d, <1>g
       DEF ConnectRefused, ReceiveAck, ReceiveNoAck, WaitAgain, Woken, At, NoEffectOnOthers, Running
  <2>2. Same
    BY <1>t, <1>4, <1>d DEF ConnectRefused, ReceiveAck, ReceiveNoAck, WaitAgain, Memory, SameRequests
  <2>3. Phase' = Phase
    BY <2>1, <2>2 DEF Phase
  <2> QED
    BY <2>1, <2>2, <2>3, ClockSame
<1>5. CASE SendKills(s)
  BY <1>5, <1>d, ClockDaemonExits DEF SendKills, SupervisorExits
<1>6. CASE FinishPlayback(s)
  <2>1. /\ Frame /\ pc[Daemon] = "woken" /\ pc'[Daemon] = "watch" /\ mem[Daemon].fin_play
        /\ mem' = [mem EXCEPT ![Daemon].flag = FALSE, ![Daemon].fin_play = FALSE, ![Daemon].i = 0]
    BY <1>6, <1>d, <1>g DEF FinishPlayback, Woken, At, NoEffectOnOthers, Running
  <2>2. SameRequests
    BY <1>t, <2>1 DEF Memory, SameRequests
  <2>3. NoneLeft
    BY <1>w, <2>1 DEF WokenForAReason, OneChild
  <2>4. Phase = "silencing" /\ Phase' = "watching"
    BY <2>1 DEF Phase
  <2>5. Clock!Rest
    BY <2>1, <2>2, <2>3, <2>4 DEF Clock!Rest, SameRequests, NoneLeft, Alive
  <2> QED
    BY <2>5 DEF Clock!Next
<1>7. CASE RestartPlayback(s)
  <2>1. /\ Frame /\ pc[Daemon] = "woken" /\ pc'[Daemon] = "uid"
        /\ mem' = [mem EXCEPT ![Daemon].flag = FALSE, ![Daemon].lk = "loop"]
    BY <1>7, <1>d, <1>g DEF RestartPlayback, Woken, At, NoEffectOnOthers, Running
  <2>2. Same
    BY <1>t, <2>1 DEF Memory, SameRequests
  <2>3. Phase' = Phase
    BY <2>1, <2>2 DEF Phase
  <2> QED
    BY <2>1, <2>2, <2>3, ClockSame
<1>8. CASE StopPlayback(s)
  <2>1. /\ Frame /\ pc[Daemon] = "woken" /\ pc'[Daemon] = "connect"
        /\ ~mem[Daemon].fin_play /\ mem[Daemon].req_stop_flag
        /\ mem' = [mem EXCEPT ![Daemon].req_stop_flag = FALSE, ![Daemon].fin_play = TRUE,
                              ![Daemon].lk = "loop"]
    BY <1>8, <1>d, <1>g DEF StopPlayback, Woken, At, NoEffectOnOthers, Running
  <2>2. /\ mem'[Daemon].act_flag = mem[Daemon].act_flag
        /\ mem'[Daemon].req_stop_flag = FALSE /\ mem'[Daemon].fin_play
    BY <1>t, <2>1 DEF Memory
  <2>3. Phase = "ringing" /\ Phase' = "silencing"
    BY <2>1, <2>2 DEF Phase
  <2>4. Clock!Silence
    BY <2>1, <2>2, <2>3 DEF Clock!Silence, Alive
  <2> QED
    BY <2>4 DEF Clock!Next
<1>9. CASE LoopFails(s)
  <2>1. CASE DaemonExits
    BY <2>1, ClockDaemonExits
  <2>2. CASE /\ Goto(s, "fail") /\ UNCHANGED <<proc, boot>>
             /\ mem' = IF pc[s] = "werr" THEN [mem EXCEPT ![s].lk = "none"] ELSE mem
    <3>1. SameRequests /\ Phase' = "down"
      BY <1>t, <2>2, <1>d, <1>g DEF Memory, SameRequests, Phase
    <3> QED
      BY <2>2, <3>1, ClockFails
  <2> QED
    BY <1>9, <1>d, <2>1, <2>2 DEF LoopFails
<1> QED
  BY <1>1, <1>2, <1>3, <1>4, <1>5, <1>6, <1>7, <1>8, <1>9 DEF LoopStep

LEMMA ClockLoopEnv ==
  ASSUME Undisturbed, TypeOK, MutexInvariant, Alone, NEW s \in Procs, LoopEnv(s)
  PROVE  [Clock!Next]_(Clock!vars)
<1>d. s = Daemon
  BY LoopIsDaemon DEF Alone
<1>t. pc \in [Procs -> LoopStates] /\ Daemon \in Procs
  BY ConstantTypes DEF TypeOK
<1>g. \A l : Goto(Daemon, l) => pc'[Daemon] = l
  BY <1>t DEF Goto
<1>1. CASE FallAsleep(s)
  <2>1. /\ UNCHANGED <<proc, boot, mem>> /\ boot # "exited" /\ mem[Daemon].act_flag
        /\ pc[Daemon] = "watch" /\ pc'[Daemon] = "suspend"
    BY <1>1, <1>d, <1>g DEF FallAsleep, At, NoEffectOnOthers, Running
  <2>2. Phase = "watching" /\ Phase' = "asleep"
    BY <2>1 DEF Phase
  <2>3. Clock!FallAsleep
    BY <2>1, <2>2 DEF Clock!FallAsleep, Alive
  <2> QED
    BY <2>3 DEF Clock!Next
<1>2. CASE ObserveFails(s) \/ ForkFails(s)
  <2>1. /\ UNCHANGED <<proc, boot, mem>> /\ boot # "exited"
        /\ \/ pc[Daemon] = "watch" /\ pc'[Daemon] = "werr"
           \/ pc[Daemon] = "fork" /\ pc'[Daemon] \in {"uid", "hung"}
    BY <1>2, <1>d, <1>g DEF ObserveFails, ForkFails, AfterSpawnError, At, NoEffectOnOthers, Running
  <2>2. Phase' = Phase
    BY <2>1 DEF Phase
  <2> QED
    BY <2>1, <2>2, ClockSame DEF SameRequests
<1>3. CASE SuspendFails(s)
  BY <1>3, <1>d, ClockDaemonExits DEF SuspendFails, SupervisorExits
<1>4. CASE SpuriousWakeup(s)
  BY <1>4 DEF SpuriousWakeup, Undisturbed
<1>5. ASSUME NEW p \in Pids, ForkUnwatched(s, p) PROVE FALSE
  BY <1>5 DEF ForkUnwatched, Undisturbed
<1> QED
  BY <1>1, <1>2, <1>3, <1>4, <1>5 DEF LoopEnv

LEMMA ClockMonitor ==
  ASSUME TypeOK, Alone, NEW m \in Monitors, MonitorStep(m)
  PROVE  [Clock!Next]_(Clock!vars)
<1>t. /\ mem \in [Procs -> Memory] /\ pc \in [Procs -> LoopStates]
      /\ proc \in [Pids -> ProcStates] /\ Daemon \in Procs
  BY ConstantTypes DEF TypeOK
<1>b. Busy(m) => mon[m].sup = Daemon
  BY DEF Alone, OneMonitor
<1>1. CASE MonitorStarts(m)
  <2>1. UNCHANGED <<proc, pc, mem, boot>>
    BY <1>1 DEF MonitorStarts
  <2> QED
    BY <2>1, ClockSame DEF Phase, SameRequests
<1>2. CASE MonitorReaps(m)
  <2>1. UNCHANGED <<pc, mem, boot>>
    BY <1>2 DEF MonitorReaps
  <2>2. \A p \in Pids : proc'[p] = proc[p] \/ (proc[p] = "zombie" /\ proc'[p] = "free")
    BY <1>t, <1>2 DEF MonitorReaps
  <2>3. \A p \in Pids : Alive(p)' <=> Alive(p)
    BY <2>2 DEF Alive, Sounds
  <2>4. UNCHANGED Clock!vars
    BY <2>1, <2>3 DEF Clock!vars, Phase
  <2> QED
    BY <2>4
<1>3. CASE MonitorSignals(m)
  <2>1. /\ UNCHANGED <<proc, boot>>
        /\ mem' = [mem EXCEPT ![Daemon].flag = TRUE]
        /\ pc' = IF pc[Daemon] = "wait" THEN [pc EXCEPT ![Daemon] = "woken"] ELSE pc
    BY <1>3, <1>b DEF MonitorSignals, Busy
  <2>2. SameRequests /\ mem'[Daemon].fin_play = mem[Daemon].fin_play
    BY <1>t, <2>1 DEF Memory, SameRequests
  <2>3. pc'[Daemon] = pc[Daemon] \/ (pc[Daemon] = "wait" /\ pc'[Daemon] = "woken")
    BY <1>t, <2>1
  <2>4. Phase' = Phase
    BY <2>1, <2>2, <2>3 DEF Phase
  <2> QED
    BY <2>1, <2>2, <2>4, ClockSame
<1> QED
  BY <1>1, <1>2, <1>3 DEF MonitorStep

LEMMA ClockExits ==
  ASSUME TypeOK, Alone, NEW p \in Pids, NEW c, ExitsLeaving(p, c)
  PROVE  [Clock!Next]_(Clock!vars)
<1>1. Fewer /\ mem'[Daemon] = mem[Daemon] /\ pc'[Daemon] = pc[Daemon]
  BY ExitsFewer DEF Alone
<1>2. boot' = boot
  BY DEF ExitsLeaving
<1> QED
  BY <1>1, <1>2, ClockDies DEF Phase, SameRequests

LEMMA ClockSound ==
  ASSUME TypeOK, NEW p \in Pids, NEW from \in Sounds \cup {"child"}, NEW to \in Sounds,
         proc[p] = from, proc' = [proc EXCEPT ![p] = to],
         pc' = pc, mem'[Daemon] = mem[Daemon], boot' = boot
  PROVE  UNCHANGED Clock!vars
<1>1. \A q \in Pids : Alive(q)' <=> Alive(q)
  BY DEF Alive, TypeOK
<1> QED
  BY <1>1 DEF Clock!vars, Phase

LEMMA ClockProc ==
  ASSUME Undisturbed, TypeOK, Alone, NEW p \in Pids, ProcStep(p) \/ ProcEnv(p)
  PROVE  [Clock!Next]_(Clock!vars)
<1>1. CASE ChildExecs(p)
  <2>1. mem'[Daemon] = mem[Daemon]
    BY <1>1, ConstantTypes DEF ChildExecs, TypeOK
  <2> QED
    BY <1>1, <2>1, ClockSound DEF ChildExecs, Sounds
<1>2. CASE ChildFails(p)
  BY <1>2 DEF ChildFails, Undisturbed
<1>3. CASE Unlink(p) \/ Bind(p) \/ Listen(p)
  BY <1>3, ClockSound DEF Unlink, Bind, Listen, SoundStep, Sounds
<1>4. CASE BindFails(p) \/ SoundCrashes(p) \/ SoundFinishes(p)
  BY <1>4, ClockExits DEF BindFails, SoundCrashes, SoundFinishes, Exits
<1>5. ASSUME NEW s \in Procs, ServePlay(p, s) \/ PlaybackReady(p, s) \/ ServeStop(p, s)
      PROVE  [Clock!Next]_(Clock!vars)
  BY <1>5, ClockSound DEF ServePlay, PlaybackReady, ServeStop, SoundStep, Sounds
<1>6. ASSUME NEW s \in Procs, ServePlayTwice(p, s) \/ ServeStopIdle(p, s)
      PROVE  [Clock!Next]_(Clock!vars)
  BY <1>6, ClockExits DEF ServePlayTwice, ServeStopIdle, Exits
<1> QED
  BY <1>1, <1>2, <1>3, <1>4, <1>5, <1>6 DEF ProcStep, ProcEnv

LEMMA ClockControl ==
  ASSUME TypeOK, ControlStep \/ ControlEnv
  PROVE  [Clock!Next]_(Clock!vars)
<1>t. mem \in [Procs -> Memory] /\ pc \in [Procs -> LoopStates] /\ Daemon \in Procs
  BY ConstantTypes DEF TypeOK
<1>1. CASE CtlListens \/ CtlAccepts \/ CtlReceives \/ CtlHangup \/ CtlFails
  <2>1. UNCHANGED <<proc, pc, mem, boot>>
    BY <1>1 DEF CtlListens, CtlAccepts, CtlReceives, CtlHangup, CtlFails, CtlGoto
  <2> QED
    BY <2>1, ClockSame DEF Phase, SameRequests
<1>2. CASE CtlLocks
  <2>1. UNCHANGED <<proc, pc, boot>> /\ mem' = [mem EXCEPT ![Daemon].lk = "ctl"]
    BY <1>2 DEF CtlLocks, CtlGoto
  <2>2. SameRequests /\ mem'[Daemon].fin_play = mem[Daemon].fin_play
    BY <1>t, <2>1 DEF Memory, SameRequests
  <2> QED
    BY <2>1, <2>2, ClockSame DEF Phase
<1>3. CASE CtlDecodes
  <2>1. /\ UNCHANGED <<proc, boot>>
        /\ pc' = IF msg = "disarm" /\ pc[Daemon] = "wait"
                 THEN [pc EXCEPT ![Daemon] = "woken"] ELSE pc
    BY <1>3 DEF CtlDecodes
  <2>2. /\ mem'[Daemon].fin_play = mem[Daemon].fin_play
        /\ mem'[Daemon].act_flag = ((msg = "on") \/ (mem[Daemon].act_flag /\ msg # "off"))
        /\ mem'[Daemon].req_stop_flag = (mem[Daemon].req_stop_flag \/ msg = "disarm")
    BY <1>t, <1>3 DEF CtlDecodes, Memory
  <2>3. mem[Daemon].act_flag \in BOOLEAN /\ mem[Daemon].req_stop_flag \in BOOLEAN
    BY <1>t DEF Memory
  <2>4. pc'[Daemon] = pc[Daemon] \/ (pc[Daemon] = "wait" /\ pc'[Daemon] = "woken")
    BY <1>t, <2>1
  <2>5. Phase' = Phase
    BY <2>1, <2>2, <2>4 DEF Phase
  <2>6. CASE msg = "disarm"
    <3>1. /\ mem'[Daemon].act_flag = mem[Daemon].act_flag
          /\ mem'[Daemon].req_stop_flag = TRUE
      BY <2>2, <2>3, <2>6
    <3>2. Clock!Ask
      BY <2>1, <2>5, <3>1 DEF Clock!Ask, Alive
    <3> QED
      BY <3>2 DEF Clock!Next
  <2>7. CASE msg # "disarm" /\ mem'[Daemon].act_flag # mem[Daemon].act_flag
    <3>1. /\ mem'[Daemon].act_flag = ~mem[Daemon].act_flag
          /\ mem'[Daemon].req_stop_flag = mem[Daemon].req_stop_flag
      BY <2>2, <2>3, <2>7
    <3>2. Clock!Toggle
      BY <2>1, <2>5, <3>1 DEF Clock!Toggle, Alive
    <3> QED
      BY <3>2 DEF Clock!Next
  <2>8. CASE msg # "disarm" /\ mem'[Daemon].act_flag = mem[Daemon].act_flag
    <3>1. SameRequests
      BY <2>2, <2>3, <2>8 DEF SameRequests
    <3> QED
      BY <2>1, <2>5, <3>1, ClockSame
  <2> QED
    BY <2>6, <2>7, <2>8
<1> QED
  BY <1>1, <1>2, <1>3 DEF ControlStep, ControlEnv

LEMMA ClockMain ==
  ASSUME TypeOK, Booting, BootStep \/ CreateFails \/ LoopCancelled \/ CtlCancelled
  PROVE  [Clock!Next]_(Clock!vars)
<1>t. mem \in [Procs -> Memory] /\ pc \in [Procs -> LoopStates] /\ Daemon \in Procs
  BY ConstantTypes DEF TypeOK
<1>1. CASE CreateLoop
  <2>1. /\ UNCHANGED <<proc, mem>> /\ boot = "init" /\ boot' = "loop"
        /\ pc[Daemon] = "none" /\ pc'[Daemon] = "watch"
    BY <1>t, <1>1 DEF CreateLoop, BootFrame, Goto, Booting
  <2>2. Phase' = Phase
    BY <2>1 DEF Phase
  <2> QED
    BY <2>1, <2>2, ClockSame DEF SameRequests
<1>2. CASE CreateControl \/ JoinControl \/ CtlCancelled
  <2>1. UNCHANGED <<proc, pc, mem>> /\ (boot' = boot \/ (boot # "exited" /\ boot' # "exited"))
    BY <1>2 DEF CreateControl, JoinControl, CtlCancelled, BootFrame, CtlGoto
  <2>2. Phase' = Phase
    BY <2>1 DEF Phase
  <2> QED
    BY <2>1, <2>2, ClockSame DEF SameRequests
<1>3. CASE JoinLoop \/ CreateFails
  BY <1>3, ClockDaemonExits DEF JoinLoop, CreateFails
<1>4. CASE LoopCancelled
  <2>1. /\ UNCHANGED <<proc, boot>> /\ pc'[Daemon] = "dead"
        /\ mem' = mem \/ mem' = [mem EXCEPT ![Daemon].lk = "loop"]
    BY <1>t, <1>4 DEF LoopCancelled, Goto
  <2>2. SameRequests /\ Phase' = "down"
    BY <1>t, <2>1 DEF Memory, SameRequests, Phase
  <2> QED
    BY <2>1, <2>2, ClockFails
<1> QED
  BY <1>1, <1>2, <1>3, <1>4 DEF BootStep

LEMMA ClockStep ==
  ASSUME Undisturbed
  PROVE  TypeOK /\ MutexInvariant /\ Booting /\ Alone /\ [Next]_vars => [Clock!Next]_(Clock!vars)
<1> SUFFICES ASSUME TypeOK, MutexInvariant, Booting, Alone, [Next]_vars
             PROVE  [Clock!Next]_(Clock!vars)
  OBVIOUS
<1>1. CASE UNCHANGED vars
  BY <1>1, ClockSame DEF vars, Phase, SameRequests
<1> QED
  BY <1>1, ClockLoop, ClockLoopEnv, ClockMonitor, ClockProc, ClockControl, ClockMain
     DEF Next, Terminated

LEMMA ClockInit == Init => Clock!Init
<1> SUFFICES ASSUME Init PROVE Clock!Init
  OBVIOUS
<1>1. PICK m \in InitialMemory : mem = [s \in Procs |-> IF s = Daemon THEN m ELSE Blank]
  BY DEF Init
<1>2. PICK b \in BOOLEAN : m = [Blank EXCEPT !.req_stop_flag = b]
  BY <1>1 DEF InitialMemory
<1>3. mem[Daemon] = m /\ m.act_flag = FALSE /\ m.req_stop_flag = b
  BY <1>1, <1>2, ConstantTypes DEF Blank
<1>4. boot = "init" /\ pc[Daemon] = "none" /\ \A p \in Pids : ~Alive(p)
  BY ConstantTypes DEF Init, Alive, Sounds
<1>5. Phase = "watching"
  BY <1>4 DEF Phase
<1> QED
  BY <1>3, <1>4, <1>5 DEF Clock!Init

(* The daemon is the alarm clock: it sleeps only when it is armed, plays   *)
(* after waking up and again after each death of the player until it is    *)
(* asked to stop, never two players at once, and goes back to watching     *)
(* only in silence; under the same hypotheses.                             *)
THEOREM ImplementsClockSafety ==
  ASSUME Undisturbed
  PROVE  Spec => Clock!Safety
  BY ClockInit, ClockStep, TypeCorrect, MutexAlways, AloneAlways, PTL DEF Spec, Clock!Safety
=============================================================================
