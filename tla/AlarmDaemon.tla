----------------------------- MODULE AlarmDaemon -----------------------------
(***************************************************************************)
(* The sleep-app daemon (main.c, process.c) and the playback processes it  *)
(* spawns (the process lifecycle of sound.c).                              *)
(*                                                                         *)
(* The daemon runs main(), the main_loop thread (which suspends the        *)
(* machine when it is inactive, and then supervises a playback process),   *)
(* the control_listen thread (which obeys sa-control), and one detached    *)
(* monitor thread per spawned process.  They share one mutex, one          *)
(* condition variable and a few flags.  A child whose exec fails returns   *)
(* from sa_process_create_subprocess like its parent does, so any process  *)
(* may end up running main_loop: the state of that thread is a function of *)
(* the process.                                                            *)
(***************************************************************************)
EXTENDS Naturals

CONSTANTS
    Daemon,     \* the process started by systemd
    Pids,       \* the process ids fork() hands out; they are recycled
    Monitors,   \* slots for monitor threads; they are recycled
    Nobody,     \* no process: the parent of an orphan, an absent socket file
    Tries,      \* attempts to find pulseaudio and to connect: 10 in the code
    Faults,     \* the failures the environment may inject
    Commands,   \* what arrives on the control socket
    Spurious,   \* whether pthread_cond_wait may return without a broadcast
    Patient     \* whether the user disarms only a ringing alarm, and once

Procs == Pids \cup {Daemon}

FaultKinds == {"crash",     \* a playback process dies at any point
               "uid",       \* pulseaudio is not found
               "fork",      \* fork() fails
               "thread",    \* pthread_create() fails
               "exec",      \* the child cannot run the playback program
               "observe",   \* /proc/stat or the X server cannot be read
               "suspend",   \* the RTC or /sys/power/state cannot be written
               "sock",      \* the control socket cannot be opened
               "hangup"}    \* a client leaves without the end-of-data packet

CommandKinds == {"on", "off", "set", "disarm", "bad", "eof"}

ASSUME ProcessAssumption == Daemon \notin Pids /\ Nobody \notin Procs
ASSUME TriesAssumption == Tries \in Nat /\ Tries >= 2
ASSUME ChoiceAssumption == /\ Faults \subseteq FaultKinds
                           /\ Commands \subseteq CommandKinds
                           /\ Spurious \in BOOLEAN
                           /\ Patient \in BOOLEAN

VARIABLES
    proc,       \* what each pid is: a free id, a child, a playback process ...
    parent,     \* who may wait for it
    sock,       \* the process whose socket the playback socket file names
    pc,         \* where the main_loop thread of each process is
    mem,        \* the memory of each process that main_loop uses
    conn,       \* the connection main_loop has to a playback process
    mon,        \* the monitor threads
    ctl, msg,   \* where control_listen is, and the command it has received
    boot,       \* where main() is
    cancel      \* threads of the daemon with a pending pthread_cancel()

vars == <<proc, parent, sock, pc, mem, conn, mon, ctl, msg, boot, cancel>>

-----------------------------------------------------------------------------
(* What the memory holds: the owner of mut_trip.lk, the fields of          *)
(* sa_main_shared_context_t, the locals fin_play and i of                  *)
(* sa_main_req_sound_playback, and mut_trip.pid.                           *)
Memory == [lk : {"none", "loop", "ctl"}, flag : BOOLEAN, req_stop_flag : BOOLEAN,
           act_flag : BOOLEAN, fin_play : BOOLEAN, i : 0..Tries,
           pid : Pids \cup {Nobody}]

Blank == [lk |-> "none", flag |-> FALSE, req_stop_flag |-> FALSE,
          act_flag |-> FALSE, fin_play |-> FALSE, i |-> 0, pid |-> Nobody]

(* main() gives every field a value except req_stop_flag. *)
InitialMemory == {[Blank EXCEPT !.req_stop_flag = b] : b \in BOOLEAN}

ProcStates == {"free", "child", "clone", "exec", "unlinked", "bound", "idle",
               "start", "play", "stop", "zombie"}
LoopStates == {"none", "watch", "suspend", "plock", "uid", "fork", "connect",
               "send", "recv", "wait", "woken", "werr", "perr", "hung",
               "fail", "dead"}
Conn    == [st : {"closed", "open", "sent", "held", "acked", "reset"},
            to : Pids \cup {Nobody}, cmd : {"p", "s"}]
Closed  == [st |-> "closed", to |-> Nobody, cmd |-> "p"]
Monitor == [st : {"free", "start", "wait", "lock"}, sup : Procs,
            pid : Pids \cup {Nobody}]
FreeSlot == [st |-> "free", sup |-> Daemon, pid |-> Nobody]

TypeOK ==
    /\ proc \in [Pids -> ProcStates]
    /\ parent \in [Pids -> Procs \cup {Nobody}]
    /\ sock \in Pids \cup {Nobody}
    /\ pc \in [Procs -> LoopStates]
    /\ mem \in [Procs -> Memory]
    /\ conn \in [Procs -> Conn]
    /\ mon \in [Monitors -> Monitor]
    /\ ctl \in {"none", "init", "accept", "recv", "lock", "cs", "err", "ret", "dead"}
    /\ msg \in CommandKinds
    /\ boot \in {"init", "loop", "join", "joinloop", "exited"}
    /\ cancel \subseteq {"loop", "ctl"}

Init ==
    /\ proc = [p \in Pids |-> "free"]
    /\ parent = [p \in Pids |-> Nobody]
    /\ sock = Nobody
    /\ pc = [s \in Procs |-> "none"]
    /\ \E m \in InitialMemory : mem = [s \in Procs |-> IF s = Daemon THEN m ELSE Blank]
    /\ conn = [s \in Procs |-> Closed]
    /\ mon = [m \in Monitors |-> FreeSlot]
    /\ ctl = "none" /\ msg = "eof" /\ boot = "init" /\ cancel = {}

Running == boot # "exited"
Sounds == {"exec", "unlinked", "bound", "idle", "start", "play", "stop"}

(* listen() has been called and the listening socket is still open.        *)
Listening(p) == proc[p] \in {"idle", "start", "play", "stop"}
Reachable == \E p \in Pids : sock = p /\ Listening(p)

(* Process p ends: whoever is connected to it sees the connection reset;   *)
(* its own memory, threads and connection vanish; its children go to init, *)
(* and it stays a zombie until its own parent waits for it.  c holds the   *)
(* connections as its last act leaves them.                                *)
ExitsLeaving(p, c) ==
    /\ proc' = [q \in Pids |->
                   CASE q = p -> IF parent[p] = Nobody THEN "free" ELSE "zombie"
                     [] q # p /\ parent[q] = p /\ proc[q] = "zombie" -> "free"
                     [] OTHER -> proc[q]]
    /\ parent' = [q \in Pids |-> IF parent[q] = p THEN Nobody ELSE parent[q]]
    /\ conn' = [s \in Procs |->
                   IF s = p THEN Closed
                   ELSE IF c[s].to = p THEN [c[s] EXCEPT !.st = "reset", !.to = Nobody]
                   ELSE c[s]]
    /\ mem' = [mem EXCEPT ![p] = Blank]
    /\ pc' = [pc EXCEPT ![p] = "none"]
    /\ mon' = [m \in Monitors |-> IF mon[m].st # "free" /\ mon[m].sup = p
                                  THEN FreeSlot ELSE mon[m]]
    /\ UNCHANGED <<ctl, msg, boot, cancel>>

Exits(p) == ExitsLeaving(p, conn)

(* The daemon ends: systemd kills what is left of its control group.       *)
DaemonExits ==
    /\ boot' = "exited"
    /\ UNCHANGED <<proc, parent, sock, pc, mem, conn, mon, ctl, msg, cancel>>

SupervisorExits(s) ==
    IF s = Daemon THEN DaemonExits ELSE Exits(s) /\ UNCHANGED sock

At(s, l) == Running /\ pc[s] = l
Goto(s, l) == pc' = [pc EXCEPT ![s] = l]
LockFree(s) == mem[s].lk = "none"
NoEffectOnOthers == UNCHANGED <<proc, parent, sock, mon, ctl, msg, boot, cancel>>

-----------------------------------------------------------------------------
(* sa_main_loop *)

(* A pid that fork() may hand out.  Pids are plenty, so the one of a zombie *)
(* that nobody will ever wait for stands for a fresh one.                  *)
Fresh(p) ==
    \/ proc[p] = "free"
    \/ /\ proc[p] = "zombie" /\ \A s \in Procs : mem[s].pid # p
       /\ \A m \in Monitors : mon[m].pid # p

(* Bound: there are |Pids| processes and |Monitors| monitor threads at a    *)
(* time, so a supervisor starts on a playback process only when there is   *)
(* room for it and its monitor.                                            *)
RoomLeft == /\ \E m \in Monitors : mon[m].st = "free"
            /\ \E p \in Pids : Fresh(p)

(* sa_main_is_inactive reports inactivity and the alarm is armed.          *)
FallAsleep(s) ==
    /\ At(s, "watch") /\ LockFree(s) /\ mem[s].act_flag /\ RoomLeft
    /\ Goto(s, "suspend")
    /\ UNCHANGED <<mem, conn>> /\ NoEffectOnOthers

(* /proc/stat or the X server cannot be read.                              *)
ObserveFails(s) ==
    /\ At(s, "watch") /\ "observe" \in Faults
    /\ Goto(s, "werr")
    /\ UNCHANGED <<mem, conn>> /\ NoEffectOnOthers

(* put_to_wk_sleep writes "mem" and returns once the machine is awake.     *)
Resume(s) ==
    /\ At(s, "suspend")
    /\ Goto(s, "plock")
    /\ UNCHANGED <<mem, conn>> /\ NoEffectOnOthers

(* put_to_wk_sleep ends the process when it cannot set the wake alarm.     *)
SuspendFails(s) ==
    /\ At(s, "suspend") /\ "suspend" \in Faults
    /\ SupervisorExits(s)

-----------------------------------------------------------------------------
(* sa_main_req_sound_playback *)

LockForPlayback(s) ==
    /\ At(s, "plock") /\ LockFree(s)
    /\ mem' = [mem EXCEPT ![s].lk = "loop", ![s].fin_play = FALSE]
    /\ Goto(s, "uid")
    /\ UNCHANGED conn /\ NoEffectOnOthers

(* Attempt n (from 0) is the first to find pulseaudio; n = Tries means     *)
(* that none did.  Success at the last attempt is taken for a failure, and *)
(* failure of all of them for success.                                     *)
FindUid(s) ==
    /\ At(s, "uid")
    /\ \E n \in {0} \cup (IF "uid" \in Faults THEN {Tries - 1, Tries} ELSE {}) :
           Goto(s, IF n = Tries - 1 THEN "perr" ELSE "fork")
    /\ UNCHANGED <<mem, conn>> /\ NoEffectOnOthers

(* sa_process_create_subprocess: a copy of this process and a monitor      *)
(* thread that waits for it; then the first attempt to connect.  Without   *)
(* the monitor (pthread_create failed) the error is reported.              *)
Spawn(s, p, l) ==
    /\ At(s, "fork") /\ Fresh(p)
    /\ proc' = [proc EXCEPT ![p] = "child"]
    /\ parent' = [parent EXCEPT ![p] = s]
    /\ mem' = [mem EXCEPT ![p] = mem[s], ![s].pid = p, ![s].i = 0]
    /\ Goto(s, l)
    /\ UNCHANGED <<sock, conn, ctl, msg, boot, cancel>>

Fork(s, p, m) ==
    /\ mon[m].st = "free"
    /\ Spawn(s, p, "connect")
    /\ mon' = [mon EXCEPT ![m] = [st |-> "start", sup |-> s, pid |-> Nobody]]

(* The error is printed under shared_cntx.stderr_lk, which main() never    *)
(* initialises: locking it works, or never returns.  Then start over.      *)
AfterSpawnError == {"uid", "hung"}

(* Bug: an unchecked pthread_create leaves the child unwatched. *)
ForkUnwatchedIgnored(s, p) == "thread" \in Faults /\ Spawn(s, p, "connect") /\ UNCHANGED mon

ForkUnwatched(s, p) ==
    /\ "thread" \in Faults
    /\ \E l \in AfterSpawnError : Spawn(s, p, l)
    /\ UNCHANGED mon

ForkFails(s) ==
    /\ At(s, "fork") /\ "fork" \in Faults
    /\ \E l \in AfterSpawnError : Goto(s, l)
    /\ UNCHANGED <<mem, conn>> /\ NoEffectOnOthers

-----------------------------------------------------------------------------
(* sa_main_w_play_sock, and what its two callers do with the result        *)

Command(s) == IF mem[s].fin_play THEN "s" ELSE "p"

Connect(s) ==
    /\ At(s, "connect")
    /\ Reachable
    /\ conn' = [conn EXCEPT ![s] = [st |-> "open", to |-> sock, cmd |-> Command(s)]]
    /\ Goto(s, "send")
    /\ UNCHANGED mem /\ NoEffectOnOthers

(* Bug: the attempts are not counted against their limit. *)
ConnectRefusedForever(s) ==
    /\ At(s, "connect") /\ ~Reachable
    /\ mem' = [mem EXCEPT ![s].i = @ + 1]
    /\ UNCHANGED <<pc, conn>> /\ NoEffectOnOthers

(* Refused.  The caller with 'p' tries again, and after the last attempt   *)
(* waits as if it had succeeded; the caller with 's' waits at once.        *)
ConnectRefused(s) ==
    /\ At(s, "connect")
    /\ ~Reachable
    /\ \/ /\ ~mem[s].fin_play /\ mem[s].i + 1 < Tries
          /\ mem' = [mem EXCEPT ![s].i = @ + 1]
          /\ UNCHANGED pc
       \/ /\ mem[s].fin_play \/ mem[s].i + 1 = Tries
          /\ mem' = [mem EXCEPT ![s].lk = "none", ![s].i = IF mem[s].fin_play THEN 0 ELSE Tries]
          /\ Goto(s, "wait")
    /\ UNCHANGED conn /\ NoEffectOnOthers

Send(s) ==
    /\ At(s, "send") /\ conn[s].st = "open"
    /\ conn' = [conn EXCEPT ![s].st = "sent"]
    /\ Goto(s, "recv")
    /\ UNCHANGED mem /\ NoEffectOnOthers

(* The playback process died first: SIGPIPE ends the sender.               *)
SendKills(s) ==
    /\ At(s, "send") /\ conn[s].st = "reset"
    /\ SupervisorExits(s)

(* Bug: the stop is taken as done when it is acknowledged. *)
ReceiveAckEndsPlayback(s) ==
    /\ At(s, "recv") /\ conn[s].st = "acked"
    /\ conn' = [conn EXCEPT ![s] = Closed]
    /\ mem' = [mem EXCEPT ![s].lk = "none", ![s].i = 0, ![s].fin_play = FALSE]
    /\ Goto(s, IF mem[s].fin_play THEN "watch" ELSE "wait")
    /\ NoEffectOnOthers

(* The ACK arrives.  A connection made at the last attempt is taken for a  *)
(* failure; otherwise pthread_cond_wait releases the mutex.                *)
ReceiveAck(s) ==
    /\ At(s, "recv") /\ conn[s].st = "acked"
    /\ conn' = [conn EXCEPT ![s] = Closed]
    /\ IF ~mem[s].fin_play /\ mem[s].i = Tries - 1
       THEN Goto(s, "perr") /\ UNCHANGED mem
       ELSE Goto(s, "wait") /\ mem' = [mem EXCEPT ![s].lk = "none", ![s].i = 0]
    /\ NoEffectOnOthers

(* The playback process died before its ACK. *)
ReceiveNoAck(s) ==
    /\ At(s, "recv") /\ conn[s].st = "reset"
    /\ conn' = [conn EXCEPT ![s] = Closed]
    /\ Goto(s, "perr")
    /\ UNCHANGED mem /\ NoEffectOnOthers

-----------------------------------------------------------------------------
(* sa_main_req_sound_playback: the loop around pthread_cond_wait           *)

SpuriousWakeup(s) ==
    /\ Spurious /\ At(s, "wait")
    /\ Goto(s, "woken")
    /\ UNCHANGED <<mem, conn>> /\ NoEffectOnOthers

(* pthread_cond_wait returns with the mutex held; the mutex is released    *)
(* again with the loop left (FinishPlayback) or the next wait (WaitAgain). *)
Woken(s) == At(s, "woken") /\ LockFree(s)

FinishPlayback(s) ==
    /\ Woken(s) /\ mem[s].fin_play
    /\ mem' = [mem EXCEPT ![s].flag = FALSE, ![s].fin_play = FALSE, ![s].i = 0]
    /\ Goto(s, "watch")
    /\ UNCHANGED conn /\ NoEffectOnOthers

(* Bug: playback restarts with the mutex released. *)
RestartPlaybackUnlocked(s) ==
    /\ Woken(s) /\ ~mem[s].fin_play /\ mem[s].flag /\ RoomLeft
    /\ mem' = [mem EXCEPT ![s].flag = FALSE]
    /\ Goto(s, "uid")
    /\ UNCHANGED conn /\ NoEffectOnOthers

RestartPlayback(s) ==
    /\ Woken(s) /\ ~mem[s].fin_play /\ mem[s].flag /\ RoomLeft
    /\ mem' = [mem EXCEPT ![s].flag = FALSE, ![s].lk = "loop"]
    /\ Goto(s, "uid")
    /\ UNCHANGED conn /\ NoEffectOnOthers

(* Bug: the request is not cleared. *)
StopPlaybackKeepsRequest(s) ==
    /\ Woken(s) /\ ~mem[s].fin_play /\ ~mem[s].flag /\ mem[s].req_stop_flag
    /\ mem' = [mem EXCEPT ![s].fin_play = TRUE, ![s].lk = "loop"]
    /\ Goto(s, "connect")
    /\ UNCHANGED conn /\ NoEffectOnOthers

StopPlayback(s) ==
    /\ Woken(s) /\ ~mem[s].fin_play /\ ~mem[s].flag /\ mem[s].req_stop_flag
    /\ mem' = [mem EXCEPT ![s].req_stop_flag = FALSE, ![s].fin_play = TRUE, ![s].lk = "loop"]
    /\ Goto(s, "connect")
    /\ UNCHANGED conn /\ NoEffectOnOthers

WaitAgain(s) ==
    /\ Woken(s) /\ ~mem[s].fin_play /\ ~mem[s].flag /\ ~mem[s].req_stop_flag
    /\ Goto(s, "wait")
    /\ UNCHANGED <<mem, conn>> /\ NoEffectOnOthers

(* sa_main_set_err cancels control_listen and the thread returns; after a  *)
(* failed observation it first unlocks a mutex it does not hold.  When     *)
(* control_listen is not yet created, or already joined, pthread_cancel is *)
(* undefined: it does nothing, or the process crashes.  A copy of the      *)
(* daemon has no other thread, so the return of this one ends the process. *)
LoopFails(s) ==
    /\ At(s, "werr") \/ At(s, "perr")
    /\ \/ /\ s = Daemon
          /\ Goto(s, "fail")
          /\ mem' = IF pc[s] = "werr" THEN [mem EXCEPT ![s].lk = "none"] ELSE mem
          /\ cancel' = IF boot = "join" THEN cancel \cup {"ctl"} ELSE cancel
          /\ UNCHANGED <<proc, parent, sock, conn, mon, ctl, msg, boot>>
       \/ s = Daemon /\ boot # "join" /\ DaemonExits
       \/ s # Daemon /\ Exits(s) /\ UNCHANGED sock

-----------------------------------------------------------------------------
(* The child of fork() *)

(* execve replaces the memory of the child.                                *)
ChildExecs(p) ==
    /\ Running /\ proc[p] = "child"
    /\ proc' = [proc EXCEPT ![p] = "exec"]
    /\ mem' = [mem EXCEPT ![p] = Blank]
    /\ UNCHANGED <<parent, sock, pc, conn, mon, ctl, msg, boot, cancel>>

(* sa_process_fake_env finds no environment (the pulseaudio process ended  *)
(* or was never found) or execve fails: the child returns the error into   *)
(* its copy of sa_main_req_sound_playback.                                 *)
ChildFails(p) ==
    /\ Running /\ proc[p] = "child" /\ Faults \cap {"uid", "exec"} # {}
    /\ proc' = [proc EXCEPT ![p] = "clone"]
    /\ \E l \in AfterSpawnError : Goto(p, l)
    /\ UNCHANGED <<parent, sock, mem, conn, mon, ctl, msg, boot, cancel>>

-----------------------------------------------------------------------------
(* sa_process_monitor *)

ChildOf(s, p) == p \in Pids /\ proc[p] # "free" /\ parent[p] = s

(* Bug: the thread may run before mut_trip.pid is set, and waits in vain. *)
MonitorStartsEarly(m) ==
    /\ Running /\ mon[m].st = "start"
    /\ mon' = [mon EXCEPT ![m].st = "lock"]
    /\ UNCHANGED <<proc, parent, sock, pc, mem, conn, ctl, msg, boot, cancel>>

(* mut_trip.pid is read when the thread first runs; waitpid on a process   *)
(* that is no child fails at once.                                         *)
MonitorStarts(m) ==
    /\ Running /\ mon[m].st = "start"
    /\ LET s == mon[m].sup
           p == mem[s].pid
       IN mon' = IF ChildOf(s, p)
                 THEN [mon EXCEPT ![m].st = "wait", ![m].pid = p]
                 ELSE [mon EXCEPT ![m].st = "lock", ![m].pid = Nobody]
    /\ UNCHANGED <<proc, parent, sock, pc, mem, conn, ctl, msg, boot, cancel>>

(* Bug: waitpid does not block (WNOHANG). *)
MonitorReapsEarly(m) ==
    /\ Running /\ mon[m].st = "wait"
    /\ mon' = [mon EXCEPT ![m].st = "lock", ![m].pid = Nobody]
    /\ UNCHANGED <<proc, parent, sock, pc, mem, conn, ctl, msg, boot, cancel>>

(* One waitpid gets the status; any other on the same child fails.         *)
MonitorReaps(m) ==
    /\ Running /\ mon[m].st = "wait" /\ proc[mon[m].pid] = "zombie"
    /\ proc' = [proc EXCEPT ![mon[m].pid] = "free"]
    /\ parent' = [parent EXCEPT ![mon[m].pid] = Nobody]
    /\ mon' = [n \in Monitors |->
                  IF mon[n].st = "wait" /\ mon[n].pid = mon[m].pid
                  THEN [mon[n] EXCEPT !.st = "lock", !.pid = Nobody] ELSE mon[n]]
    /\ UNCHANGED <<sock, pc, mem, conn, ctl, msg, boot, cancel>>

(* Bugs: the monitor broadcasts without the flag, or the flag without a    *)
(* broadcast.                                                              *)
MonitorSignalsNoFlag(m) ==
    /\ Running /\ mon[m].st = "lock" /\ LockFree(mon[m].sup)
    /\ IF pc[mon[m].sup] = "wait" THEN Goto(mon[m].sup, "woken") ELSE UNCHANGED pc
    /\ mon' = [mon EXCEPT ![m] = FreeSlot]
    /\ UNCHANGED <<proc, parent, sock, mem, conn, ctl, msg, boot, cancel>>

MonitorSignalsSilently(m) ==
    /\ Running /\ mon[m].st = "lock" /\ LockFree(mon[m].sup)
    /\ mem' = [mem EXCEPT ![mon[m].sup].flag = TRUE]
    /\ mon' = [mon EXCEPT ![m] = FreeSlot]
    /\ UNCHANGED <<proc, parent, sock, pc, conn, ctl, msg, boot, cancel>>

MonitorSignals(m) ==
    /\ Running /\ mon[m].st = "lock"
    /\ LET s == mon[m].sup
       IN /\ LockFree(s)
          /\ mem' = [mem EXCEPT ![s].flag = TRUE]
          /\ pc' = IF pc[s] = "wait" THEN [pc EXCEPT ![s] = "woken"] ELSE pc
    /\ mon' = [mon EXCEPT ![m] = FreeSlot]
    /\ UNCHANGED <<proc, parent, sock, conn, ctl, msg, boot, cancel>>

-----------------------------------------------------------------------------
(* The playback process (main() of sound.c)                                *)

SoundStep(p, from, to) ==
    /\ Running /\ proc[p] = from
    /\ proc' = [proc EXCEPT ![p] = to]
    /\ UNCHANGED <<parent, pc, mem, mon, ctl, msg, boot, cancel>>

Unlink(p) == SoundStep(p, "exec", "unlinked") /\ sock' = Nobody /\ UNCHANGED conn

Bind(p) == SoundStep(p, "unlinked", "bound") /\ sock = Nobody /\ sock' = p /\ UNCHANGED conn

(* bind() fails: another playback process has made the file in between.    *)
BindFails(p) == Running /\ proc[p] = "unlinked" /\ sock # Nobody /\ Exits(p) /\ UNCHANGED sock

Listen(p) == SoundStep(p, "bound", "idle") /\ UNCHANGED <<sock, conn>>

Sent(s, p, c) == conn[s].st = "sent" /\ conn[s].to = p /\ conn[s].cmd = c
Acked(s) == [conn EXCEPT ![s].st = "acked", ![s].to = Nobody]

(* 'p': start playback, and acknowledge once PulseAudio is ready.          *)
ServePlay(p, s) ==
    /\ SoundStep(p, "idle", "start") /\ Sent(s, p, "p")
    /\ conn' = [conn EXCEPT ![s].st = "held"]
    /\ UNCHANGED sock

PlaybackReady(p, s) ==
    /\ SoundStep(p, "start", "play") /\ conn[s].st = "held" /\ conn[s].to = p
    /\ conn' = Acked(s)
    /\ UNCHANGED sock

(* 'p' while playing: "Error main(): Signal order.", exit(1).              *)
ServePlayTwice(p, s) ==
    /\ Running /\ proc[p] = "play" /\ Sent(s, p, "p")
    /\ Exits(p) /\ UNCHANGED sock

(* 's' while playing: acknowledge, then stop PulseAudio.                   *)
ServeStop(p, s) ==
    /\ SoundStep(p, "play", "stop") /\ Sent(s, p, "s")
    /\ conn' = Acked(s)
    /\ UNCHANGED sock

(* 's' before any 'p': acknowledge, then abort on a main loop that is NULL. *)
ServeStopIdle(p, s) ==
    /\ Running /\ proc[p] = "idle" /\ Sent(s, p, "s")
    /\ ExitsLeaving(p, Acked(s)) /\ UNCHANGED sock

(* Playback has stopped: unlink the socket file, whoever owns it, and end. *)
SoundFinishes(p) ==
    /\ Running /\ proc[p] = "stop"
    /\ Exits(p) /\ sock' = Nobody

(* Any of the other exits of sound.c, or a crash.                          *)
SoundCrashes(p) ==
    /\ Running /\ "crash" \in Faults /\ proc[p] \in Sounds
    /\ Exits(p) /\ UNCHANGED sock

-----------------------------------------------------------------------------
(* sa_main_listen_on_control *)

CtlAt(l) == Running /\ ctl = l
CtlGoto(l) == ctl' = l /\ UNCHANGED <<proc, parent, sock, pc, conn, mon, boot>>

(* unlink, socket, bind and listen.                                        *)
CtlListens ==
    /\ CtlAt("init")
    /\ CtlGoto("accept") \/ ("sock" \in Faults /\ CtlGoto("err"))
    /\ UNCHANGED <<mem, msg, cancel>>

CtlAccepts == CtlAt("accept") /\ CtlGoto("recv") /\ UNCHANGED <<mem, msg, cancel>>

(* The alarm is heard. *)
Audible == /\ pc[Daemon] = "wait" /\ ~mem[Daemon].fin_play
           /\ mem[Daemon].pid # Nobody /\ proc[mem[Daemon].pid] = "play"

CtlReceives ==
    /\ CtlAt("recv")
    /\ \E c \in Commands :
          /\ c = "disarm" /\ Patient => Audible
          /\ msg' = c
          /\ CtlGoto(IF c = "eof" THEN "accept" ELSE "lock")
    /\ UNCHANGED <<mem, cancel>>

(* recv returns fewer bytes than a packet: the client is gone.             *)
CtlHangup == "hangup" \in Faults /\ CtlAt("recv") /\ CtlGoto("err") /\ UNCHANGED <<mem, msg, cancel>>

(* Bug: an error does not cancel the other thread. *)
CtlFailsAlone == CtlAt("err") /\ CtlGoto("ret") /\ UNCHANGED <<mem, msg, cancel>>

CtlFails ==
    /\ CtlAt("err") /\ CtlGoto("ret")
    /\ cancel' = cancel \cup {"loop"}
    /\ UNCHANGED <<mem, msg>>

(* sa_main_decode_control_buf: one critical section.                       *)
CtlLocks ==
    /\ CtlAt("lock") /\ LockFree(Daemon)
    /\ CtlGoto("cs")
    /\ mem' = [mem EXCEPT ![Daemon].lk = "ctl"]
    /\ UNCHANGED <<msg, cancel>>

(* Bug: a disarm without a broadcast. *)
CtlDecodesSilently ==
    /\ CtlAt("cs") /\ CtlGoto("recv")
    /\ mem' = [mem EXCEPT ![Daemon].lk = "none",
                          ![Daemon].act_flag = (msg = "on") \/ (@ /\ msg # "off"),
                          ![Daemon].req_stop_flag = @ \/ msg = "disarm"]
    /\ msg' = "eof"
    /\ UNCHANGED cancel

CtlDecodes ==
    /\ CtlAt("cs")
    /\ ctl' = IF msg = "bad" THEN "ret" ELSE "recv"
    /\ mem' = [mem EXCEPT ![Daemon].lk = "none",
                          ![Daemon].act_flag = (msg = "on") \/ (@ /\ msg # "off"),
                          ![Daemon].req_stop_flag = @ \/ msg = "disarm"]
    /\ pc' = IF msg = "disarm" /\ pc[Daemon] = "wait"
             THEN [pc EXCEPT ![Daemon] = "woken"] ELSE pc
    /\ cancel' = IF msg = "bad" THEN cancel \cup {"loop"} ELSE cancel
    /\ msg' = "eof"
    /\ UNCHANGED <<proc, parent, sock, conn, mon, boot>>

-----------------------------------------------------------------------------
(* main(), and pthread_cancel taking effect (both threads of the daemon    *)
(* are cancellable asynchronously, and unlock nothing on their way out)    *)

BootFrame == UNCHANGED <<proc, parent, sock, mem, conn, mon, msg, cancel>>

CreateLoop ==
    /\ boot = "init" /\ boot' = "loop" /\ Goto(Daemon, "watch")
    /\ UNCHANGED ctl /\ BootFrame

CreateControl ==
    /\ boot = "loop" /\ boot' = "join" /\ ctl' = "init"
    /\ UNCHANGED pc /\ BootFrame

CreateFails ==
    /\ boot \in {"init", "loop"} /\ "thread" \in Faults
    /\ DaemonExits

JoinControl ==
    /\ boot = "join" /\ ctl \in {"ret", "dead"} /\ boot' = "joinloop"
    /\ UNCHANGED <<pc, ctl>> /\ BootFrame

JoinLoop ==
    /\ boot = "joinloop" /\ pc[Daemon] \in {"fail", "dead"}
    /\ DaemonExits

(* Cancelled in pthread_cond_wait, a thread first regains the mutex.       *)
LoopCancelled ==
    /\ Running /\ "loop" \in cancel /\ pc[Daemon] \notin {"fail", "dead"}
    /\ IF pc[Daemon] \in {"wait", "woken"}
       THEN LockFree(Daemon) /\ mem' = [mem EXCEPT ![Daemon].lk = "loop"]
       ELSE UNCHANGED mem
    /\ Goto(Daemon, "dead")
    /\ cancel' = cancel \ {"loop"}
    /\ UNCHANGED <<proc, parent, sock, conn, mon, ctl, msg, boot>>

CtlCancelled ==
    /\ "ctl" \in cancel /\ Running /\ ctl \notin {"none", "ret", "dead"}
    /\ CtlGoto("dead")
    /\ cancel' = cancel \ {"ctl"}
    /\ UNCHANGED <<mem, msg>>

Terminated == boot = "exited" /\ UNCHANGED vars

-----------------------------------------------------------------------------
(* The next-state relation, by the thread that takes the step.             *)

LoopStep(s) ==
    \/ Resume(s) \/ LockForPlayback(s) \/ FindUid(s)
    \/ \E p \in Pids, m \in Monitors : Fork(s, p, m)
    \/ Connect(s) \/ ConnectRefused(s) \/ Send(s) \/ SendKills(s)
    \/ ReceiveAck(s) \/ ReceiveNoAck(s)
    \/ FinishPlayback(s) \/ RestartPlayback(s) \/ StopPlayback(s) \/ WaitAgain(s)
    \/ LoopFails(s)

LoopEnv(s) ==
    \/ FallAsleep(s) \/ ObserveFails(s) \/ SuspendFails(s) \/ ForkFails(s)
    \/ SpuriousWakeup(s)
    \/ \E p \in Pids : ForkUnwatched(s, p)

MonitorStep(m) == MonitorStarts(m) \/ MonitorReaps(m) \/ MonitorSignals(m)

ProcStep(p) ==
    \/ ChildExecs(p) \/ Unlink(p) \/ Bind(p) \/ BindFails(p) \/ Listen(p) \/ SoundFinishes(p)
    \/ \E s \in Procs : \/ ServePlay(p, s) \/ PlaybackReady(p, s) \/ ServePlayTwice(p, s)
                        \/ ServeStop(p, s) \/ ServeStopIdle(p, s)

ProcEnv(p) == ChildFails(p) \/ SoundCrashes(p)

ControlStep == CtlListens \/ CtlFails \/ CtlLocks \/ CtlDecodes
ControlEnv  == CtlAccepts \/ CtlReceives \/ CtlHangup

BootStep == CreateLoop \/ CreateControl \/ JoinControl \/ JoinLoop

Next ==
    \/ \E s \in Procs : LoopStep(s) \/ LoopEnv(s)
    \/ \E m \in Monitors : MonitorStep(m)
    \/ \E p \in Pids : ProcStep(p) \/ ProcEnv(p)
    \/ ControlStep \/ ControlEnv
    \/ BootStep \/ CreateFails \/ LoopCancelled \/ CtlCancelled
    \/ Terminated

Spec == Init /\ [][Next]_vars

(* Every thread runs, and one that keeps finding the mutex free gets it.   *)
(* What the environment does (inactivity, commands, faults) is not fair.   *)
Fairness ==
    /\ \A s \in Procs : SF_vars(LoopStep(s))
    /\ \A m \in Monitors : SF_vars(MonitorStep(m))
    /\ \A p \in Pids : WF_vars(ProcStep(p))
    /\ SF_vars(ControlStep)
    /\ WF_vars(BootStep) /\ SF_vars(LoopCancelled) /\ WF_vars(CtlCancelled)

FairSpec == Spec /\ Fairness

-----------------------------------------------------------------------------
(* Safety *)

Critical == {"uid", "fork", "connect", "send", "recv", "perr", "hung"}

(* The mutex guards what it is there for: main_loop holds it from the lock *)
(* in sa_main_req_sound_playback to pthread_cond_wait, across fork() and   *)
(* even in a copy of the process, and control_listen never decodes a       *)
(* command meanwhile, although a failing observation unlocks a mutex that  *)
(* it does not own (main.c:487).                                           *)
MutualExclusion ==
    /\ \A s \in Procs : pc[s] \in Critical => mem[s].lk = "loop"
    /\ ctl = "cs" => pc[Daemon] \notin Critical

(* What makes it so: control_listen does not run before main() creates it; *)
(* only the daemon and copies of it run main_loop; a child is born with    *)
(* the mutex held, since its parent held it; and control_listen holds it   *)
(* to decode a command, unless main_loop, failing, took it away.           *)
MutexInvariant ==
    /\ boot \in {"init", "loop"} => ctl = "none"
    /\ \A p \in Pids : /\ pc[p] # "none" => proc[p] = "clone"
                       /\ proc[p] = "child" => mem[p].lk = "loop"
    /\ \A s \in Procs : pc[s] \in Critical => mem[s].lk = "loop"
    /\ ctl = "cs" => mem[Daemon].lk = "ctl" \/ pc[Daemon] = "fail"

(* A monitor will yet report the death of the current playback process.    *)
Watched(s) == \E m \in Monitors : /\ mon[m].st # "free" /\ mon[m].sup = s
                                  /\ mon[m].st = "wait" => mon[m].pid = mem[s].pid

(* Whenever main_loop is about to wait, or waits, a monitor thread exists  *)
(* that will set the flag and wake it when the playback process dies, even *)
(* if that already happened; so a dead alarm is never waited for in vain.  *)
DeathWillBeNoticed ==
    \A s \in Procs :
        /\ pc[s] \in {"connect", "send", "recv", "wait"} => Watched(s)
        /\ pc[s] = "woken" => mem[s].flag \/ Watched(s)

Alive(p) == p \in Pids /\ proc[p] \in Sounds \cup {"child"}

(* At most one playback process runs at a time (sound.c relies on it: each *)
(* unlinks the playback socket when it starts and when it ends).           *)
OneSound == \A p, q \in Pids : Alive(p) /\ Alive(q) => p = q

(* When main_loop starts playback again "bc sound proc died" (main.c:447), *)
(* the playback process it had started is dead.                            *)
RestartMeansDied ==
    [][\A s \in Procs : pc[s] = "woken" /\ pc'[s] = "uid" => ~Alive(mem[s].pid)]_vars

(* When main_loop goes back to watching for inactivity "after normal       *)
(* termination" of the playback process (main.c:439), it is dead.          *)
FinishMeansDied ==
    [][\A s \in Procs : pc[s] = "woken" /\ pc'[s] = "watch" => ~Alive(mem[s].pid)]_vars

(* A playback process that was started is left only when it is dead.       *)
LeavingMeansDied ==
    [][\A s \in Procs : pc[s] = "woken" /\ pc'[s] \in {"uid", "watch"}
                        => ~Alive(mem[s].pid)]_vars

(* They hold as long as no wait ends without reason, each child is watched *)
(* and runs the playback program, and the user disarms only an alarm that  *)
(* he hears (the findings show what happens otherwise).                    *)
Undisturbed == Patient /\ ~Spurious /\ Faults \cap {"uid", "thread", "exec"} = {}

(* What makes them so.  Only the daemon runs main_loop, and what is alive  *)
(* is the child it has started last; before the next one it is dead, its   *)
(* monitor has reported that and is gone, and the report has been read.    *)
Quiet == {"none", "watch", "suspend", "plock", "uid", "fork"}
Busy(m) == mon[m].st # "free"
NoneLeft == (\A p \in Pids : ~Alive(p)) /\ (\A m \in Monitors : ~Busy(m))
OneChild ==
    /\ \A p \in Pids : proc[p] # "clone"
    /\ \A p \in Pids : Alive(p) => p = mem[Daemon].pid /\ parent[p] = Daemon
    /\ pc[Daemon] \in Quiet => NoneLeft /\ ~mem[Daemon].flag
    /\ mem[Daemon].flag => NoneLeft
OneMonitor ==
    /\ \A m, n \in Monitors : Busy(m) /\ Busy(n) => m = n
    /\ \A m \in Monitors : Busy(m) => mon[m].sup = Daemon
    /\ \A m \in Monitors : mon[m].st = "wait" => mon[m].pid = mem[Daemon].pid
    /\ \A m \in Monitors : mon[m].st = "lock" => \A p \in Pids : ~Alive(p)

(* main_loop wakes up because the playback process died or because it is   *)
(* to be stopped, and no disarm is under way when it is being stopped.     *)
Disarming == ctl \in {"lock", "cs"} /\ msg = "disarm"
WokenForAReason ==
    /\ pc[Daemon] = "woken" => \/ mem[Daemon].flag
                               \/ ~mem[Daemon].fin_play /\ mem[Daemon].req_stop_flag /\ ~Disarming
    /\ Disarming => \/ pc[Daemon] \in {"perr", "hung", "fail", "dead"}
                    \/ /\ pc[Daemon] \in {"uid", "fork", "connect", "send", "recv", "wait", "woken"}
                       /\ ~mem[Daemon].fin_play
    /\ pc[Daemon] \in {"uid", "fork"} => ~mem[Daemon].fin_play

(* Until main() creates it, main_loop does nothing and is not cancelled.   *)
Booting == boot = "init" => pc[Daemon] = "none" /\ cancel = {}

(* Giving up on the playback process is reported as an error               *)
(* ("Multiple failed connects", main.c:427), never by waiting for it.      *)
GiveUpReported == \A s \in Procs : ~(pc[s] = "wait" /\ mem[s].i = Tries)

(* A child that cannot run the playback program exits (process.c:198).     *)
ChildRunsOrExits == \A p \in Pids : proc[p] # "clone"

-----------------------------------------------------------------------------
(* Liveness *)

(* An alarm that dies while it rings does not leave main_loop waiting.     *)
DeathEndsWait ==
    \A p \in Pids :
        (pc[Daemon] = "wait" /\ mem[Daemon].pid = p /\ proc[p] = "zombie")
            ~> pc[Daemon] # "wait"

(* Once both threads exist, an error in either ends the program: each      *)
(* cancels the other, and main() joins both, whoever held the mutex.       *)
ErrorLeadsToExit ==
    (boot \in {"join", "joinloop"} /\ (pc[Daemon] \in {"werr", "perr"} \/ ctl = "err"))
        ~> boot = "exited"

(* "Disarm the alarm" (main.c:95): when a disarm is decoded once the       *)
(* machine has resumed, just before main_loop starts playback, the alarm   *)
(* is not heard for ever with the request still standing.                  *)
DisarmHeard ==
    [](ctl = "cs" /\ msg = "disarm" /\ pc[Daemon] = "plock"
          => []<>~(Audible /\ mem[Daemon].req_stop_flag))

(* A disarm received while the alarm is heard stops the playback process   *)
(* and takes main_loop back to watching for inactivity, unless the player  *)
(* dies first, when another one is started, or the program ends.           *)
DisarmStops ==
    (Audible /\ ctl = "lock" /\ msg = "disarm")
        ~> \/ pc[Daemon] = "watch" /\ \A p \in Pids : ~Alive(p)
           \/ pc[Daemon] = "uid"
           \/ boot = "exited"

-----------------------------------------------------------------------------
(* The alarm clock the daemon implements                                   *)

Phase ==
    CASE boot = "exited" \/ pc[Daemon] \in {"fail", "dead"} -> "down"
      [] boot # "exited" /\ pc[Daemon] \in {"none", "watch", "werr"} -> "watching"
      [] boot # "exited" /\ pc[Daemon] \in {"suspend", "plock"} -> "asleep"
      [] OTHER -> IF mem[Daemon].fin_play THEN "silencing" ELSE "ringing"

Clock == INSTANCE AlarmClock WITH
             phase <- Phase,
             armed <- mem[Daemon].act_flag,
             asked <- mem[Daemon].req_stop_flag,
             alive <- \E p \in Pids : Alive(p)

(* As long as nobody asks twice, the daemon is an alarm clock: it plays    *)
(* until asked to stop, again after each death of the player, and rests    *)
(* only in silence.                                                        *)
ImplementsClock == Clock!Spec
=============================================================================
