------------------------------ MODULE Inactivity ------------------------------
(***************************************************************************)
(* sa_main_is_inactive of main.c, as main_loop calls it over and over: the *)
(* load of the processor between two readings of /proc/stat, sleep_time    *)
(* seconds apart, and the idle time of the X server decide whether the     *)
(* user is away.  Command 03 of control_listen sets sleep_time.            *)
(* SleepCycle composes these steps with those of WakeAlarm, which the same *)
(* thread takes when it has found the user away.                           *)
(*                                                                         *)
(* The interval reaches usleep as sleep_time * 1000000 in an int; Word is  *)
(* the number of values of that type and Micro the factor.  The processor, *)
(* the X server and the user are outside src/.                             *)
(***************************************************************************)
EXTENDS Integers

CONSTANTS Intervals,         \* the values of sleep_time that are used
          Micro, Word,       \* 1000000 and 2^32 in the code
          CutNum, CutDen,    \* usage_cutoff as a fraction, 3/100 in the code
          MaxWindow,         \* bound: seconds between two readings
          MaxIdle            \* bound: seconds the X server counts to

ASSUME IntervalAssumption ==
  /\ Intervals \subseteq Nat /\ Intervals /= {}
  /\ Micro \in Nat \ {0} /\ Word \in Nat \ {0}
  /\ CutNum \in Nat /\ CutDen \in Nat \ {0}
  /\ MaxWindow \in Nat /\ MaxIdle \in Nat

VARIABLES pc,           \* of main_loop: "sample", "sleep", "query", "lock", "failed" here
          sleep_time,   \* shared with control_listen
          pause,        \* seconds usleep was told to wait
          busy, total,  \* processor time since the first reading
          load,         \* the two as read at the second reading
          idle,         \* seconds since the last input, in the X server
          x11_idle,     \* the same as queried
          gone          \* has the user left for good, and with him all work?

observation == <<sleep_time, pause, busy, total, load, idle, x11_idle, gone>>

InitObservation ==
  /\ pc = "sample" /\ sleep_time \in Intervals
  /\ pause = 0 /\ busy = 0 /\ total = 0 /\ load = <<0, 0>>
  /\ idle = 0 /\ x11_idle = 0 /\ gone = FALSE

\* Command 03.  Bound: the user changes the interval, and leaves, while he
\* is being observed; at other times nothing looks.
Observing == pc \in {"sample", "sleep", "query", "lock"}
SetInterval(s) ==
  /\ Observing
  /\ sleep_time' = s
  /\ UNCHANGED <<pc, pause, busy, total, load, idle, x11_idle, gone>>

\* The argument of usleep, back in seconds: the product wraps.
Pause(s) == ((s * Micro) % Word) \div Micro

\* The first reading of /proc/stat, and the call of usleep; sleep_time is
\* read without the mutex.
FirstSample ==
  /\ pc = "sample"
  /\ busy' = 0 /\ total' = 0
  /\ pause' = Pause(sleep_time)
  /\ pc' = "sleep"
  /\ UNCHANGED <<sleep_time, load, idle, x11_idle, gone>>

\* usleep returns, not too early; the second reading.
SecondSample ==
  /\ pc = "sleep" /\ total >= pause
  /\ load' = <<busy, total>>
  /\ busy' = 0 /\ total' = 0 /\ pause' = 0
  /\ pc' = "query"
  /\ UNCHANGED <<sleep_time, idle, x11_idle, gone>>

QueryIdleTime ==
  /\ pc = "query"
  /\ x11_idle' = idle
  /\ pc' = "lock"
  /\ UNCHANGED <<sleep_time, pause, busy, total, load, idle, gone>>

\* No time between the readings makes the load not a number, and no
\* comparison with it is true.  (The kernel counts in hundredths of a second;
\* a second of total stands for the least that it counts.)
LoadIsLow == load[2] > 0 /\ load[1] * CutDen < CutNum * load[2]

\* Bug: the limit is in milliseconds, the idle time in seconds.
BugIsInactive == x11_idle > sleep_time * 1000 /\ LoadIsLow
\* The comparison, under the mutex, with the sleep_time of now.
IsInactive == x11_idle > sleep_time /\ LoadIsLow

\* The locals are gone when sa_main_is_inactive has returned.
Forget == load' = <<0, 0>> /\ x11_idle' = 0

\* /proc/stat or the X server cannot be read: the thread ends.
ObserveFails ==
  /\ pc \in {"sample", "sleep", "query"}
  /\ pc' = "failed"
  /\ UNCHANGED observation

\* A second passes while the thread sleeps: the processor works or not, the
\* user is there or not.
Second(works, input) ==
  /\ pc = "sleep" /\ total < MaxWindow
  /\ gone => ~works /\ ~input
  /\ total' = total + 1
  /\ busy' = IF works THEN busy + 1 ELSE busy
  /\ idle' = IF input THEN 0 ELSE IF idle < MaxIdle THEN idle + 1 ELSE idle
  /\ UNCHANGED <<pc, sleep_time, pause, load, x11_idle, gone>>

UserLeaves ==
  /\ Observing /\ ~gone
  /\ gone' = TRUE
  /\ UNCHANGED <<pc, sleep_time, pause, busy, total, load, idle, x11_idle>>

TypeOKObservation ==
  /\ sleep_time \in Intervals
  /\ pause \in Nat
  /\ total \in 0..MaxWindow /\ busy \in 0..total
  /\ load[1] \in 0..load[2] /\ load[2] \in 0..MaxWindow
  /\ idle \in 0..MaxIdle /\ x11_idle \in 0..MaxIdle
  /\ gone \in BOOLEAN
=============================================================================
