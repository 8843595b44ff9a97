------------------------------- MODULE WakeAlarm -------------------------------
(***************************************************************************)
(* From the decision to sleep to the alarm: main_loop (main.c) decides     *)
(* under the mutex, unlocks it, reads tm_hour and tm_min, and              *)
(* put_to_wk_sleep (sleep.c) computes the seconds to that time, sets the   *)
(* wake alarm of the real-time clock and suspends the machine.  Meanwhile  *)
(* control_listen may store a new time.  The clocks and the suspend belong *)
(* to the kernel.                                                          *)
(*                                                                         *)
(* Time is the local time of day in seconds; a day has Hours hours of      *)
(* Minutes minutes of Seconds seconds, 24, 60 and 60 in the code.          *)
(***************************************************************************)
EXTENDS Inactivity, FiniteSets

CONSTANTS Hours, Minutes, Seconds,
          MaxSlip,     \* bound: seconds that pass from the look at the clock to the suspend
          Disturbances \* what else happens, of Kinds

Kinds == {"late",      \* commands arrive between the decision and the suspend
          "summer",    \* the local time jumps by an hour during the sleep
          "refused",   \* the kernel refuses to suspend
          "woken",     \* the user wakes the machine
          "broken"}    \* a system call fails

ASSUME ClockAssumption ==
  /\ Hours \in Nat \ {0} /\ Minutes \in Nat \ {0} /\ Seconds \in Nat \ {0}
  /\ MaxSlip \in Nat
  /\ Disturbances \subseteq Kinds

VARIABLES tod,        \* the local time of day
          tm_hour, tm_min, act_flag,   \* shared with control_listen
          ctl,        \* the SET TIME being decoded: the minute still to store, or Done
          h, m,       \* the arguments of put_to_wk_sleep
          t_diff,     \* seconds to the wake time
          rtc,        \* seconds until the wake alarm fires, or Off
          slip,       \* seconds since put_to_wk_sleep looked at the clock
          wishes,     \* history: the time set at the decision, and those set since
          disturbed   \* history: was this sleep cut short, or the clock moved?

night == <<tod, tm_hour, tm_min, act_flag, ctl, h, m, t_diff, rtc, slip, wishes, disturbed>>
shared == <<tm_hour, tm_min, act_flag, ctl>>
vars == <<pc, observation, night>>

Done == -1
Unread == -1
Off == -1

Hour == Minutes * Seconds
Day == Hours * Hour
Times == (0..(Hours - 1)) \X (0..(Minutes - 1))
Tod(hh, mm, ss) == hh * Hour + mm * Seconds + ss

InitNight ==
  /\ tod \in 0..(Day - 1)
  /\ tm_hour \in 0..(Hours - 1) /\ tm_min \in 0..(Minutes - 1)
  /\ act_flag = TRUE /\ ctl = Done
  /\ h = Unread /\ m = Unread /\ t_diff = 0 /\ rtc = Off /\ slip = 0
  /\ wishes = {} /\ disturbed = FALSE

\* Awake the thread takes next to no time; only the steps of
\* put_to_wk_sleep between two looks at the clock are timed.
Working == pc \in {"read", "computed", "armed"}

\* Bound: of the commands that arrive before the decision those before the
\* first reading stand for all, because nothing reads what they set without
\* the mutex; after the decision one new time is set.
Early == pc = "sample" /\ ctl = Done
Late == "late" \in Disturbances /\ Working /\ ctl = Done

\* Command 00, under the mutex: while main_loop holds it or does not look,
\* one step; else two stores to volatile fields.
SetTime(hh, mm) ==
  /\ Early
  /\ tm_hour' = hh /\ tm_min' = mm
  /\ UNCHANGED <<pc, observation, tod, act_flag, ctl, h, m, t_diff, rtc, slip, wishes, disturbed>>
SetHour(hh, mm) ==
  /\ Late /\ Cardinality(wishes) < 2
  /\ tm_hour' = hh /\ ctl' = mm
  /\ wishes' = wishes \cup {<<hh, mm>>}
  /\ UNCHANGED <<pc, observation, tod, tm_min, act_flag, h, m, t_diff, rtc, slip, disturbed>>
SetMinute ==
  /\ ctl /= Done /\ pc /= "asleep"
  /\ tm_min' = ctl /\ ctl' = Done
  /\ UNCHANGED <<pc, observation, tod, tm_hour, act_flag, h, m, t_diff, rtc, slip, wishes, disturbed>>

\* Commands 01 and 02.
SetActive(on) ==
  /\ Early \/ Late
  /\ act_flag' = on
  /\ UNCHANGED <<pc, observation, tod, tm_hour, tm_min, ctl, h, m, t_diff, rtc, slip, wishes, disturbed>>

\* The result of sa_main_is_inactive and the activation are looked at under
\* the mutex, which is then released: sleep, or observe again.
Decide ==
  /\ pc = "lock" /\ ctl = Done
  /\ LET sleeps == IsInactive /\ act_flag
     IN  /\ pc' = IF sleeps THEN "read" ELSE "sample"
         /\ wishes' = IF sleeps THEN {<<tm_hour, tm_min>>} ELSE {}
  /\ Forget
  /\ UNCHANGED <<sleep_time, pause, busy, total, idle, gone>>
  /\ UNCHANGED <<tod, shared, h, m, t_diff, rtc, slip, disturbed>>

\* The arguments are evaluated in the order the compiler likes.
ReadHour ==
  /\ pc = "read" /\ h = Unread
  /\ h' = tm_hour
  /\ UNCHANGED <<pc, observation, tod, shared, m, t_diff, rtc, slip, wishes, disturbed>>
ReadMinute ==
  /\ pc = "read" /\ m = Unread
  /\ m' = tm_min
  /\ UNCHANGED <<pc, observation, tod, shared, h, t_diff, rtc, slip, wishes, disturbed>>

\* mktime on today's date with the hour and the minute replaced, and the
\* seconds and the summer time flag of now.
TimeDiff == Tod(h, m, tod % Seconds) - tod

\* Bug: a time that is past is moved on by an hour only.
BugWait(diff) == IF diff < 0 THEN diff + Hour ELSE diff
\* "Time difference is negative. Setting for next day."
Wait(diff) == IF diff < 0 THEN diff + Day ELSE diff

ComputeDiff ==
  /\ pc = "read" /\ h /= Unread /\ m /= Unread
  /\ t_diff' = Wait(TimeDiff)
  /\ pc' = "computed" /\ h' = Unread /\ m' = Unread
  /\ UNCHANGED <<observation, tod, shared, rtc, slip, wishes, disturbed>>

\* Bug: enabled is not set.
BugSetAlarm ==
  /\ pc = "computed"
  /\ rtc' = Off
  /\ pc' = "armed"
  /\ UNCHANGED <<observation, tod, shared, h, m, t_diff, slip, wishes, disturbed>>
\* sa_rtc_set_wkalm_from_sec counts from its own look at the clock.  The
\* kernel takes an alarm that is not in the future as fired: it may wake the
\* machine at once or not at all.
SetAlarm ==
  /\ pc = "computed"
  /\ rtc' = t_diff
  /\ pc' = "armed"
  /\ UNCHANGED <<observation, tod, shared, h, m, t_diff, slip, wishes, disturbed>>

\* Writing "mem" to /sys/power/state; rtc = 0 is an alarm that has fired.
Suspend ==
  /\ pc = "armed"
  /\ \/ pc' = "asleep"
     \/ rtc = 0 /\ pc' = "awake"
  /\ slip' = 0
  /\ UNCHANGED <<observation, tod, shared, h, m, t_diff, rtc, wishes, disturbed>>

\* The kernel refuses: fwrite has only filled a buffer, and the result of
\* fflush is not looked at.
SuspendIsRefused ==
  /\ "refused" \in Disturbances
  /\ pc = "armed"
  /\ pc' = "awake" /\ disturbed' = TRUE /\ slip' = 0
  /\ UNCHANGED <<observation, tod, shared, h, m, t_diff, rtc, wishes>>

UserWakes ==
  /\ "woken" \in Disturbances
  /\ pc = "asleep" /\ ~gone
  /\ pc' = "awake" /\ disturbed' = TRUE
  /\ UNCHANGED <<observation, tod, shared, h, m, t_diff, rtc, slip, wishes>>

\* put_to_wk_sleep returns, and the alarm is played for as long as it takes
\* (AlarmDaemon); the loop goes on.  A wake alarm that is still pending is
\* overwritten before the next suspend.
RingAlarm ==
  /\ pc = "awake"
  /\ pc' = "sample"
  /\ tod' \in 0..(Day - 1)
  /\ idle' \in IF gone THEN idle..MaxIdle ELSE 0..MaxIdle
  /\ t_diff' = 0 /\ rtc' = Off
  /\ wishes' = {} /\ disturbed' = FALSE
  /\ UNCHANGED <<sleep_time, pause, busy, total, load, x11_idle, gone>>
  /\ UNCHANGED <<shared, h, m, slip>>

\* open, ioctl, close or fopen fails: exit(1).
Fail ==
  /\ "broken" \in Disturbances
  /\ pc \in {"computed", "armed"}
  /\ pc' = "failed"
  /\ UNCHANGED <<observation, night>>

\* A second passes; the wake alarm fires and the machine resumes.
Tick ==
  /\ pc = "asleep" \/ (pc \in {"computed", "armed"} /\ slip < MaxSlip)
  /\ tod' = (tod + 1) % Day
  /\ slip' = IF pc = "asleep" THEN slip ELSE slip + 1
  /\ rtc' = IF rtc \in {Off, 0} THEN Off ELSE rtc - 1
  /\ pc' = IF pc = "asleep" /\ rtc = 1 THEN "awake" ELSE pc
  /\ UNCHANGED <<observation, shared, h, m, t_diff, wishes, disturbed>>

\* Summer time begins: the next second is an hour later.
ClockJumps ==
  /\ "summer" \in Disturbances
  /\ pc = "asleep"
  /\ tod' = (tod + Hour) % Day /\ disturbed' = TRUE
  /\ UNCHANGED <<pc, observation, shared, h, m, t_diff, rtc, slip, wishes>>

TypeOKNight ==
  /\ tod \in 0..(Day - 1)
  /\ <<tm_hour, tm_min>> \in Times /\ act_flag \in BOOLEAN
  /\ ctl \in -1..(Minutes - 1)
  /\ h \in -1..(Hours - 1) /\ m \in -1..(Minutes - 1)
  /\ t_diff \in 0..(Day - 1)
  /\ rtc \in -1..(Day - 1)
  /\ slip \in 0..MaxSlip
  /\ wishes \subseteq Times /\ disturbed \in BOOLEAN
=============================================================================
