------------------------------ MODULE SleepCycle ------------------------------
(***************************************************************************)
(* The cycle of main_loop (main.c): observe until the user is away, put    *)
(* the machine to sleep, be woken, ring, and observe again.  It composes   *)
(* Inactivity and WakeAlarm, which take turns in one thread and share its  *)
(* clock and the fields that control_listen sets.                          *)
(***************************************************************************)
EXTENDS WakeAlarm

Init == InitObservation /\ InitNight

\* Time passes: awake, while usleep waits, or around the suspend.
SecondAwake ==
  /\ \E works, input \in BOOLEAN : Second(works, input)
  /\ tod' = (tod + 1) % Day
  /\ UNCHANGED <<shared, h, m, t_diff, rtc, slip, wishes, disturbed>>
SecondPasses == SecondAwake \/ Tick

\* One step of the observation.
Observe == (FirstSample \/ SecondSample \/ QueryIdleTime) /\ UNCHANGED night

MainLoop ==
  \/ Observe \/ Decide
  \/ ReadHour \/ ReadMinute \/ ComputeDiff \/ SetAlarm \/ Suspend \/ RingAlarm

\* What control_listen does; the interval may change at any time.
Commands ==
  \/ \E t \in Times : SetTime(t[1], t[2]) \/ SetHour(t[1], t[2])
  \/ SetMinute
  \/ \E on \in BOOLEAN : SetActive(on)
  \/ \E s \in Intervals : SetInterval(s) /\ ctl = Done /\ UNCHANGED night

Environment ==
  \/ (ObserveFails \/ UserLeaves) /\ UNCHANGED night
  \/ SuspendIsRefused \/ UserWakes \/ Fail \/ ClockJumps

Next == MainLoop \/ SecondPasses \/ Commands \/ Environment

\* The thread runs, time passes, and a command that has begun is finished.
Spec ==
  /\ Init /\ [][Next]_vars
  /\ WF_vars(MainLoop) /\ WF_vars(SecondPasses) /\ WF_vars(SetMinute)
-----------------------------------------------------------------------------
TypeOK ==
  /\ pc \in {"sample", "sleep", "query", "lock", "read", "computed", "armed",
             "asleep", "awake", "failed"}
  /\ TypeOKObservation /\ TypeOKNight

\* The seconds since the minute hh:mm of the clock began, up to a day back.
Since(hh, mm) == (tod - Tod(hh, mm, 0) + Day) % Day

\* A machine that is left alone is woken in the minute it was told, or as
\* much later as put_to_wk_sleep took between its two looks at the clock,
\* whether that minute is today or tomorrow (sleep.c:84-96).  If the time is
\* being changed, the hour and the minute may be of two wishes (main.c:499).
RingsOnTime ==
  pc = "awake" /\ ~disturbed =>
    \E v, w \in wishes : Since(v[1], w[2]) < Seconds + MaxSlip

\* Once asleep the machine is woken ("Calculated wakeup time", sleep.c:94),
\* if the wake time is not the current minute.
LongSleepEnds == (pc = "asleep" /\ t_diff > 0) ~> pc = "awake"

\* Has a user who left been woken, or is there a reason why not?  (For the
\* current minute see LongSleepEnds.)
Woken == pc = "awake" \/ pc = "failed" \/ ~act_flag \/ (pc = "asleep" /\ t_diff = 0)

\* A user who leaves with the alarm active is woken, if from some time on
\* usleep is told to wait (main.c:351): however the interval is changed, also
\* between usleep and the comparison (main.c:372), and also if it wraps to a
\* shorter pause, neither the idle time and the load nor the commands keep
\* the cycle from coming to the alarm.  Without a pause nothing makes the
\* kernel count any time between the readings, and the load is 0/0.
GoneIsWoken == <>[](pc = "sleep" => pause > 0) => (gone ~> Woken)

\* The same for every interval that command 03 accepts: only a negative one
\* is refused ("Sleep time should not be negative.", main.c:156).
GoneIsWokenAnyInterval == gone ~> Woken

\* Between the readings the thread waits for the interval that is set ("Set
\* intervals", main.c:94 and 351).
PauseIsInterval == [][pc = "sample" /\ pc' = "sleep" => pause' = sleep_time]_vars

\* An hour and a minute that were set together (SET TIME, main.c:91).
TimeWasSet == [][pc = "read" /\ pc' = "computed" => <<h, m>> \in wishes]_vars

\* The machine is put to sleep only while the alarm is active: a command
\* "Deactivate alarm" (main.c:93) that was obeyed is heard.
SleepsOnlyActive == [][pc = "armed" /\ pc' = "asleep" => act_flag]_vars

\* Once asleep the machine is woken, whatever the wake time.
SleepEnds == pc = "asleep" ~> pc /= "asleep"
=============================================================================
