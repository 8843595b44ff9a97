-------------------------- MODULE SleepCycleProofs --------------------------
(***************************************************************************)
(* What holds of the cycle of main_loop for every division of the day,     *)
(* every interval and any disturbances: type correctness, and the minute   *)
(* in which an undisturbed sleep ends.  That one follows a sum through the *)
(* night: the clock plus the seconds that remain is the wake time plus     *)
(* what was lost on the way, up to full days.                              *)
(***************************************************************************)
EXTENDS SleepCycle, TLAPS

-----------------------------------------------------------------------------
(* Arithmetic *)

LEMMA ModRange ==
  ASSUME NEW a \in Int, NEW d \in Nat \ {0}
  PROVE  a % d \in 0..(d - 1) /\ a % d \in Nat
OBVIOUS

LEMMA Product ==
  ASSUME NEW a \in Nat, NEW b \in Nat
  PROVE  a * b \in Nat
OBVIOUS

LEMMA ProductMonotone ==
  ASSUME NEW a \in Nat, NEW b \in Nat, NEW c \in Nat, a <= b
  PROVE  a * c <= b * c
OBVIOUS

\* Full days do not make a remainder larger.
LEMMA ModOfMultiple ==
  ASSUME NEW x \in Nat, NEW q \in Int, NEW d \in Nat \ {0}
  PROVE  (x + q * d) % d <= x
<1> DEFINE y == x + q * d
           r == y % d
           k == y \div d
<1>1. y \in Int /\ k \in Int /\ r \in 0..(d - 1) /\ y = d * k + r
  OBVIOUS
<1>2. x = (k - q) * d + r
  BY <1>1
<1>3. k - q \in Int /\ r \in Nat /\ r < d
  BY <1>1
<1> HIDE DEF y, r, k
<1>4. CASE k - q >= 0
  <2>1. (k - q) * d >= 0
    BY <1>3, <1>4, Product
  <2> QED
    BY <1>2, <1>3, <2>1 DEF r, y
<1>5. CASE k - q <= -1
  <2> DEFINE n == q - k
  <2>1. n \in Nat /\ n >= 1 /\ (k - q) * d = -(n * d)
    BY <1>1, <1>3, <1>5
  <2>2. n * d >= d
    BY <2>1, ProductMonotone
  <2>3. x < 0
    <3> HIDE DEF n
    <3>1. n * d \in Nat
      BY <2>1, Product
    <3> QED
      BY <1>2, <1>3, <2>1, <2>2, <3>1
  <2> QED
    BY <2>3
<1> QED
  BY <1>3, <1>4, <1>5

LEMMA DayTypes == Hour \in Nat \ {0} /\ Day \in Nat \ {0}
<1>1. Hour \in Nat \ {0}
  BY ClockAssumption DEF Hour
<1>2. Hours * Hour \in Nat \ {0}
  BY <1>1, ClockAssumption
<1> QED
  BY <1>1, <1>2 DEF Day

\* A time of day.
LEMMA TodRange ==
  ASSUME NEW hh \in 0..(Hours - 1), NEW mm \in 0..(Minutes - 1), NEW ss \in 0..(Seconds - 1)
  PROVE  Tod(hh, mm, ss) \in 0..(Day - 1)
<1>1. hh * Hour <= (Hours - 1) * Hour /\ hh * Hour \in Nat
  BY DayTypes, ClockAssumption, ProductMonotone, Product
<1>2. mm * Seconds <= (Minutes - 1) * Seconds /\ mm * Seconds \in Nat
  BY ClockAssumption, ProductMonotone, Product
<1>3. (Hours - 1) * Hour = Day - Hour
  BY DayTypes, ClockAssumption DEF Day
<1>4. (Minutes - 1) * Seconds = Hour - Seconds
  BY ClockAssumption DEF Hour
<1> QED
  BY <1>1, <1>2, <1>3, <1>4, DayTypes, ClockAssumption DEF Tod

LEMMA TodOfMinute ==
  ASSUME NEW hh \in 0..(Hours - 1), NEW mm \in 0..(Minutes - 1), NEW ss \in Int
  PROVE  Tod(hh, mm, ss) = Tod(hh, mm, 0) + ss /\ Tod(hh, mm, 0) \in 0..(Day - 1)
<1>1. hh * Hour \in Int /\ mm * Seconds \in Int
  BY DayTypes, ClockAssumption
<1>2. Tod(hh, mm, ss) = Tod(hh, mm, 0) + ss
  BY <1>1 DEF Tod
<1>3. 0 \in 0..(Seconds - 1)
  BY ClockAssumption
<1> QED
  BY <1>2, <1>3, TodRange

\* The clock moves on, by full days at most away from the sum.
LEMMA ClockMoves ==
  ASSUME NEW t \in 0..(Day - 1)
  PROVE  \E q \in Int : (t + 1) % Day = t + 1 + q * Day
<1>1. CASE t + 1 < Day
  <2>1. (t + 1) % Day = t + 1 + 0 * Day
    BY <1>1, DayTypes
  <2> QED
    BY <2>1
<1>2. CASE t + 1 = Day
  <2>1. (t + 1) % Day = 0
    BY <1>2, DayTypes
  <2>2. 0 = t + 1 + (-1) * Day
    BY <1>2, DayTypes
  <2> QED
    BY <2>1, <2>2
<1> QED
  BY <1>1, <1>2, DayTypes

-----------------------------------------------------------------------------
(* Type correctness *)

LEMMA InitType == Init => TypeOK
<1> SUFFICES ASSUME Init PROVE TypeOK
  OBVIOUS
<1> USE DEF Init, InitObservation, InitNight
<1>1. pc = "sample"
  OBVIOUS
<1>2. TypeOKObservation
  <2>1. load[1] = 0 /\ load[2] = 0
    OBVIOUS
  <2>2. gone \in BOOLEAN
    OBVIOUS
  <2> QED
    BY <2>1, <2>2, IntervalAssumption DEF TypeOKObservation
<1>3. TypeOKNight
  <2>1. <<tm_hour, tm_min>> \in Times /\ tod \in 0..(Day - 1) /\ wishes \subseteq Times
    BY DEF Times
  <2>2. /\ ctl \in -1..(Minutes - 1) /\ h \in -1..(Hours - 1) /\ m \in -1..(Minutes - 1)
        /\ t_diff \in 0..(Day - 1) /\ rtc \in -1..(Day - 1) /\ slip \in 0..MaxSlip
    BY DayTypes, ClockAssumption DEF Done, Unread, Off
  <2>3. act_flag \in BOOLEAN /\ disturbed \in BOOLEAN
    OBVIOUS
  <2> QED
    BY <2>1, <2>2, <2>3 DEF TypeOKNight
<1> QED
  BY <1>1, <1>2, <1>3 DEF TypeOK

\* The steps that observe.
ObservationSteps ==
  \/ FirstSample \/ SecondSample \/ QueryIdleTime \/ ObserveFails \/ UserLeaves
  \/ \E works, input \in BOOLEAN : Second(works, input)
  \/ \E s \in Intervals : SetInterval(s)

LEMMA PauseType ==
  ASSUME NEW s \in Nat
  PROVE  Pause(s) \in Nat
<1>1. s * Micro \in Nat
  BY IntervalAssumption, Product
<1>2. (s * Micro) % Word \in Nat
  BY <1>1, IntervalAssumption, ModRange
<1> QED
  BY <1>2, IntervalAssumption DEF Pause

LEMMA ObservationType ==
  ASSUME TypeOK, ObservationSteps
  PROVE  /\ TypeOKObservation'
         /\ pc' \in {"sample", "sleep", "query", "lock", "failed"}
<1> USE IntervalAssumption DEF TypeOK, TypeOKObservation
<1>1. CASE FirstSample
  <2>1. Pause(sleep_time) \in Nat /\ sleep_time \in Nat
    BY PauseType
  <2> QED
    BY <1>1, <2>1 DEF FirstSample
<1>2. CASE SecondSample
  BY <1>2 DEF SecondSample
<1>3. CASE QueryIdleTime
  BY <1>3 DEF QueryIdleTime
<1>4. CASE ObserveFails
  BY <1>4 DEF ObserveFails, observation
<1>5. CASE UserLeaves
  BY <1>5 DEF UserLeaves, Observing
<1>6. ASSUME NEW works \in BOOLEAN, NEW input \in BOOLEAN, Second(works, input)
      PROVE  TypeOKObservation' /\ pc' = "sleep"
  BY <1>6 DEF Second
<1>7. ASSUME NEW s \in Intervals, SetInterval(s)
      PROVE  TypeOKObservation' /\ pc' \in {"sample", "sleep", "query", "lock"}
  BY <1>7 DEF SetInterval, Observing
<1> QED
  BY <1>1, <1>2, <1>3, <1>4, <1>5, <1>6, <1>7 DEF ObservationSteps

\* The other steps.
NightSteps ==
  \/ Decide \/ ReadHour \/ ReadMinute \/ ComputeDiff \/ SetAlarm \/ Suspend \/ RingAlarm
  \/ Tick \/ SetMinute \/ SuspendIsRefused \/ UserWakes \/ Fail \/ ClockJumps
  \/ \E t \in Times : SetTime(t[1], t[2]) \/ SetHour(t[1], t[2])
  \/ \E on \in BOOLEAN : SetActive(on)

LEMMA StepKinds ==
  ASSUME [Next]_vars
  PROVE  \/ ObservationSteps /\ (UNCHANGED night \/ SecondAwake)
         \/ NightSteps
         \/ UNCHANGED vars
BY DEF Next, MainLoop, Observe, SecondPasses, SecondAwake, Commands, Environment,
       ObservationSteps, NightSteps

\* The wait: the sum of the clock and the wait is the time that was asked
\* for and the seconds of now, today or tomorrow.
LEMMA WaitIsInDay ==
  ASSUME TypeOK, h /= Unread, m /= Unread
  PROVE  /\ Wait(TimeDiff) \in 0..(Day - 1)
         /\ tod % Seconds \in 0..(Seconds - 1)
         /\ \E q \in Int :
              tod + Wait(TimeDiff) = Tod(h, m, 0) + (tod % Seconds) + q * Day
<1> USE DEF TypeOK, TypeOKNight
<1>1. /\ h \in 0..(Hours - 1) /\ m \in 0..(Minutes - 1) /\ tod \in 0..(Day - 1)
      /\ tod \in Int
  BY ClockAssumption DEF Unread
<1>2. tod % Seconds \in 0..(Seconds - 1)
  BY <1>1, ModRange, ClockAssumption
<1> DEFINE T == Tod(h, m, tod % Seconds)
<1>3. T \in 0..(Day - 1)
  BY <1>1, <1>2, TodRange
<1>4. T = Tod(h, m, 0) + (tod % Seconds) /\ Tod(h, m, 0) \in 0..(Day - 1)
  BY <1>1, <1>2, TodOfMinute
<1>5. TimeDiff = T - tod
  BY DEF TimeDiff
<1> HIDE DEF T
<1>6. CASE T - tod < 0
  <2>1. Wait(TimeDiff) = T - tod + Day
    BY <1>5, <1>6 DEF Wait
  <2>2. tod + Wait(TimeDiff) = T + 1 * Day
    BY <1>1, <1>3, <2>1, DayTypes
  <2>3. Wait(TimeDiff) \in 0..(Day - 1)
    BY <1>1, <1>3, <1>6, <2>1, DayTypes
  <2> QED
    BY <1>2, <1>4, <2>2, <2>3
<1>7. CASE ~(T - tod < 0)
  <2>1. Wait(TimeDiff) = T - tod
    BY <1>5, <1>7 DEF Wait
  <2>2. tod + Wait(TimeDiff) = T + 0 * Day
    BY <1>1, <1>3, <2>1, DayTypes
  <2>3. Wait(TimeDiff) \in 0..(Day - 1)
    BY <1>1, <1>3, <1>7, <2>1, DayTypes
  <2> QED
    BY <1>2, <1>4, <2>2, <2>3
<1> QED
  BY <1>6, <1>7

LEMMA NightType ==
  ASSUME TypeOK, NightSteps
  PROVE  TypeOK'
<1>t. /\ TypeOKObservation /\ TypeOKNight
      /\ pc \in {"sample", "sleep", "query", "lock", "read", "computed", "armed",
                 "asleep", "awake", "failed"}
  BY DEF TypeOK
<1>o. \/ UNCHANGED observation
      \/ UNCHANGED <<sleep_time, pause, busy, total, idle, gone>> /\ Forget
      \/ /\ UNCHANGED <<sleep_time, pause, busy, total, load, x11_idle, gone>>
         /\ idle' \in 0..MaxIdle
  <2> USE DEF NightSteps, Decide, ReadHour, ReadMinute, ComputeDiff, SetAlarm, Suspend,
          Tick, SetMinute, SuspendIsRefused, UserWakes, Fail, ClockJumps, SetTime,
          SetHour, SetActive
  <2>1. CASE RingAlarm
    BY <1>t, <2>1, IntervalAssumption DEF RingAlarm, TypeOKObservation
  <2> QED
    BY <2>1
<1>1. TypeOKObservation'
  BY <1>t, <1>o, IntervalAssumption DEF TypeOKObservation, observation, Forget
<1>2. TypeOKNight' /\ pc' \in {"sample", "sleep", "query", "lock", "read", "computed", "armed",
                 "asleep", "awake", "failed"}
  <2> USE <1>t DEF TypeOKNight, shared
  <2>1. CASE Decide
    BY <2>1 DEF Decide
  <2>2. CASE ReadHour
    BY <2>2, ClockAssumption DEF ReadHour, Times
  <2>3. CASE ReadMinute
    BY <2>3, ClockAssumption DEF ReadMinute, Times
  <2>4. CASE ComputeDiff
    <3>1. Wait(TimeDiff) \in 0..(Day - 1)
      BY <2>4, WaitIsInDay DEF ComputeDiff
    <3> QED
      BY <2>4, <3>1, ClockAssumption DEF ComputeDiff, Unread
  <2>5. CASE SetAlarm
    BY <2>5, DayTypes DEF SetAlarm
  <2>6. CASE Suspend
    BY <2>6, ClockAssumption DEF Suspend
  <2>7. CASE RingAlarm
    <3>1. 0 \in 0..(Day - 1) /\ -1 \in -1..(Day - 1)
      BY DayTypes
    <3> QED
      BY <2>7, <3>1 DEF RingAlarm, Off
  <2>8. CASE Tick
    <3>1. (tod + 1) % Day \in 0..(Day - 1)
      BY ModRange, DayTypes
    <3>2. rtc' \in -1..(Day - 1) /\ slip' \in 0..MaxSlip
      BY <2>8, DayTypes, ClockAssumption DEF Tick, Off
    <3> QED
      BY <2>8, <3>1, <3>2 DEF Tick
  <2>9. CASE SetMinute
    BY <2>9, ClockAssumption DEF SetMinute, Done, Times
  <2>10. CASE SuspendIsRefused
    BY <2>10, ClockAssumption DEF SuspendIsRefused
  <2>11. CASE UserWakes
    BY <2>11 DEF UserWakes
  <2>12. CASE Fail
    BY <2>12 DEF Fail, night
  <2>13. CASE ClockJumps
    <3>1. (tod + Hour) % Day \in 0..(Day - 1)
      BY ModRange, DayTypes
    <3> QED
      BY <2>13, <3>1 DEF ClockJumps
  <2>14. ASSUME NEW t \in Times, SetTime(t[1], t[2])
         PROVE  TypeOKNight' /\ pc' = pc
    BY <2>14 DEF SetTime, Times
  <2>15. ASSUME NEW t \in Times, SetHour(t[1], t[2])
         PROVE  TypeOKNight' /\ pc' = pc
    BY <2>15, ClockAssumption DEF SetHour, Times
  <2>16. ASSUME NEW on \in BOOLEAN, SetActive(on)
         PROVE  TypeOKNight' /\ pc' = pc
    BY <2>16 DEF SetActive
  <2> QED
    BY <2>1, <2>2, <2>3, <2>4, <2>5, <2>6, <2>7, <2>8, <2>9, <2>10, <2>11, <2>12, <2>13,
       <2>14, <2>15, <2>16 DEF NightSteps
<1> QED
  BY <1>1, <1>2 DEF TypeOK

LEMMA NextType == TypeOK /\ [Next]_vars => TypeOK'
<1> SUFFICES ASSUME TypeOK, [Next]_vars PROVE TypeOK'
  OBVIOUS
<1>1. CASE ObservationSteps /\ (UNCHANGED night \/ SecondAwake)
  <2>1. TypeOKObservation' /\ pc' \in {"sample", "sleep", "query", "lock", "failed"}
    BY <1>1, ObservationType
  <2>2. (tod + 1) % Day \in 0..(Day - 1)
    BY ModRange, DayTypes DEF TypeOK, TypeOKNight
  <2>3. TypeOKNight'
    BY <1>1, <2>2 DEF SecondAwake, night, shared, TypeOK, TypeOKNight
  <2> QED
    BY <2>1, <2>3 DEF TypeOK
<1>2. CASE NightSteps
  BY <1>2, NightType
<1>3. CASE UNCHANGED vars
  BY <1>3 DEF vars, observation, night, TypeOK, TypeOKObservation, TypeOKNight
<1> QED
  BY <1>1, <1>2, <1>3, StepKinds

\* Every variable keeps its type, whatever the day and the intervals are.
THEOREM TypeOKAlways == Spec => []TypeOK
  BY InitType, NextType, PTL DEF Spec

-----------------------------------------------------------------------------
(* The end of the sleep *)

\* What is read after the decision was wished.
Wished ==
  /\ pc \in {"read", "computed", "armed"} =>
       /\ \E v \in wishes : tm_hour = v[1]
       /\ \E v \in wishes : tm_min = v[2]
       /\ ctl /= Done => \E v \in wishes : ctl = v[2]
  /\ h /= Unread => pc = "read" /\ \E v \in wishes : h = v[1]
  /\ m /= Unread => pc = "read" /\ \E v \in wishes : m = v[2]
  /\ pc \notin {"computed", "armed", "failed"} => slip = 0

\* At the time t, r seconds before the end, lost seconds behind the wishes w.
Aims(t, w, r, lost) ==
  \E v1, v2 \in w, q \in Int : t + r = Tod(v1[1], v2[2], 0) + lost + q * Day

Losses == 0..(Seconds - 1 + MaxSlip)

Aiming ==
  /\ pc = "computed" => \E s \in 0..(Seconds - 1) : Aims(tod, wishes, t_diff, s + slip)
  /\ pc \in {"armed", "asleep"} /\ ~disturbed /\ rtc /= Off =>
       \E lost \in Losses : Aims(tod, wishes, rtc, lost)
  /\ pc = "awake" /\ ~disturbed => \E lost \in Losses : Aims(tod, wishes, 0, lost)

NInv == TypeOK /\ Wished /\ Aiming

\* One second later.
LEMMA AimMoves ==
  ASSUME NEW t \in 0..(Day - 1), NEW w \in SUBSET Times, NEW r \in Int, NEW lost \in Int,
         NEW r2 \in Int, NEW lost2 \in Int, r2 - lost2 = r - lost - 1,
         Aims(t, w, r, lost)
  PROVE  Aims((t + 1) % Day, w, r2, lost2)
<1>1. PICK v1 \in w, v2 \in w, q \in Int :
        t + r = Tod(v1[1], v2[2], 0) + lost + q * Day
  BY DEF Aims
<1>2. PICK p \in Int : (t + 1) % Day = t + 1 + p * Day
  BY ClockMoves
<1> DEFINE T == Tod(v1[1], v2[2], 0)
<1>3. T \in Int
  <2>1. v1[1] \in 0..(Hours - 1) /\ v2[2] \in 0..(Minutes - 1) /\ 0 \in Int
    BY DEF Times
  <2> QED
    BY <2>1, TodOfMinute
<1> HIDE DEF T
<1>4. /\ (q + p) * Day = q * Day + p * Day /\ q + p \in Int
      /\ q * Day \in Int /\ p * Day \in Int
  BY DayTypes
<1>5. t \in Int
  BY DayTypes
<1>6. t + r = T + lost + q * Day
  BY <1>1 DEF T
<1>7. ((t + 1) % Day) + r2 = T + lost2 + (q + p) * Day
  BY <1>2, <1>3, <1>4, <1>5, <1>6
<1> QED
  BY <1>4, <1>7 DEF Aims, T

\* More wishes do no harm.
LEMMA AimKept ==
  ASSUME NEW t, NEW w, NEW w2, w \subseteq w2, NEW r, NEW lost, Aims(t, w, r, lost)
  PROVE  Aims(t, w2, r, lost)
BY DEF Aims

LEMMA WishedNext ==
  ASSUME TypeOK, Wished, [Next]_vars
  PROVE  Wished'
<1> USE DEF Wished, shared
<1>1. CASE ObservationSteps /\ (UNCHANGED night \/ SecondAwake)
  <2>1. pc' \notin {"read", "computed", "armed"} /\ pc \notin {"read", "computed", "armed", "failed"}
    BY <1>1 DEF ObservationSteps, FirstSample, SecondSample, QueryIdleTime, ObserveFails,
       UserLeaves, Second, SetInterval, Observing
  <2>2. UNCHANGED <<h, m, slip>>
    BY <1>1 DEF night, SecondAwake
  <2> QED
    BY <2>1, <2>2
<1>2. CASE NightSteps
  <2>1. CASE Decide
    BY <2>1 DEF Decide
  <2>2. CASE ReadHour
    BY <2>2 DEF ReadHour
  <2>3. CASE ReadMinute
    BY <2>3 DEF ReadMinute
  <2>4. CASE ComputeDiff
    BY <2>4 DEF ComputeDiff
  <2>5. CASE SetAlarm
    BY <2>5 DEF SetAlarm
  <2>6. CASE Suspend
    BY <2>6 DEF Suspend
  <2>7. CASE RingAlarm
    BY <2>7 DEF RingAlarm
  <2>8. CASE Tick
    BY <2>8 DEF Tick
  <2>9. CASE SetMinute
    BY <2>9 DEF SetMinute
  <2>10. CASE SuspendIsRefused
    BY <2>10 DEF SuspendIsRefused
  <2>11. CASE UserWakes
    BY <2>11 DEF UserWakes
  <2>12. CASE Fail
    BY <2>12 DEF Fail, night
  <2>13. CASE ClockJumps
    BY <2>13 DEF ClockJumps
  <2>14. ASSUME NEW t \in Times, SetTime(t[1], t[2])
         PROVE  Wished'
    BY <2>14 DEF SetTime, Early
  <2>15. ASSUME NEW t \in Times, SetHour(t[1], t[2])
         PROVE  Wished'
    <3>1. /\ wishes' = wishes \cup {t} /\ tm_hour' = t[1] /\ ctl' = t[2]
          /\ UNCHANGED <<pc, tm_min, h, m, slip>>
      BY <2>15 DEF SetHour, Times
    <3> QED
      BY <3>1
  <2>16. ASSUME NEW on \in BOOLEAN, SetActive(on)
         PROVE  Wished'
    BY <2>16 DEF SetActive
  <2> QED
    BY <1>2, <2>1, <2>2, <2>3, <2>4, <2>5, <2>6, <2>7, <2>8, <2>9, <2>10, <2>11, <2>12,
       <2>13, <2>14, <2>15, <2>16 DEF NightSteps
<1>3. CASE UNCHANGED vars
  BY <1>3 DEF vars, night
<1> QED
  BY <1>1, <1>2, <1>3, StepKinds

\* The steps that leave the aim alone, or forget it.
LEMMA AimingKept ==
  ASSUME Aiming, wishes \subseteq wishes', UNCHANGED <<tod, t_diff, rtc, slip, disturbed>>,
         pc' = pc \/ pc' \notin {"computed", "armed", "asleep", "awake"}
  PROVE  Aiming'
<1>1. \A r, lost : Aims(tod, wishes, r, lost) => Aims(tod, wishes', r, lost)
  BY AimKept
<1> QED
  BY <1>1 DEF Aiming

LEMMA ComputeAims ==
  ASSUME NInv, ComputeDiff
  PROVE  Aiming'
<1> USE DEF NInv, ComputeDiff
<1> DEFINE s == tod % Seconds
<1>1. s \in 0..(Seconds - 1) /\
      \E q \in Int : tod + t_diff' = Tod(h, m, 0) + s + q * Day
  BY WaitIsInDay
<1>2. slip' = 0 /\ pc' = "computed" /\ UNCHANGED <<tod, wishes>>
  BY DEF Wished
<1>3. s + slip' = s
  BY <1>1, <1>2
<1>4. (\E v \in wishes : h = v[1]) /\ (\E v \in wishes : m = v[2])
  BY DEF Wished
<1> HIDE DEF s
<1>5. Aims(tod', wishes', t_diff', s)
  BY <1>1, <1>2, <1>4 DEF Aims
<1> QED
  BY <1>1, <1>2, <1>3, <1>5 DEF Aiming

LEMMA TickAims ==
  ASSUME NInv, Tick
  PROVE  Aiming'
<1> USE DEF NInv, Tick
<1>t. /\ tod \in 0..(Day - 1) /\ wishes \in SUBSET Times /\ slip \in 0..MaxSlip
      /\ t_diff \in Int /\ rtc \in Int /\ Seconds \in Nat /\ MaxSlip \in Nat
  BY DayTypes, ClockAssumption DEF TypeOK, TypeOKNight
<1>u. tod' = (tod + 1) % Day /\ UNCHANGED <<wishes, t_diff, disturbed>>
  OBVIOUS
<1>1. CASE pc = "computed"
  <2>1. PICK s \in 0..(Seconds - 1) : Aims(tod, wishes, t_diff, s + slip)
    BY <1>1 DEF Aiming
  <2>2. slip' = slip + 1 /\ pc' = "computed"
    BY <1>1
  <2>3. /\ s + slip \in Int /\ s + slip' \in Int
        /\ t_diff - (s + slip') = t_diff - (s + slip) - 1
    BY <1>t, <2>1, <2>2
  <2>4. Aims((tod + 1) % Day, wishes, t_diff, s + slip')
    BY <1>t, <2>1, <2>3, AimMoves
  <2> QED
    BY <1>u, <2>1, <2>2, <2>4 DEF Aiming
<1>2. CASE pc \in {"armed", "asleep"}
  <2>1. pc' \in {"armed", "asleep", "awake"} /\ (pc' = "awake" => rtc = 1)
    BY <1>2
  <2>2. CASE disturbed \/ rtc \in {Off, 0}
    BY <1>u, <2>1, <2>2 DEF Aiming, Off
  <2>3. CASE ~disturbed /\ rtc \notin {Off, 0}
    <3>1. PICK lost \in Losses : Aims(tod, wishes, rtc, lost)
      BY <1>2, <2>3 DEF Aiming
    <3>2. rtc' = rtc - 1 /\ lost \in Int
      BY <1>t, <2>3 DEF Losses
    <3>3. rtc' \in Int /\ rtc' - lost = rtc - lost - 1
      BY <1>t, <3>2
    <3>4. Aims((tod + 1) % Day, wishes, rtc', lost)
      BY <1>t, <3>1, <3>2, <3>3, AimMoves
    <3>5. pc' = "awake" => rtc' = 0
      BY <2>1, <3>2
    <3> QED
      BY <1>u, <2>1, <3>1, <3>4, <3>5 DEF Aiming
  <2> QED
    BY <2>2, <2>3
<1> QED
  BY <1>1, <1>2

LEMMA AimingNext ==
  ASSUME NInv, [Next]_vars
  PROVE  Aiming'
<1> USE DEF NInv
<1>1. CASE ObservationSteps /\ (UNCHANGED night \/ SecondAwake)
  BY <1>1 DEF ObservationSteps, FirstSample, SecondSample, QueryIdleTime, ObserveFails,
     UserLeaves, Second, SetInterval, Observing, Aiming
<1>2. CASE NightSteps
  <2>1. CASE Decide \/ RingAlarm
    BY <2>1 DEF Decide, RingAlarm, Aiming
  <2>2. CASE ReadHour \/ ReadMinute
    BY <2>2, AimingKept DEF ReadHour, ReadMinute
  <2>3. CASE ComputeDiff
    BY <2>3, ComputeAims
  <2>4. CASE SetAlarm
    <3>1. PICK s \in 0..(Seconds - 1) : Aims(tod, wishes, t_diff, s + slip)
      BY <2>4 DEF SetAlarm, Aiming
    <3>2. s + slip \in Losses
      BY <3>1, ClockAssumption DEF TypeOK, TypeOKNight, Losses
    <3> QED
      BY <2>4, <3>1, <3>2 DEF SetAlarm, Aiming
  <2>5. CASE Suspend
    BY <2>5 DEF Suspend, Aiming, Off
  <2>6. CASE SuspendIsRefused \/ UserWakes
    BY <2>6 DEF SuspendIsRefused, UserWakes, Aiming
  <2>7. CASE Tick
    BY <2>7, TickAims
  <2>8. CASE SetMinute
    BY <2>8, AimingKept DEF SetMinute
  <2>9. CASE Fail
    BY <2>9 DEF Fail, Aiming
  <2>10. CASE ClockJumps
    BY <2>10 DEF ClockJumps, Aiming
  <2>11. ASSUME NEW t \in Times, SetTime(t[1], t[2]) \/ SetHour(t[1], t[2])
         PROVE  Aiming'
    BY <2>11, AimingKept DEF SetTime, SetHour
  <2>12. ASSUME NEW on \in BOOLEAN, SetActive(on)
         PROVE  Aiming'
    BY <2>12, AimingKept DEF SetActive
  <2> QED
    BY <1>2, <2>1, <2>2, <2>3, <2>4, <2>5, <2>6, <2>7, <2>8, <2>9, <2>10, <2>11, <2>12
    DEF NightSteps
<1>3. CASE UNCHANGED vars
  BY <1>3, AimingKept DEF vars, night
<1> QED
  BY <1>1, <1>2, <1>3, StepKinds

LEMMA NightInit == Init => NInv
<1> SUFFICES ASSUME Init PROVE NInv
  OBVIOUS
<1>1. pc = "sample" /\ h = Unread /\ m = Unread /\ slip = 0
  BY DEF Init, InitObservation, InitNight
<1> QED
  BY <1>1, InitType DEF NInv, Wished, Aiming

LEMMA NightInvariant == NInv /\ [Next]_vars => NInv'
BY NextType, WishedNext, AimingNext DEF NInv

LEMMA RingsWhenAimed == NInv => RingsOnTime
<1> SUFFICES ASSUME NInv, pc = "awake", ~disturbed
             PROVE  \E v, w \in wishes : Since(v[1], w[2]) < Seconds + MaxSlip
  BY DEF RingsOnTime
<1>1. PICK lost \in Losses : Aims(tod, wishes, 0, lost)
  BY DEF NInv, Aiming
<1>2. PICK v \in wishes, w \in wishes, q \in Int :
        tod + 0 = Tod(v[1], w[2], 0) + lost + q * Day
  BY <1>1 DEF Aims
<1> DEFINE T == Tod(v[1], w[2], 0)
<1>3. T \in Int /\ tod \in Int
  <2>1. v[1] \in 0..(Hours - 1) /\ w[2] \in 0..(Minutes - 1) /\ 0 \in Int
    BY DEF NInv, TypeOK, TypeOKNight, Times
  <2> QED
    BY <2>1, TodOfMinute, DayTypes DEF NInv, TypeOK, TypeOKNight
<1>4. lost \in Nat /\ lost < Seconds + MaxSlip
  BY ClockAssumption DEF Losses
<1> HIDE DEF T
<1>5. tod = T + lost + q * Day
  BY <1>2, <1>3 DEF T
<1>6. tod - T + Day = lost + (q + 1) * Day
  <2>1. (q + 1) * Day = q * Day + Day /\ q * Day \in Int
    BY DayTypes
  <2> QED
    BY <1>3, <1>4, <1>5, <2>1, DayTypes
<1>7. (lost + (q + 1) * Day) % Day <= lost
  BY <1>4, DayTypes, ModOfMultiple
<1>8. Since(v[1], w[2]) <= lost
  BY <1>6, <1>7 DEF Since, T
<1>9. Since(v[1], w[2]) \in Int
  BY <1>3, DayTypes, ModRange DEF Since, T
<1> QED
  BY <1>4, <1>8, <1>9, ClockAssumption

\* A machine that is left alone is woken in the minute it was told, or as
\* much later as the two looks at the clock are apart (sleep.c:84-96), for
\* any division of the day, any times set meanwhile and any delay.
THEOREM RingsOnTimeAlways == Spec => []RingsOnTime
  BY NightInit, NightInvariant, RingsWhenAimed, PTL DEF Spec
=============================================================================
