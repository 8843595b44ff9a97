------------------------------ MODULE AlarmClock ------------------------------
(***************************************************************************)
(* What the daemon promises its user: armed, it puts an inactive machine   *)
(* to sleep; when the machine is awake again it plays the alarm, and plays *)
(* it again whenever the player dies, until it is asked to stop; it goes   *)
(* back to watching only when nothing plays.  It may fail, and then says   *)
(* so by ending.  AlarmDaemon implements it.                               *)
(***************************************************************************)

VARIABLES
    phase,      \* what the clock is doing
    armed,      \* the user has activated it
    asked,      \* the user has asked for silence
    alive       \* a playback process is alive

vars == <<phase, armed, asked, alive>>

TypeOK ==
    /\ phase \in {"watching", "asleep", "ringing", "silencing", "down"}
    /\ armed \in BOOLEAN /\ asked \in BOOLEAN /\ alive \in BOOLEAN

Init ==
    /\ phase = "watching" /\ ~armed /\ ~alive
    /\ asked \in BOOLEAN        \* nothing initialises the request

(* The user.                                                               *)
Toggle == armed' = ~armed /\ UNCHANGED <<phase, asked, alive>>
Ask    == asked' = TRUE /\ UNCHANGED <<phase, armed, alive>>

FallAsleep ==
    /\ phase = "watching" /\ armed
    /\ phase' = "asleep" /\ UNCHANGED <<armed, asked, alive>>

Ring ==
    /\ phase = "asleep"
    /\ phase' = "ringing" /\ UNCHANGED <<armed, asked, alive>>

Play ==
    /\ phase = "ringing" /\ ~alive
    /\ alive' = TRUE /\ UNCHANGED <<phase, armed, asked>>

Die ==
    /\ alive
    /\ alive' = FALSE /\ UNCHANGED <<phase, armed, asked>>

Silence ==
    /\ phase = "ringing" /\ asked
    /\ phase' = "silencing" /\ asked' = FALSE /\ UNCHANGED <<armed, alive>>

Rest ==
    /\ phase = "silencing" /\ ~alive
    /\ phase' = "watching" /\ UNCHANGED <<armed, asked, alive>>

Fail ==
    /\ phase # "down"
    /\ phase' = "down" /\ UNCHANGED <<armed, asked, alive>>

Next == Toggle \/ Ask \/ FallAsleep \/ Ring \/ Play \/ Die \/ Silence \/ Rest \/ Fail

Safety == Init /\ [][Next]_vars

Spec == Safety /\ WF_vars(Ring) /\ WF_vars(Play) /\ WF_vars(Rest)
=============================================================================
