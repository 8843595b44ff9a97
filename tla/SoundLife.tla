------------------------------- MODULE SoundLife -------------------------------
(***************************************************************************)
(* What a playback process looks like from its socket, and what            *)
(* AlarmDaemon takes it for: it hears one command at a time and owes an    *)
(* answer to each; it plays from the answer to 'p' to the answer to 's',   *)
(* then falls silent and ends; a command out of order, or any failure,     *)
(* ends it at once.  SoundProcess implements it.                           *)
(***************************************************************************)

VARIABLES
    life,       \* "idle", "start", "play", "stop" or "gone", as in AlarmDaemon
    owed        \* a command has been heard and not yet been answered

vars == <<life, owed>>

TypeOK == life \in {"idle", "start", "play", "stop", "gone"} /\ owed \in BOOLEAN

Init == life = "idle" /\ ~owed

Hear ==
    /\ ~owed /\ owed' = TRUE
    /\ \/ life \in {"idle", "play"} /\ UNCHANGED life
       \/ life = "idle" /\ life' = "start"

Answer ==
    /\ owed /\ owed' = FALSE
    /\ \/ life = "start" /\ life' = "play"
       \/ life = "play" /\ life' \in {"play", "stop"}
       \/ life = "idle" /\ life' = "gone"       \* only 'p' makes sense when idle

Finish == life = "stop" /\ life' = "gone" /\ UNCHANGED owed

Die == life # "gone" /\ life' = "gone" /\ owed' = FALSE

Next == Hear \/ Answer \/ Finish \/ Die

Safety == Init /\ [][Next]_vars

Spec == Safety /\ WF_vars(Answer) /\ WF_vars(Finish)
=============================================================================
