--------------------------- MODULE MCControlWire ---------------------------
(* Command lines a user may give, with three hours and four minutes.       *)
EXTENDS ControlWire, TLC

Opt(o) == [opt |-> o, word |-> "none"]
OptWith(o, w) == [opt |-> o, word |-> w]

MCAtoi == "0" :> 0 @@ "1" :> 1 @@ "2" :> 2 @@ "3" :> 3 @@ "9" :> 9 @@ "a.mp3" :> 0 @@ "b.mp3" :> 0

SetAlarm == <<Opt("a"), OptWith("h", "2"), OptWith("m", "3")>>
SetAll == <<OptWith("h", "0"), OptWith("m", "1"), OptWith("f", "a.mp3")>>
SetOff == <<Opt("d"), OptWith("h", "1"), OptWith("m", "0")>>
DisarmOnly == <<Opt("r")>>
SwitchOff == <<Opt("a"), Opt("d")>>
Kill == <<Opt("k")>>
FileFirst == <<OptWith("f", "a.mp3"), Opt("d")>>

\* Accepted, refused by argp_usage, or refused by the daemon.
MCLines == {SetAlarm, SetAll, SetOff, DisarmOnly, SwitchOff, FileFirst, Kill,
            <<OptWith("h", "9"), OptWith("m", "1")>>,
            <<OptWith("m", "1"), OptWith("h", "2")>>,
            <<OptWith("h", "1")>>,
            <<Opt("f")>>,
            <<OptWith("f", "b.mp3")>>,
            <<OptWith("f", "c.mp3")>>}
=============================================================================
