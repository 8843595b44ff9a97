\* The alarm clock that the daemon implements, with every error that stops
\* the daemon; the user disarms only the alarm he hears, once.
SPECIFICATION FairSpec
CONSTANTS
    Daemon = daemon
    Nobody = nobody
    Pids = {p1, p2}
    Monitors = {m1, m2}
    Tries = 2
    Faults = {"crash", "observe", "suspend", "sock", "hangup"}
    Commands = {"on", "disarm", "bad", "eof"}
    Spurious = FALSE
    Patient = TRUE
INVARIANT OneSound
PROPERTIES LeavingMeansDied ImplementsClock DeathEndsWait DisarmStops ErrorLeadsToExit
