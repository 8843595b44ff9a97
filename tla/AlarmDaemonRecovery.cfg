\* Playback processes crash or are never created or watched; the user disarms
\* at any time, and again; waits return spuriously.
SPECIFICATION Spec
CONSTANTS
    Daemon = daemon
    Nobody = nobody
    Pids = {p1, p2}
    Monitors = {m1, m2}
    Tries = 2
    Faults = {"crash", "fork", "thread"}
    Commands = {"on", "disarm"}
    Spurious = TRUE
    Patient = FALSE
INVARIANTS TypeOK MutualExclusion DeathWillBeNoticed
SYMMETRY Symmetry
CHECK_DEADLOCK FALSE
