\* Children cannot be created, watched, or turned into the player: copies of
\* the daemon run its main loop.
SPECIFICATION Spec
CONSTANTS
    Daemon = daemon
    Nobody = nobody
    Pids = {p1, p2}
    Monitors = {m1, m2}
    Tries = 2
    Faults = {"uid", "exec", "fork", "thread"}
    Commands = {"on", "off"}
    Spurious = FALSE
    Patient = FALSE
INVARIANT DeathWillBeNoticed
SYMMETRY Symmetry
CHECK_DEADLOCK FALSE
