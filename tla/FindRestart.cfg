\* The user disarms twice.
SPECIFICATION Spec
CONSTANTS
    Daemon = daemon
    Nobody = nobody
    Pids = {p1, p2}
    Monitors = {m1, m2}
    Tries = 2
    Faults = {}
    Commands = {"on", "disarm"}
    Spurious = FALSE
    Patient = FALSE
PROPERTY RestartMeansDied
