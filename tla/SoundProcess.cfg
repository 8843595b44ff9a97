\* Volume commands, a user who turns the volume, and failures.
SPECIFICATION FairSpec
CONSTANTS
    Loudest = loud
    Off = off
    Levels = {loud, soft}
    Faults = {"pulse", "leave"}
    Backlog = 2
    Turns = 2
INVARIANTS TypeOK VolumeHeld LiveObjects StoppedMeansDrained
PROPERTY ImplementsLife
