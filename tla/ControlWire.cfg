\* Two clients with any of thirteen command lines, who may be interrupted; the
\* daemon cannot open one of the files.
SPECIFICATION Spec
CONSTANTS
  Clients = {"first", "second"}
  CommandLines <- MCLines
  Atoi <- MCAtoi
  MaxHour = 2
  MaxMin = 3
  ClientFiles = {"a.mp3", "b.mp3"}
  DaemonFiles = {"a.mp3"}
  Garbage = "garbage"
  NoWord = "none"
  Interrupts = TRUE
INVARIANTS OneAfterTheOther EndsForAReason
PROPERTIES ActivatedWithOwnTime SentIsObeyed
CHECK_DEADLOCK FALSE
