# A verification of sleep-app

sleep-app is an alarm clock for a Linux machine. A daemon suspends the machine
when nobody uses it, lets the real-time clock wake it, and then plays a sound
in a separate process until the user asks for silence. If the player dies, the
daemon starts it again. A small client (`sa-control`) configures the daemon
over a socket; a game (a 2048 clone) lowers the volume as it is played, and
disarms the alarm when it is won.

This directory holds TLA+ models of that code, TLC configurations that check
them on small instances, and theorems that TLAPS proves for every instance.
Paths such as `main.c:432` are relative to `src/`.

1. [The system](#1-the-system)
2. [Modules, and how they correspond to the code](#2-modules-and-how-they-correspond-to-the-code)
3. [What the runs check](#3-what-the-runs-check)
4. [Bounds and fairness](#4-bounds-and-fairness)
5. [What is proved](#5-what-is-proved)
6. [Disagreements between the code and what it says](#6-disagreements-between-the-code-and-what-it-says)
7. [What is not modelled](#7-what-is-not-modelled)
8. [Plan](#8-plan)
9. [Running the checks](#9-running-the-checks)

## 1. The system

| Component | Code | State | Operations | What makes it correct |
|---|---|---|---|---|
| Alarm daemon | `main.c`, `process.c:106-269` | one mutex and one condition variable (`mut_trip`), `flag`, `req_stop_flag`, `act_flag`, the pid of the player, two threads and a detached monitor thread per player | observe, suspend, spawn, connect, start and stop the player, obey commands, cancel and join threads | the mutex protects what it is there for; no death of the player is missed; one player at a time; a disarm silences it; an error ends the program |
| Playback process | `sound.c` | the listening socket, the PulseAudio loop, context, stream and volume, four flags shared by two threads | `p`, `2`..`6`, `s` on the socket; nine callbacks | each command is answered once; the stop handshake waits for the last sound; no freed object is used; the volume cannot be turned down from outside |
| Suspend and wake alarm | `sleep.c`, `main.c:482-505` | the wake time, the RTC alarm | decide under the mutex, read the wake time, compute the seconds to it, arm the clock, suspend | the machine is woken, in the minute that was set, today or tomorrow |
| Activity sensing | `main.c:189-378` | two samples of `/proc/stat`, the X idle counter, the interval | sample twice, compare | a user who has left is noticed, whatever the interval is changed to |
| Process discovery | `process.c:1-170` | the entry of `/proc` being read, the copied environment | find pulseaudio under `/proc`, copy its environment, take its ids, exec | pulseaudio is found if it is there; its environment is copied whole; neither loop is held up by processes that come and go |
| Control client | `sa-control.c` | its options | up to five packets, then end of data | clients do not mix; what is sent is obeyed; nothing a client may say ends the daemon by accident |
| Playback socket client | `sa_util.c` | none | connect, send a byte, wait for the answer | it reports whether it was answered |
| Game | `2048.c` | the board, the score, the volume thresholds | slide, merge, add a tile, restart, send the volume | tiles are conserved, each merges once per move; keys move to the side they name; the volume follows the score |
| Transcoder | `audio_transcode.c` | decoder, resampler, a ring buffer | open, decode until n bytes are there, rewind at the end | a request for n bytes gets a block of its own with the next n bytes of the sound, for ever |
| Ring buffer | `ringbuf.c` | a buffer with head and tail | copy in, copy out, reset, find, read, write | it is a queue that keeps the last bytes put in |
| Prototype | `test.c` | | | not built |
| Build and deployment | `Makefile`, `sleep-app.service` | | | systemd ends the children of a daemon that has ended |

How they interact:

    sa-control --Unix socket, packets of 100 bytes--> control_listen --mutex, flags, broadcast--> main_loop
    main_loop --fork, exec--> playback process     main_loop --Unix socket: p, s--> playback process
    playback process --exit, waitpid--> monitor thread --mutex, flag, broadcast--> main_loop
    game --Unix socket: 2..6--> playback process   main_loop --sysfs--> RTC, suspend
    playback process: main() <--loop lock, flags, signal/accept--> PulseAudio thread <--> sound server
    PulseAudio thread --> transcoder --> ring buffer

Where it is hard:

* **Concurrency.** Three kinds of threads in the daemon contend for one mutex;
  `pthread_cond_wait` has one condition variable for two conditions (the player
  died; the user asked for silence); the thread that waits for a child is
  detached and learns the child's pid from shared memory when it first runs.
* **Failure.** Players crash at any point; `fork`, `exec`, `pthread_create` and
  the search for pulseaudio fail; a child that cannot exec *returns* into the
  code of the daemon; errors cancel the other thread asynchronously, whatever
  it holds.
* **Ordering.** A disarm may arrive before, in or after the wait; a player may
  die before its monitor runs or before `main_loop` waits; the sound server
  answers in its own time, and the user turns the volume in between.
* **Time.** The wake time is read without the mutex that guards it; the clock
  runs on between the look at it and the suspend; the interval changes while it
  is being slept.
* **A world that does not wait.** Processes come, go and reuse pids while
  `/proc` is read; clients connect and end while another one is served; the
  player is replaced while the game talks to it.
* **Handshakes.** The stop of a player passes through two threads that wait for
  each other (`pa_threaded_mainloop_wait`, `_signal` with `wait_for_accept`,
  `_accept`).

The hazards, each at its line with the properties aimed at it, are listed in
`PROJECT.json`.

## 2. Modules, and how they correspond to the code

| Module | Role |
|---|---|
| `AlarmDaemon` | the daemon with its threads, copies and monitors, and the life of the players it spawns |
| `AlarmClock` | what the daemon promises its user; `AlarmDaemon` implements it (`ImplementsClock`) |
| `SoundProcess` | one player from `listen()` to its end: `main()` and the PulseAudio thread, with the sound server and the user as environment |
| `SoundLife` | what a player looks like from its socket; `SoundProcess` implements it (`ImplementsLife`), `AlarmDaemon` relies on it |
| `Transcode` | a player's sound file, decoded for ever in answer to requests |
| `RingBuf` | the ring buffer, chunk by chunk |
| `ByteFifo` | what a ring buffer promises; `RingBuf` implements it (`ImplementsFifo`) |
| `Inactivity` | the actions of `sa_main_is_inactive`, and the state it works on |
| `WakeAlarm` | the actions from the decision to sleep to the alarm; extends `Inactivity` |
| `SleepCycle` | the composition of the two: the cycle of `main_loop`, with the commands that set what it reads |
| `ControlWire` | `sa-control`, its packets, and the thread of the daemon that obeys them |
| `Slide` | `slideArray` and `findTarget` loop by loop, on one line |
| `SlideRule` | the rule of the game for one line, as recursive functions; `Slide` computes it (`ComputesRule`) |
| `Game2048` | the game on the whole board, with the volume commands and a player that comes and goes |
| `ProcScan` | the search through `/proc`, and the child up to its `execve` |
| `MC...` | symmetry, inputs and small constants for TLC |
| `...Proofs` | theorems |

### AlarmDaemon

State:

| Variable | In the code |
|---|---|
| `mem[s]` | the memory of process `s`: the owner of `mut_trip.lk`, `mut_trip.flag` and `.pid`, `req_stop_flag`, `act_flag`, and the locals `fin_play` and `i` of `sa_main_req_sound_playback` |
| `pc[s]` | where the `main_loop` thread of process `s` is. It is a function of the process because a child whose exec fails goes on in the copy of that thread |
| `proc[p]`, `parent[p]` | the process with pid `p`, from `fork` to the `waitpid` that frees the pid; the states from `exec` to `stop` are those of `main()` in `sound.c` |
| `sock` | whose socket the file `PLAYBACK_SOCK_NAME` names; a process unlinks the file when it starts and when it ends, whoever owns it |
| `conn[s]` | the connection of `sa_main_w_play_sock`: connected, sent, acknowledged, or reset because the peer died |
| `mon[m]` | the detached threads of `sa_process_monitor` |
| `ctl`, `msg` | the thread `sa_main_listen_on_control`, and the command it received |
| `boot`, `cancel` | `main()`, and threads with a pending `pthread_cancel` |

Actions follow the stretches of code between two points at which another
thread, process or signal can interfere. `pthread_cond_wait` is three of them:
release (part of the step before), being woken (`MonitorSignals`, `CtlDecodes`,
`SpuriousWakeup`), and regaining the mutex, which is one step with what
`main_loop` then does under it (`FinishPlayback`, `RestartPlayback`,
`StopPlayback`, `WaitAgain`). There are two loops over ten attempts. That over
the connection is kept (`ConnectRefused`), since a player comes to life between
two attempts; that over the search of pulseaudio is one choice (`FindUid`),
since no attempt before the successful one has an effect. `i` is kept since what follows the loop depends on it.

The memory of a forked process is a copy of its parent's, the mutex it holds
included. `ChildExecs` blanks it; `ChildFails` does not. `ExitsLeaving` is the
end of a process as the kernel arranges it: peers see a reset, children are
inherited by init, threads vanish, a zombie stays until waited for.

`req_stop_flag` is not initialised by `main()`, so `Init` allows both values.
`shared_cntx.stderr_lk` is not either; locking it is undefined, and the
model lets it work or never return (`AfterSpawnError`). Cancelling a thread
that does not exist (an error before `control_listen` is created or after it
was joined) does nothing or ends the process (`LoopFails`).

### AlarmClock

Four variables (phase, armed, asked, a player is alive) and one action per
thing a user can observe. The refinement mapping reads the phase from `boot`,
`pc` and `fin_play`. Its content: playback starts only after a suspend and
while nothing else plays, silence is begun only on request and consumes the
request, and the clock rests only when no player is alive. With its fairness:
an awakened clock rings, a ringing clock without a player starts one, a clock
asked for silence rests.

### SoundProcess and SoundLife

`main()` calls PulseAudio under the lock of the main loop, and the thread of
that loop holds the lock while it runs a callback, so a callback is one step
and a locked stretch of `main()` another. `req` and `rsp` are what is under way
to and from the sound server: requests in order, replies and notices in order.
The three requests that set port, mute and volume of a sink are one. The
waits of the two threads for each other are `main = "starting"`
/`"stopping"` and `loop = "signalling"`; the latter is entered by
`ContextDrained`, the callback that confirms the end, and left by `Stopped`,
which accepts the confirmation and joins the thread.

`SoundLife` is the player as `AlarmDaemon` takes it: its states have the names
of `AlarmDaemon`'s. Its two variables are what the client of the socket can
tell apart. So the actions of `AlarmDaemon` that serve commands are
justified by a refinement, and not by a second reading of `sound.c`.

### Transcode

`write_data_to_stream` is three steps: the request, the work of
`sa_decode_transcode`, and the block that goes to PulseAudio. The loop of
`sa_decode_transcode` is one action per library call that can end it: a packet
read (`ReadPacket`), the file rewound (`Rewind`), a frame encoded into the ring
buffer (`ReceiveFrame`), a frame that does not fit (`FrameLost`), the decoder
that wants more (`DecoderDry`), the block filled (`FillBlock`), and an error
each. The sound is the numbers `0 .. FileBytes - 1` over and over, so that a
gap or a repetition shows. `tmp` is the block `tmp_buf` points to and `owner`
who may touch it: PulseAudio frees it after it has played. `trouble` records
whether an error was the library's or came from a ring buffer that is too
small. The ring buffer is a sequence here, which `RingBuf` justifies.

### RingBuf and ByteFifo

A buffer has `Capacity + 1` slots, and `head` and `tail` are slot numbers. A
call begins with one action (which decides `overflow`, as the code does before
its first byte), goes on with one step per iteration of its `while` loop, and
ends with `Return`, where an overflow moves the tail. `ringbuf_findchr` is a
function of the offset, its tail call a recursion.

`ByteFifo` has one queue per buffer. The refinement lets a call take effect
when it begins: while it runs, the queue is what the array will hold at its end
(`Queue`): what is there, with what is still to be copied behind it and the
oldest bytes cut off.

### Inactivity, WakeAlarm and SleepCycle

One thread takes the steps of `Inactivity` and `WakeAlarm` in turns, so they
share `pc`, and each action names the variables of the other as unchanged.
`SleepCycle` composes them, lets time pass for both, and adds the commands.

* `FirstSample` reads `sleep_time` without the mutex and calls `usleep` with
  the product of it and 1000000, which wraps (`Pause`). `Second` is a second of
  that sleep, in which the processor works or not and the user is there or not.
  `Decide` compares under the mutex, with the interval of then, and looks at
  `act_flag`; then the mutex is released.
* `ReadHour` and `ReadMinute` are two steps: nobody holds the mutex and C does
  not order the arguments. `ComputeDiff` is the look at the clock and the
  difference, `SetAlarm` the RTC, `Suspend` the write to `/sys/power/state`.
  `Tick` lets time pass between them (`MaxSlip`) and during the sleep.
* Command 00 stores the hour and then the minute (`SetHour`, `SetMinute`). It
  holds the mutex, and main_loop reads without it, so the two stores are two
  steps while `main_loop` works on a sleep. Before that, when only a locked
  comparison follows, they are one (`SetTime`).
* `gone`, `wishes` and `disturbed` are history: whether the user has left for
  good, the wake times that were set for this sleep, and whether it was cut
  short.

### ControlWire

A command line is a sequence of options, each perhaps with a word behind it.
argp delivers all options first and then the words in their order, so the
functions from `Count` to `FileName` say which word becomes what. `Packets` is
what is then sent, in this order. The daemon's thread takes one packet at a
time (`Obey`), and what each does is an action; `DecodeFails` and `Hangup` end
the daemon. Packets are whole: the two ends send and receive 100 bytes at a
time.

### Slide, SlideRule and Game2048

`Slide` keeps the loops of `slideArray` and `findTarget` and their variables
(`x`, `t`, `stop`); `t` is unsigned in the code, and the loop condition
`t >= 0` always true. `SlideRule` is the same line as recursive functions, checked
against the table in `test()` of `2048.c`, and `ComputesRule` says that the loops
compute it. The names of `Slide` (`SlideInit`, `SlideSpec`, `loop`, ...) differ from
those of `Game2048`, so that `GameProofs` can extend both. `Game2048` uses the rule
for whole columns, and the rotations of the code for the four directions. A turn goes through the
program points at which the code may wait: the key, the question for a restart,
the answer of the player. `player` and `volume` are the player as
`SoundProcess` has it, in what the game can tell apart.

### ProcScan

A *life* is what one process executes from one `execve` to the next, or to its
end: pids are reused, and an open `environ` belongs to the life it was opened
for. `readdir` fetches the entries of some more pids at once (`Fetch`), so
an entry may be stale when its status is opened (`ParseStateFile`).
`CountStrings` and `CopyString` are the two passes over the environment. Both
keep the result of `fgetc` in a `char` (`process.c:131`). The first one compares
it with -1, so a byte 0xFF ends the count as EOF does, and only the strings
before it are counted (`Countable`); the bytes themselves are left out, and
`before` says of a program how many strings that are. The second one waits for a
zero byte and reads over 0xFF, so each string it copies is whole; after the
process has ended, `fgetc` returns EOF for ever and that loop does not end
(`"endless"`). This is the code as compiled where `char` is signed, as on x86;
where it is unsigned the first pass never ends. `Execve` after a failed
`setregid` or `setreuid` gets an `envp` that was freed: any part of it may reach
the program, or the call fails, and then `envp` is freed again, which may abort
the child. The `status` of a living process may fail to be opened or read
(`Faults`), and the walk goes on as if it did not match. `staying` and `unread`
are history: the matching lives that have been there all the time, and whether
a part of `/proc` could not be read.

## 3. What the runs check

| Run | Module | Question | Properties | States |
|---|---|---|---|---|
| `recovery` | `MCAlarmDaemon` | players crash anywhere or cannot be created or watched, the user disarms anytime and repeatedly, waits return spuriously | `TypeOK`, `MutualExclusion`, `DeathWillBeNoticed` | 759 thousand |
| `spawn` | `MCAlarmDaemon` | pulseaudio is not found, `fork`, `pthread_create` and `exec` fail, children return into copies of the daemon | `DeathWillBeNoticed` | 2.2 million |
| `clock` | `MCAlarmDaemon` | with crashes and every error of either thread, is the daemon the abstract alarm clock | `OneSound`, `LeavingMeansDied`, `ImplementsClock`, `DeathEndsWait`, `DisarmStops`, `ErrorLeadsToExit` | 29 thousand |
| `sound` | `SoundProcess` | any clients, a user who turns the volume, failures of server and clients | `TypeOK`, `VolumeHeld`, `LiveObjects`, `StoppedMeansDrained`, `ImplementsLife` | 182 thousand |
| `transcode` | `MCTranscode` | a file that ends in the middle of a request, just enough room, errors of every library | `AnswerIsFresh`, `Gapless`, `Answered` | 1.2 million |
| `ring_buffer` | `MCRingBuf` | every sequence of calls on two buffers | `Accounting`, `FindchrFindsFirst`, `FullAfterOverflow`, `CallReturns`, `ImplementsFifo` | 115 thousand |
| `sleep_cycle` | `SleepCycle` | every time of day and wake time, any load and input, commands at any time, a disturbed night | `RingsOnTime`, `GoneIsWoken`, `LongSleepEnds` | 664 thousand |
| `control` | `MCControlWire` | two clients with any of thirteen command lines, who may be interrupted | `OneAfterTheOther`, `EndsForAReason`, `ActivatedWithOwnTime`, `SentIsObeyed` | 57 thousand |
| `slide` | `MCSlide` | every line of four cells | `TargetInArray`, `ComputesRule` | 14 thousand |
| `game` | `MCGame2048` | whole games with restarts, and a player that comes and goes | `ScoreIsWorth`, `DirectionsAgree`, `VolumeEarned`, `WonIsQuiet` | 814 thousand |
| `proc_scan` | `MCProcScan` | processes come, go, change and reuse pids; system calls fail | `NotFoundMeansAbsent`, `WholeOrGone`, `Decides` | 1.1 million |
| `find_restart` | `MCAlarmDaemon` | a counterexample; see section 6 | `RestartMeansDied` | |

What they show:

* **The mutex works** (`MutualExclusion`), although `main_loop` unlocks it
  without holding it after a failed observation (`main.c:487`), although the
  mutex is held across `fork` and comes to a copy of the daemon locked, and
  although threads are cancelled inside their critical sections. The unlock is
  harmless because the thread that does it decodes nothing afterwards and ends.
* **No death is missed** (`DeathWillBeNoticed`, `DeathEndsWait`). Whatever the
  order of fork, start of the monitor, death, `waitpid` and wait, a monitor
  that has not yet signalled exists whenever `main_loop` waits or is about to,
  or the flag is already set when it has been woken. This holds for copies of
  the daemon too, and also when the monitor starts so late that it reads the
  pid of the *next* player: two monitors then wait for one child, and both
  report.
* **One player at a time** (`OneSound`), and none is replaced or left alive
  (`LeavingMeansDied`), provided that the user disarms an alarm once and only
  when he hears it. Without the proviso the latter is false (`find_restart`).
* **An error ends the program** (`ErrorLeadsToExit`), with two threads that
  cancel each other, possibly both at once, and a `main()` that joins them in
  a fixed order.
* **The player cannot be turned down** (`VolumeHeld`) by a user who turns the
  volume of the speaker at any time: whenever nothing is under way, the speaker
  has the volume last commanded. It rests on the order of the three requests
  in `sound.c:139-143`.
* **The stop handshake is sound** (`LiveObjects`, `StoppedMeansDrained`,
  `ImplementsLife`): the stream is drained once, dropped once, and untouched
  afterwards; `main()` frees things only when the context is closed; the two
  threads never wait for each other for ever.

* **The sound is endless and whole** (`Gapless`, `AnswerIsFresh`, `Answered`):
  until the first error every request gets a fresh block with the next bytes,
  over the end of the file and on from its start. `AnswerIsFresh` rests on the
  ring buffer having room for one request and one packet more (`Roomy`): with
  less it is false, since nobody looks at the result (section 6).
* **The ring buffer is a queue** (`ImplementsFifo`) that keeps the last bytes,
  also for a copy that writes around the array several times; and its own
  assertions hold (`Accounting`, `FullAfterOverflow`).
* **The machine is woken on time** (`RingsOnTime`): in the minute that was set,
  or as much later as the program takes between its two looks at the clock. A
  SET TIME that falls between the reads of hour and minute makes it ring at the
  hour of one wish and the minute of another, which the property allows and
  section 6 reports. **It is woken at all** (`LongSleepEnds`), whatever happens
  in the night, except when the wake time is the current minute.
* **A user who leaves is woken** (`GoneIsWoken`), whatever the interval is
  changed to meanwhile, also when command 03 arrives between the pause and the
  comparison, and also if the interval in microseconds wraps, as long as a pause
  is left of it. Without one, as for the interval 0, nothing ensures that any
  time is counted between the two readings (section 6).
* **Clients are obeyed one after the other** (`OneAfterTheOther`), completely
  (`SentIsObeyed`), and one that sets a time never activates the alarm with the
  time of another (`ActivatedWithOwnTime`). The daemon accepts every time that
  the client lets through (`EndsForAReason`).
* **The game is the game** (`ComputesRule`, `DirectionsAgree`, `ScoreIsWorth`),
  with a loop whose condition is always true and which yet stays inside the
  line (`TargetInArray`). **Its volume is earned** (`VolumeEarned`): no restart,
  and no replacement of the player at any point, leaves the alarm quieter than
  the score allows; and who wins has turned it all down (`WonIsQuiet`).
* **A pulseaudio that is there is found** (`NotFoundMeansAbsent`), if `/proc` and
  its `status` can be read. A child that has met no error takes its whole
  environment, unless it has ended or has a byte 0xFF in it (`WholeOrGone`). The
  search always ends; the copy ends if that process lives on (`Decides`).

Every property has a mutant of the modelled code in `PROJECT.json` that breaks
it (an operator named after the bug stands before the action it alters).

## 4. Bounds and fairness

| Bound | Value | Why it is enough |
|---|---|---|
| `Pids` | 2 | the player `main_loop` supervises and one predecessor, or a copy of the daemon and its child. Pids are recycled; a zombie that nobody will wait for does not use one up (`Fresh`) |
| `Monitors` | 2 | slots are recycled. Two are needed for the case that a monitor outlives its player's supervision; a supervisor starts on a player only when a slot and a pid are left (`RoomLeft`) |
| `Tries` | 2 (10 in the code) | attempts differ only in being the first, the last or neither; the theorems hold for every value from 2 |
| `Levels` | 2 (5 in the code) | the loudest and another one |
| `Backlog` | 2 | bounds volume commands while many requests are under way, and so the queues |
| `Turns` | 2 | the user turns the volume twice, before and after any step |
| `File`, `Capacity`, `Requests` | 3 packets of 2, 1 and 2 bytes; 4; 1 or 2 | a request may take more than a packet or less, the file ends in the middle of one, and the ring buffer holds one request and one packet, its least size |
| ring buffers | capacities 1 and 2, calls of up to 4 bytes | calls shorter and longer than either buffer, up to twice around; a copy in both directions; the theorems hold for every capacity |
| `Hours`, `Minutes`, `Seconds` | 2 each | a wake time earlier and later in the day, in the hour and in the minute, and midnight in between |
| `MaxSlip` | 1 | a minute may or may not end between the two looks at the clock |
| `Intervals`, `Micro`, `Word` | 0, 1 or 3; 4; 8 | no pause, one that fits the word, and one that wraps to a shorter pause |
| `MaxWindow`, `MaxIdle` | 2; 4 | the idle time exceeds all intervals, and `usleep` may take longer than it was told |
| wishes in a night | 2 | a SET TIME that falls between the decision and the sleep; a second one would be torn in the same way |
| `Clients`, `CommandLines` | 2, thirteen lines | each packet is in one of them, each refusal of the client and of the daemon too; a third client meets the daemon as the second does |
| `SIZE` of a board | 2 (`game`), 4 (`slide`) | the rule and the loops are checked on whole lines of the real size, the rest of the game does not depend on it |
| thresholds | 7, 15, 19 and 27 | reached by a board of four cells, and passable two at a time |
| `MaxPid`, `MaxLives` | 3, 4 | all pids may be in use and one is reused, before, behind and at the place of the walk |
| `Programs` | four | an environment without 0xFF, one with it behind the first string, an empty one, and a program that does not match |

The environment of a run is named in its `.cfg`: `Faults` are the failures that
may occur, `Commands` what arrives on the control socket, `Spurious` whether
waits may return without a signal, and `Patient` whether the user disarms only
an alarm that is heard. Symmetry is used in safety runs only.

Deadlock is checked except where the program really may stop: in `recovery`
and `spawn`, because printing an error locks an uninitialised mutex, which may
block for ever; in `sleep_cycle` when the thread has failed; in `control` when
all clients are done; in `slide`, `game` and `proc_scan` because line, game and
search end.

Fairness is assumed of threads and processes only:

* A thread that can take a step eventually takes one: weak fairness of the
  players, `main()`, cancellation, and both threads of a player.
* A thread that wants the mutex of the daemon eventually gets it: strong
  fairness of `main_loop`, the monitors, `control_listen`'s steps and a
  cancelled wait, since the mutex may be taken and released by others in
  between. Holders release it after finitely many steps (or the assumption
  would help nothing), and glibc hands out the mutex to a waiter woken by the
  release, which competes only with occasional commands.
* The sound server answers requests, and goes on playing an open stream
  (strong fairness of `ServerAsks`, as it is disabled while data are under way).
* The other programs run: the decoder and the ring buffer, the copy loops, the
  walk through `/proc` and the child, a client of the daemon. Time passes
  (`SecondPasses`), and a command that has begun is finished.
* What users, clients and faults do is not fair: they may act or not. Thus
  nothing is claimed of an alarm that nobody disarms.

## 5. What is proved

For every value of the constants, so for every number of processes, monitors,
attempts, commands and faults, every file, buffer size and line:

| Theorem | Statement |
|---|---|
| `AlarmDaemonProofs!TypeCorrect` | `Spec => []TypeOK` |
| `AlarmDaemonProofs!MutexCorrect` | `Spec => []MutualExclusion` |
| `AlarmDaemonProofs!DeathNoticed` | `Spec => []DeathWillBeNoticed` |
| `AlarmDaemonProofs!OneSoundAlways` | `Undisturbed` implies `Spec => []OneSound` |
| `AlarmDaemonProofs!LeavingMeansDiedAlways` | `Undisturbed` implies `Spec => LeavingMeansDied` |
| `AlarmDaemonProofs!ImplementsClockSafety` | `Undisturbed` implies `Spec => Clock!Safety`: the refinement without its fairness |
| `SoundProcessProofs!SoundTypeCorrect` | `Spec => []TypeOK` |
| `SoundProcessProofs!SoundLiveObjects` | `Spec => []LiveObjects` |
| `SoundProcessProofs!SoundStoppedMeansDrained` | `Spec => []StoppedMeansDrained` |
| `SoundProcessProofs!SoundVolumeHeld` | `Spec => []VolumeHeld` |
| `SoundProcessProofs!SoundImplementsLife` | `Spec => AsSeen!Safety`: the refinement without its fairness |
| `RingBufProofs!TypeOKAlways` | `Spec => []TypeOK`: no pointer leaves its array |
| `RingBufProofs!AccountingAlways` | `Spec => []Accounting` |
| `RingBufProofs!FullAlways` | `Spec => FullAfterOverflow` |
| `RingBufProofs!RingBufIsFifo` | `Spec => ImplementsFifo`: the refinement of `ByteFifo` |
| `RingBufProofs!FindchrFindsFirstAlways` | `Spec => []FindchrFindsFirst` |
| `TranscodeProofs!TypeOKAlways` | `Spec => []TypeOK`: the ring buffer never overflows |
| `TranscodeProofs!FreshAlways` | `Roomy` implies `Spec => []AnswerIsFresh` |
| `TranscodeProofs!GaplessAlways` | `Spec => []Gapless` |
| `GameProofs!TargetInArrayAlways` | `SlideSpec => []TargetInArray` |
| `GameProofs!SlideTypeOKAlways` | `SlideSpec => []SlideTypeOK` |
| `GameProofs!ComputesRuleAlways` | `SlideSpec => []ComputesRule`: for a line of any length |
| `GameProofs!ScoreIsWorthAlways` | `Spec => []ScoreIsWorth` |
| `GameProofs!DirectionsAgreeAlways` | `Spec => []DirectionsAgree` |
| `GameProofs!VolumeEarnedAlways` | `Spec => []VolumeEarned` |
| `GameProofs!WonIsQuietAlways` | `Spec => []WonIsQuiet` |
| `ProcScanProofs!TypeOKAlways` | `Spec => []TypeOK` |
| `ProcScanProofs!NotFoundMeansAbsentAlways` | `Spec => []NotFoundMeansAbsent` |
| `ProcScanProofs!WholeOrGoneAlways` | `Spec => []WholeOrGone` |
| `SleepCycleProofs!TypeOKAlways` | `Spec => []TypeOK` |
| `SleepCycleProofs!RingsOnTimeAlways` | `Spec => []RingsOnTime` |
| `ControlWireProofs!TypeOKAlways` | `Spec => []TypeOK` |
| `ControlWireProofs!OneAfterTheOtherAlways` | `Spec => []OneAfterTheOther` |
| `ControlWireProofs!EndsForAReasonAlways` | `Spec => []EndsForAReason` |
| `ControlWireProofs!ActivatedWithOwnTimeAlways` | `Spec => ActivatedWithOwnTime` |

The assumptions are those of the modules: the daemon is not among the pids it
forks, nobody is a process, there are at least two attempts (`Tries - 1` is the
last one and not the first), the loudest level is a level, a level is not a
query, capacities are natural numbers, the packets of the file number its bytes
in order, a board has at least two columns, and the thresholds of the game are in
order and not above the goal, and no program has more strings before a byte 0xFF
than in all. TLC evaluates them in every run. `Roomy` and `Undisturbed` are
hypotheses of their theorems and not assumptions of the modules, because the
code does not ensure them (section 6): a packet may decode to more than the ring
buffer has room for; and `Undisturbed` is: no wait ends without reason, every child gets a monitor and
runs the playback program, and the user disarms only an alarm that he hears.
`find_restart` and the others of section 6 show what happens when one of them is
missing. Under `Undisturbed` players still die, refuse and time out, monitors
are slow, and errors end threads at any time.

**MutexCorrect.** `MutualExclusion` says only who holds the mutex while
`main_loop` is in its critical section. It is not inductive: a copy of the
daemon enters that section by being forked, and `control_listen` enters its
own section while `main_loop` may fail in between. `MutexInvariant` adds what
both need: a child is born with the mutex held because its parent held it, only
copies run `main_loop`, `control_listen` does not exist before `main()` makes
it, and when it decodes a command it holds the mutex unless a failing
`main_loop` has taken it away, in which case that loop is in `"fail"` and never
comes back.

**DeathNoticed.** Together with the types and the mutex, `DeathWillBeNoticed`
is itself inductive. The step that matters is the signal of a monitor: it frees
its slot, and the supervisor it watches for must no longer need it. It takes
the mutex, so the supervisor is not in its critical section (`MutexCorrect`),
so it waits (and is woken with the flag set), has been woken (the flag is set),
or does not wait at all. A monitor in `waitpid` for another pid than the
current player's is left over from a player before, and a fork always adds a
monitor that has not read the pid yet.

**OneSound, LeavingMeansDied.** `Alone` is inductive for an undisturbed daemon:
what is alive is the child started last (`OneChild`), there is at most one
monitor, for that child, and it takes the mutex only when the child is dead
(`OneMonitor`), and `main_loop` wakes up only because the child died or is to be
stopped with no disarm under way (`WokenForAReason`). Every step but `fork()`
adds nothing to this (`Fewer`); the daemon comes back to a stage in which it may
fork only with nothing left, since the flag it waits for is set by the monitor's
last step (`Settled`).

**ImplementsClockSafety.** Each action is mapped to one of the alarm clock or to
a stutter: suspending is `FallAsleep`, taking the mutex after the resume `Ring`,
`fork()` `Play`, a player's end `Die`, sending the stop `Silence`, going back to
watching `Rest`, an error or the exit `Fail`. With `Alone`, a player's end is that of the only one, and the clock rests
only when nothing plays. `Booting` covers the steps of `main()` before the loop
exists.

**SoundProcess.** `Stages` (what `main()` does and what the main loop is, move
together), `Silence` (nothing is under way before the context is ready) and
`Draining` (the request for the stream, its drain, the reply, the end: each
once, in this order) are jointly inductive; these properties and the steps
of the refinement follow.

**VolumeHeld.** `Settling` says that something under way will yet set the
speaker. `NoticesHeard`: the subscription goes ahead of any volume in the queue
to the server, and the notice of a volume that the server has taken comes behind
the confirmation of the subscription, so it will be heard. `VolumeComes`: when
the context is ready, a query of the sinks, its reply or a notice is under way,
or the last volume requested is `curr_volume`, or the speaker has it. The lemmas
about order in a queue (`AppendOrder`, `TailOrder`) say what adding and taking
an element keep. When nothing is under way, only the last case is left.

**RingBuf.** `Accounting` is the strengthening that makes the pointers safe:
what a reading call has still to take is in the buffer, and what a call without
overflow has still to write has room. `Running` adds that a call is about
different buffers and that its counts agree. The arithmetic of pointers that
wrap is in lemmas about the room between two slots (`FreeIsFreeOf`,
`HeadMoves`, `TailMoves`): moving the head by n within the room takes n of it,
moving the tail gives it back. `FullAlways` needs none of it: `Return` puts the
tail behind the head.

**RingBufIsFifo.** `Queue` is what the array will hold when the call under way is
done: what it holds now, without what a reading call has still to take, followed
by what a writing call has still to put. Where a call begins, that makes one step
of the queue; each chunk moves bytes from one part of the sum to the other, and
`Return` has nothing left to move, so both stutter (`IntoChunkStutters`, ...).
Overwriting is the hard case: the contents are always the last bytes of the array
as seen from behind the head (`ContentsAreLast`), at most capacity many, and the
last bytes of a sequence whose front is dropped are the same (`LastOfRest`,
`LastOfLast`). `Forgotten` adds that a call's overflow is forgotten where it
returns.

**FindchrFindsFirst.** The search looks at one stretch up to the end of the
array, and if that is not all, at a second one from its start. So no induction
over the number of stretches is needed: `SearchSplits` says that the first
occurrence in a joined range is that in its first part, or else that in its
second.

**Transcode.** `FreshAlways`: `Fits` says that as long as nothing has failed the
ring buffer and the decoder together hold no more than a request and a packet,
so every frame finds room, and the only way to write is after `FillBlock`.
`GaplessAlways`: `Run(p, s, q)` says that the bytes of `s` lead from position `p`
of the sound to position `q`. Runs can be joined and split (`RunJoin`,
`RunSplit`), each packet is one (`PacketRun`), and `Unbroken` says that the last
byte heard, the block on its way, the ring buffer and the decoder are one run to
the next packet of the file.

**Induction in GameProofs.** The library's induction theorems take the property as
an operator, which the provers cannot instantiate. `GameProofs` has its own for
sets (`Least`, `Induction`), from the theorem that a well-founded relation has
minimal elements. With it, `Recursion` shows that a recursive function has the
value of its defining equation in every point; `Loop` and `Unroll` are its forms
for counting up, for `Shown` and `Total`, and for going down by one or two, for
`Tiles`, `Merge` and `MergeScore`.

**ScoreIsWorth.** A tile `2^e` was made by merges that scored `(e - 1) * 2^e` in
all, 4 less for every 4 that came as a 4. Merging a pair scores what the new tile
is worth more than the two (`WorthOfPair`), so by induction sliding a line scores
what the line is worth more (`MergeWorth`, `TilesWorth`, `SlidWorth`). The
rotations only permute the sum over the board (`TotalReversed`, and
`TotalSwapped` for the sum by rows and by columns), and a new tile adds its own
worth to an empty cell (`PutWorth`). `Counted` is the invariant.

**DirectionsAgree.** Each direction is a composition of rotations around `Up`;
`RotateBoardIs` and `HalfIs` say where each cell goes, for every board.

**VolumeEarned, WonIsQuiet.** `Sounds`: the flags that are left are those of the
levels `3 .. top - 1`, and a command under way to turn the volume down was earned
by the score, like the volume itself. `Heard`: as long as the same player has
played all the game, the level it is at, or will be at when it has heard what is
under way, is the one above the flags that are left; the game is won with none
left, so at level 3.

**Slide.** As far as the line was visited it is packed into `m` tiles (`Packed`).
The search of `findTarget` ends because all it has passed is empty, and because
it does not go behind the last tile, or behind the stop position if that tile was
merged already (`Aiming`): so `t` never wraps, although its loop has no end.
`Computing` is the invariant of the computation: the result of the rule is what
is settled, followed by the rule applied to the last tile, if it may still
merge, and the tiles ahead; and likewise the score. `Reported`: whatever moves
makes some cell larger than it was in the beginning, and that cell stays larger,
so `success` is true exactly if the line has changed.

**ProcScan.** `Ahead` is the reason why nothing is missed: as long as the walk
goes on, every matching process that has been there all the time is among the
entries fetched, or under a pid where the next fetch starts or behind it. A fetch
keeps it for any cut, and the entry that is dropped is that of a process that has
ended or does not match, or `unread` records that its status failed. For the
environment, `Counted` says that the number of strings is that of those before a
byte 0xFF while the process lives, and that a child whose `envp` was freed has
`err` set; a life that has ended never comes back, because every new one has a
new number (`Numbered`).

**SleepCycle.** `RingsOnTime` follows a sum through the night: the clock plus the
seconds that remain is the wake time plus what has been lost on the way, plus
full days (`Aims`). `ComputeDiff` establishes it with the seconds of the current
minute as the loss, whether the wait is today or tomorrow (`WaitIsInDay`); each
second before `SetAlarm` adds one to the loss, of which there are at most
`MaxSlip`; each second after it moves from the wait to the clock (`AimMoves`,
with the wrap at midnight in `ClockMoves`). `Wished` says that the hour and the
minute that are read come from wishes, perhaps two different ones. At the end
`ModOfMultiple` removes the full days.

**ControlWire.** `Flow` says that the packets of a client that were obeyed, and
after them those that wait, are the ones it has sent, in order; `Queues` and
`Standing` that a client is in one of the two lines at most once, and behind
which of its own steps. Since the packet `eof` is the last one and no other
(`PacketsType`), the daemon accepts again only when all packets are obeyed
(`Turns`). `EndsForAReason` needs that every packet means something on the
command line (`Meant`) and that a command line that was rejected sends none.
`ActivatedWithOwnTime` needs that the packet of the time goes before that of the
activation (`TimeComesFirst`) and that nobody else is obeyed in between
(`OwnTime`).

Model-checked only: all liveness (`ErrorLeadsToExit`, `DeathEndsWait`,
`DisarmStops`, `Answered`, `CallReturns`, `GoneIsWoken`, `LongSleepEnds`,
`SentIsObeyed`, `Decides`, and the fairness of `AlarmClock` and `SoundLife`),
which, like `ENABLED`, the prover does not handle. Every other property of the
passing runs is a theorem. Numbers of the game are unbounded there, as in
the model: `score` is a `uint32_t`, which a board of 4 x 4 cannot overflow.

## 6. Disagreements between the code and what it says

Each is a property of the modules that states what a comment, a message or a
help text says. `find_restart` checks the first one; for the others put the
property in place of those of the configuration that is named, and TLC prints
the steps that lead there. (Add `CHECK_DEADLOCK FALSE` where it is not there.)

The daemon:

* `RestartMeansDied` (`FindRestart.cfg`): `main.c:447` says of the branch that
  starts playback again that the sound process died. A second disarm ends the
  wait for the first player before its death, its death then sets
  `mut_trip.flag` while `main_loop` watches, and nobody clears it. When the next
  alarm is disarmed, the stale flag is found first: a second player is started
  next to the first.
* `FinishMeansDied` (`AlarmDaemonRecovery.cfg`): `main.c:439` says that the
  wake-up with `fin_play` set is the end of the player. Any wake-up is taken for
  it, such as that of a second disarm while the player still stops.
* `GiveUpReported` (`AlarmDaemonSpawn.cfg`): `main.c:426` tests `i == 9` after
  the loop over attempts. That is true after a success at the last attempt,
  which is reported as "Multiple failed connects"; after ten failures `i` is 10,
  and the daemon waits as if the alarm were playing. The loop before it
  (`main.c:403`) has the same test.
* `ChildRunsOrExits` (`AlarmDaemonSpawn.cfg`): the child says "Exiting because
  envp is NULL" (`process.c:198`) and returns 1 into its copy of the daemon
  (`process.c:200`), which takes it for a failed fork and tries again: a second
  supervisor that no command reaches.
* `DisarmHeard` (`AlarmDaemonClock.cfg` with `Patient = FALSE`, `Faults = {}` and
  `Commands = {"on", "disarm"}`): command 04 is "Disarm the alarm" (`main.c:95`).
  Decoded between the resume and the first wait it sets `req_stop_flag`, but the
  wait is entered without looking at it (`main.c:432`).

Observing and sleeping (`SleepCycle.cfg`):

* `TimeWasSet`: `main.c:91` documents command 00 as one "SET TIME". The hour and
  the minute are stored together under the mutex, but read without it
  (`main.c:499`): the machine may be woken at the hour of the old time and the
  minute of the new one.
* `SleepsOnlyActive`: a "Deactivate alarm" (`main.c:93`) between the unlock at
  `main.c:493` and the suspend is not heard.
* `SleepEnds`: when the wake time is the current minute, the difference is 0 and
  not negative (`sleep.c:89`), and the wake alarm set for now may have gone by
  when the machine is suspended.
* `RingsOnTime` without `~disturbed`: the day is taken for 86400 seconds
  (`sleep.c:91`), so the alarm is an hour off when summer time begins; and
  `sleep.c:103` reports a failing `fwrite`, which only fills a buffer, but the
  kernel refuses in `fflush`, whose result is ignored: the alarm rings at once.
* `PauseIsInterval`: command 03 accepts every interval that is not negative
  (`main.c:155`), but `usleep` takes a 32-bit number of microseconds
  (`main.c:351`): from 4295 seconds on `sleep_time*1000000` wraps, and the load of
  a moment decides. (From 2148 seconds on the product does not fit into an int,
  which is undefined in C; as compiled it wraps, and up to 4294 seconds the
  conversion to the unsigned argument restores it.)
* `GoneIsWokenAnyInterval`: for an interval of 0, or one that wraps to 0,
  `usleep` does not wait, so the two readings of `/proc/stat` may be the same. The
  load is then 0/0, which is not a number and never below the limit
  (`main.c:369-372`), and a user who has left may never be noticed, although only
  a negative interval is refused ("Sleep time should not be negative.",
  `main.c:156`).

The player (`Transcode.cfg` with `Capacity = 3` and `Faults = FALSE`):

* `AnswerIsFresh`: after "Ring buffer to small. Packet does not fit"
  (`audio_transcode.c:237`) `write_data_to_stream` does not look at the result
  (`sound.c:52`) and hands the block of the previous request to PulseAudio again,
  which has freed it. The real buffer is 256000 bytes, which is far more than
  the usual request and packet.

The control client (`ControlWire.cfg`):

* `ObeysCommandLine`: `-m 1 -h 2` sets 01:02, because neither option takes an
  argument of its own (`sa-control.c:25-26`, `74`).
* `ActivatedOnlyIfAsked`: every invocation sends the activation
  (`sa-control.c:170`, the default at `241`), also one that only disarms.
* `FileIsSet`: the client checks the file name in its own directory, the daemon
  opens it in another and ends when it cannot (`main.c:183-188`).

The game (`Game.cfg`):

* `NoChangesNothing`: "RESTART? (y/n)" (`2048.c:405`); after "n" the loudest
  volume is sent and the flags are set all the same (`2048.c:408-412`).

Process discovery (`ProcScan.cfg`):

* `ChildEnds`: "No exit, bc the process could have gone offline"
  (`process.c:138`). When it goes between the two passes, the second one reads
  EOF for ever (`process.c:151`).
* `EnvironmentOfFound`: "Process changed pid" (`process.c:197`) is said when
  `environ` cannot be opened. If another process has the pid, it can, and its
  environment is taken.
* `WholeAnyBytes`: `while((c = fgetc(fp)) != -1)` (`process.c:142`) is to read to
  the end of the file, but `c` is a `char`: a byte 0xFF ends the count, and the
  program is executed without the strings from there on.
* `ErrorPreventsExec`: after "Error setregid()" or "Error setreuid()"
  (`process.c:204`, `208`) the child frees `envp` and goes on to `execve` with it.

Also met while modelling, and part of the model: `stderr_lk` and
`req_stop_flag` are never initialised; an observation that fails unlocks a
mutex that is not held; `sa-control` sends an uninitialised file name
when `-f` has no word.

## 7. What is not modelled

* `AlarmDaemon` has the commands without a control effect (wake time, interval,
  file name) as one command `"set"`, and inactivity as a choice of the
  environment; `SleepCycle` and `ControlWire` have both for what they are. The
  two views meet at `act_flag` and the call of `put_to_wk_sleep`, not in one
  composed module: their product is beyond TLC.
* The volume commands of the game reach the players of `SoundProcess` and
  `Game2048`, not those of `AlarmDaemon`. The sound that is decoded reaches
  PulseAudio in `Transcode`; an error in decoding is one of the failures of
  `SoundProcess`.
* The load is a fraction of whole numbers, without the rounding of
  `long double`. The conversion of the wake time to UTC and to the struct of the
  RTC keeps the instant and is not shown.
* Copies of a ring buffer into itself, which nothing does, and `read` and
  `write` calls that fail, which change nothing.
* Drawing and the terminal mode of the game; `gameEnded` and `print_dings`,
  which are never called.
* `test.c` is not built. The build files and the unit file have no behaviour of
  their own.

## 8. Plan

Done: `AlarmDaemon`, `SoundProcess`, `Transcode`, `RingBuf`, `SleepCycle`,
`ControlWire`, `Slide`, `Game2048` and `ProcScan`, with the abstract
specifications and runs above, and the theorems for all safety properties that
the runs check. Left:

1. The invariants that the proofs found (`Alone`, `Settling`, `Sounds`, ...) say
   more than the properties. Those with a meaning of their own for a reader of
   the code should be stated beside them.
2. A composition in which one player of `AlarmDaemon` is a `SoundLife`, by
   `INSTANCE`, in place of the steps that were translated by hand.
3. Weaker hypotheses than `Undisturbed` for each of its three theorems: they
   share one invariant now, and each may need only a part of it.

## 9. Running the checks

    tlc -workers 2 -config AlarmDaemonRecovery.cfg MCAlarmDaemon
    tlc -workers 2 -config SleepCycle.cfg SleepCycle
    tlapm AlarmDaemonProofs.tla

and likewise for the other runs and the other `...Proofs` modules.
`PROJECT.json` lists the runs with their modules and configurations, the mutants,
the source lines each definition models, the hazards and the theorems.
