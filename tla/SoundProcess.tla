----------------------------- MODULE SoundProcess -----------------------------
(***************************************************************************)
(* A playback process from listen() to its end (sound.c): main() serves    *)
(* the playback socket, and the thread of the PulseAudio main loop runs    *)
(* the callbacks.  main() enters PulseAudio only under the lock of the     *)
(* main loop, which that thread holds while it runs a callback and in      *)
(* none of its waits, so a callback is one step, and so is a stretch of    *)
(* main() under that lock.  The sound server is external: it answers       *)
(* requests in their order and notifies of changes of the sink.            *)
(***************************************************************************)
EXTENDS Naturals, Sequences

CONSTANTS
    Levels,     \* SOUND_LVL_2 .. SOUND_LVL_6
    Loudest,    \* SOUND_LVL_6
    Off,        \* a volume the user prefers
    Faults,     \* what may fail: the sound server, and a client
    Backlog,    \* bound: no volume command with more requests under way
    Turns       \* bound: how often the user turns the volume

Queries == {"info", "subscribe", "stream", "drain"}

ASSUME LevelAssumption == Loudest \in Levels /\ Off \notin Levels /\ Levels \cap Queries = {}
ASSUME FaultAssumption == Faults \subseteq {"pulse", "leave"}
ASSUME BoundAssumption == Backlog \in Nat /\ Turns \in Nat

VARIABLES
    main,       \* where main() is
    after,      \* where it goes once it has answered: flag_vol_change and flag_finished
    loop,       \* the thread of the main loop m
    ctx,        \* the context c
    stream,     \* the stream p
    heard,      \* the callback for changes of the sink is set
    stop_sig_rcvd, stop_stream, pa_cntx_ready_flag, pa_mainloop_stopped_flag, curr_volume,
    req, rsp,   \* requests to the sound server; replies, notices, requests for data
    sub,        \* the server has accepted the subscription
    sink,       \* the volume of the speaker
    turns       \* how often the user may still turn it

flags  == <<stop_sig_rcvd, stop_stream, pa_cntx_ready_flag, pa_mainloop_stopped_flag>>
server == <<req, rsp, sub, sink, turns>>
vars   == <<main, after, loop, ctx, stream, heard, flags, curr_volume, server>>

Volumes  == Levels \cup {Off}
Requests == Queries \cup Levels      \* a level: set the volume of the speaker to it
Replies  == {"info", "subscribed", "event", "more", "drained"}

TypeOK ==
    /\ main \in {"accept", "starting", "ack", "volume", "stop", "stopping", "teardown", "gone"}
    /\ after \in {"accept", "volume", "stop"}
    /\ loop \in {"none", "running", "signalling", "ended"}
    /\ ctx \in {"none", "connecting", "ready", "terminated"}
    /\ stream \in {"none", "asked", "open", "gone"}
    /\ heard \in BOOLEAN
    /\ stop_sig_rcvd \in BOOLEAN /\ stop_stream \in BOOLEAN
    /\ pa_cntx_ready_flag \in BOOLEAN /\ pa_mainloop_stopped_flag \in BOOLEAN
    /\ curr_volume \in Volumes
    /\ req \in Seq(Requests) /\ rsp \in Seq(Replies)
    /\ sub \in BOOLEAN /\ sink \in Volumes /\ turns \in 0..Turns

(* curr_volume is a static variable, 0 until the context is ready.         *)
Init ==
    /\ main = "accept" /\ after = "accept"
    /\ loop = "none" /\ ctx = "none" /\ stream = "none" /\ heard = FALSE
    /\ stop_sig_rcvd = TRUE /\ stop_stream = FALSE
    /\ pa_cntx_ready_flag = FALSE /\ pa_mainloop_stopped_flag = FALSE
    /\ curr_volume = Off
    /\ req = <<>> /\ rsp = <<>> /\ sub = FALSE
    /\ sink \in Volumes /\ turns = Turns

Pulse == <<loop, ctx, stream, heard, server>>

-----------------------------------------------------------------------------
(* main(): one command per connection                                      *)

(* 'p': start the main loop, connect the context, and wait until it is ready. *)
ServePlay ==
    /\ main = "accept" /\ stop_sig_rcvd
    /\ main' = "starting" /\ after' = "accept"
    /\ stop_sig_rcvd' = FALSE /\ stop_stream' = FALSE
    /\ loop' = "running" /\ ctx' = "connecting"
    /\ UNCHANGED <<stream, heard, pa_cntx_ready_flag, pa_mainloop_stopped_flag, curr_volume, server>>

(* A second 'p': exit(1).                                                  *)
ServePlayTwice ==
    /\ main = "accept" /\ ~stop_sig_rcvd
    /\ main' = "gone"
    /\ UNCHANGED <<after, flags, curr_volume, Pulse>>

Started ==
    /\ main = "starting" /\ pa_cntx_ready_flag
    /\ main' = "ack"
    /\ UNCHANGED <<after, flags, curr_volume, Pulse>>

(* '2' .. '6'.                                                             *)
ServeVolume ==
    /\ main = "accept" /\ Len(req) + Len(rsp) <= Backlog
    /\ main' = "ack" /\ after' = "volume"
    /\ curr_volume' \in Levels
    /\ UNCHANGED <<flags, Pulse>>

(* 's'.                                                                    *)
ServeStop ==
    /\ main = "accept"
    /\ main' = "ack" /\ after' = "stop"
    /\ UNCHANGED <<flags, curr_volume, Pulse>>

(* A client that leaves before its command or its answer: SIGPIPE ends the *)
(* process; and so does exit(1) after an unknown command.                  *)
ClientFails ==
    /\ main \in {"accept", "ack"} /\ "leave" \in Faults
    /\ main' = "gone"
    /\ UNCHANGED <<after, flags, curr_volume, Pulse>>

Ack ==
    /\ main = "ack"
    /\ main' = after
    /\ UNCHANGED <<after, flags, curr_volume, Pulse>>

(* Ask for the sinks, whose volume the reply will set.                     *)
ApplyVolume ==
    /\ main = "volume" /\ ctx = "ready"
    /\ main' = "accept" /\ req' = Append(req, "info")
    /\ UNCHANGED <<after, flags, curr_volume, loop, ctx, stream, heard, rsp, sub, sink, turns>>

(* PulseAudio aborts the process when it is given no main loop, or asked   *)
(* of a context that is not ready.                                         *)
Aborts ==
    /\ \/ main = "volume" /\ ctx # "ready"
       \/ main = "stop" /\ loop = "none"
    /\ main' = "gone"
    /\ UNCHANGED <<after, flags, curr_volume, Pulse>>

(* Bug: main() waits for a confirmation that nobody was asked for. *)
RequestStopWithoutSignal ==
    /\ main = "stop" /\ loop # "none"
    /\ main' = "stopping"
    /\ UNCHANGED <<after, flags, curr_volume, Pulse>>

(* sa_sound_stop_playback raises the signal and waits for the main loop.   *)
RequestStop ==
    /\ main = "stop" /\ loop # "none"
    /\ main' = "stopping" /\ stop_sig_rcvd' = TRUE
    /\ UNCHANGED <<after, stop_stream, pa_cntx_ready_flag, pa_mainloop_stopped_flag, curr_volume, Pulse>>

(* Bug: main() does not wait for the confirmation. *)
StoppedUnconfirmed ==
    /\ main = "stopping"
    /\ main' = "teardown" /\ loop' = "ended"
    /\ UNCHANGED <<after, flags, curr_volume, ctx, stream, heard, server>>

(* The confirmation is accepted, and the thread of the main loop joined.   *)
Stopped ==
    /\ main = "stopping" /\ pa_mainloop_stopped_flag
    /\ main' = "teardown" /\ loop' = "ended"
    /\ UNCHANGED <<after, flags, curr_volume, ctx, stream, heard, server>>

(* Free everything, unlink the socket and return.                          *)
Finish ==
    /\ main = "teardown"
    /\ main' = "gone"
    /\ UNCHANGED <<after, flags, curr_volume, Pulse>>

(* The context or the stream fails, draining fails, PulseAudio cannot be   *)
(* connected to, an undecodable file leaves the stale tmp_buf to be freed  *)
(* twice: the process ends.                                                *)
Fails ==
    /\ main # "gone" /\ "pulse" \in Faults
    /\ main' = "gone"
    /\ UNCHANGED <<after, flags, curr_volume, Pulse>>

-----------------------------------------------------------------------------
(* The callbacks, in the thread of the main loop                           *)

Running == main # "gone" /\ loop = "running"
Callback(r) == Running /\ rsp # <<>> /\ Head(rsp) = r /\ rsp' = Tail(rsp)
In(e, s) == \E i \in DOMAIN s : s[i] = e
ToServer(r) == req' = Append(req, r)
MainFrame == UNCHANGED <<main, after, sub, sink, turns>>

(* Bug: the volume is not initialised. *)
ContextReadyMuted ==
    /\ Running /\ ctx = "connecting"
    /\ ctx' = "ready" /\ stream' = "asked"
    /\ pa_cntx_ready_flag' = TRUE
    /\ req' = req \o <<"info", "subscribe", "stream">>
    /\ UNCHANGED <<loop, heard, stop_sig_rcvd, stop_stream, pa_mainloop_stopped_flag, curr_volume, rsp>>
    /\ MainFrame

(* initialize_stream, the context being ready.                             *)
ContextReady ==
    /\ Running /\ ctx = "connecting"
    /\ ctx' = "ready" /\ curr_volume' = Loudest /\ stream' = "asked"
    /\ pa_cntx_ready_flag' = TRUE
    /\ req' = req \o <<"info", "subscribe", "stream">>
    /\ UNCHANGED <<loop, heard, stop_sig_rcvd, stop_stream, pa_mainloop_stopped_flag, rsp>>
    /\ MainFrame

(* sa_sound_set_spkr_max: port, mute and volume of the speaker.            *)
SetSpeaker ==
    /\ Callback("info") /\ ToServer(curr_volume)
    /\ UNCHANGED <<loop, ctx, stream, heard, flags, curr_volume>> /\ MainFrame

(* sa_sound_subscribe_succ.                                                *)
Subscribed ==
    /\ Callback("subscribed") /\ heard' = TRUE
    /\ UNCHANGED <<loop, ctx, stream, flags, curr_volume, req>> /\ MainFrame

(* Bug: the notice is taken without asking for the sinks. *)
SinkChangedIgnored ==
    /\ Callback("event")
    /\ UNCHANGED <<loop, ctx, stream, heard, flags, curr_volume, req>> /\ MainFrame

(* sa_sound_subscribe_callback.                                            *)
SinkChanged ==
    /\ Callback("event")
    /\ IF heard THEN ToServer("info") ELSE UNCHANGED req
    /\ UNCHANGED <<loop, ctx, stream, heard, flags, curr_volume>> /\ MainFrame

(* Bug: stop_stream is not set. *)
WriteDataDrainsAgain ==
    /\ Callback("more")
    /\ IF stream = "open" /\ ~stop_stream /\ stop_sig_rcvd THEN ToServer("drain") ELSE UNCHANGED req
    /\ UNCHANGED <<loop, ctx, stream, heard, flags, curr_volume>> /\ MainFrame

(* write_data_to_stream; a stream that is gone is asked for nothing.        *)
WriteData ==
    /\ Callback("more")
    /\ IF stream = "open" /\ ~stop_stream /\ stop_sig_rcvd
       THEN stop_stream' = TRUE /\ ToServer("drain")
       ELSE UNCHANGED <<stop_stream, req>>
    /\ UNCHANGED <<loop, ctx, stream, heard, stop_sig_rcvd, pa_cntx_ready_flag,
                   pa_mainloop_stopped_flag, curr_volume>>
    /\ MainFrame

(* stream_drain_completed: disconnect the stream and drop it.              *)
StreamDrained ==
    /\ Callback("drained")
    /\ stream' = "gone"
    /\ UNCHANGED <<loop, ctx, heard, flags, curr_volume, req>> /\ MainFrame

Pending == req # <<>> \/ In("info", rsp) \/ In("subscribed", rsp)

(* context_drain_completed disconnects the context, and initialize_stream, *)
(* told that it has terminated, confirms to main() and waits for it.       *)
ContextDrained ==
    /\ Running /\ ctx = "ready" /\ stream = "gone" /\ ~Pending
    /\ ctx' = "terminated" /\ pa_mainloop_stopped_flag' = TRUE /\ loop' = "signalling"
    /\ rsp' = <<>>
    /\ UNCHANGED <<stream, heard, stop_sig_rcvd, stop_stream, pa_cntx_ready_flag, curr_volume, req>>
    /\ MainFrame

-----------------------------------------------------------------------------
(* The sound server and the user                                           *)

Client == <<main, after, loop, ctx, heard, flags, curr_volume>>

(* Notices of changes of the same sink are merged.                         *)
Notify == rsp' = IF sub /\ ~In("event", rsp) THEN Append(rsp, "event") ELSE rsp

ServerHandles ==
    /\ main # "gone" /\ ctx = "ready" /\ req # <<>>
    /\ req' = Tail(req)
    /\ LET r == Head(req)
       IN \/ /\ r = "info" /\ rsp' = Append(rsp, "info")
             /\ UNCHANGED <<stream, sub, sink>>
          \/ /\ r = "subscribe" /\ rsp' = Append(rsp, "subscribed") /\ sub' = TRUE
             /\ UNCHANGED <<stream, sink>>
          \/ /\ r = "stream" /\ stream' = "open"
             /\ UNCHANGED <<rsp, sub, sink>>
          \/ /\ r = "drain" /\ rsp' = Append(rsp, "drained")
             /\ UNCHANGED <<stream, sub, sink>>
          \/ /\ r \in Levels /\ sink' = r
             /\ IF r # sink THEN Notify ELSE UNCHANGED rsp
             /\ UNCHANGED <<stream, sub>>
    /\ UNCHANGED <<Client, turns>>

(* What has been written is played, and more is asked for.                 *)
ServerAsks ==
    /\ main # "gone" /\ ctx = "ready" /\ stream = "open"
    /\ ~In("more", rsp) /\ rsp' = Append(rsp, "more")
    /\ UNCHANGED <<Client, stream, req, sub, sink, turns>>

UserTurns ==
    /\ main # "gone" /\ turns > 0 /\ turns' = turns - 1
    /\ sink' \in Volumes \ {sink} /\ Notify
    /\ UNCHANGED <<Client, stream, req, sub>>

-----------------------------------------------------------------------------

MainStep == Started \/ Ack \/ ApplyVolume \/ Aborts \/ RequestStop \/ Stopped \/ Finish
Commands == ServePlay \/ ServePlayTwice \/ ServeVolume \/ ServeStop \/ ClientFails
LoopStep == ContextReady \/ SetSpeaker \/ Subscribed \/ SinkChanged \/ WriteData
                \/ StreamDrained \/ ContextDrained

Gone == main = "gone" /\ UNCHANGED vars

Next == MainStep \/ Commands \/ LoopStep \/ Fails \/ ServerHandles \/ ServerAsks \/ UserTurns \/ Gone

Spec == Init /\ [][Next]_vars

(* Both threads run, and the sound server answers and plays.               *)
Fairness == WF_vars(MainStep) /\ WF_vars(LoopStep) /\ WF_vars(ServerHandles) /\ SF_vars(ServerAsks)

FairSpec == Spec /\ Fairness

-----------------------------------------------------------------------------

(* The alarm cannot be turned down: when nothing is under way between the  *)
(* process and the sound server, the speaker has the volume last commanded *)
(* (SOUND_LVL_6 before any command), whatever the user has turned it to.   *)
(* It depends on sound.c asking for the sinks before it subscribes, and    *)
(* subscribing before it first sets the volume (sound.c:139-143).          *)
VolumeHeld ==
    (/\ main # "gone" /\ ctx = "ready" /\ ~Pending /\ ~In("event", rsp)
     /\ after # "volume" \/ main \notin {"ack", "volume"})
        => sink = curr_volume

Once(e, s) == \A i, j \in DOMAIN s : s[i] = e /\ s[j] = e => i = j

(* No operation on what is no longer there: the stream is drained once and *)
(* not after it was dropped (stop_stream), and a volume command finds the  *)
(* context ready once playback has started.                                *)
LiveObjects ==
    /\ Once("drain", req)
    /\ In("drain", req) \/ In("drained", rsp) => stream = "open"
    /\ main = "volume" => ctx \in {"none", "ready"}

(* The process ends its main loop only when the sound it has written has   *)
(* been played and the context is closed (the handshake of                 *)
(* sa_sound_stop_playback with initialize_stream).                         *)
StoppedMeansDrained == main = "teardown" => stream = "gone" /\ ctx = "terminated"

(* What makes these hold.  The signal to stop is down exactly while main() *)
(* plays, and main() follows its answer.                                   *)
Stages ==
    /\ loop = "none" <=> ctx = "none"
    /\ main \in {"accept", "starting", "ack", "volume", "stop"} => (stop_sig_rcvd <=> ctx = "none")
    /\ main = "starting" => after = "accept"
    /\ main \in {"starting", "stopping", "teardown"} \/ (main = "ack" /\ after = "accept")
           => ctx # "none"
    /\ ctx = "connecting" => main \in {"starting", "gone"}

(* Nothing is under way before the context is ready, and the volume is set *)
(* from then on.                                                           *)
Silence ==
    /\ ctx \in {"none", "connecting"} =>
           /\ stream = "none" /\ req = <<>> /\ rsp = <<>> /\ ~sub
           /\ ~pa_cntx_ready_flag /\ ~pa_mainloop_stopped_flag
    /\ ctx \in {"ready", "terminated"} => curr_volume \in Levels

(* The stream is asked for once, then drained once, then gone.             *)
Draining ==
    /\ Once("stream", req) /\ Once("drain", req) /\ Once("drained", rsp)
    /\ In("stream", req) => stream = "asked"
    /\ In("drain", req) \/ In("drained", rsp) => stream = "open" /\ stop_stream
    /\ stream = "gone" => stop_stream
    /\ stop_stream => stop_sig_rcvd
    /\ ~(In("drain", req) /\ In("drained", rsp))
    /\ pa_mainloop_stopped_flag => stream = "gone" /\ ctx = "terminated"
    /\ ctx = "terminated" => pa_mainloop_stopped_flag /\ loop # "running"
    /\ main = "teardown" => pa_mainloop_stopped_flag

(* A notice is not lost: until the server has accepted the subscription no  *)
(* volume is ahead of it, and no notice comes ahead of its confirmation.   *)
Ahead(e, S, s) ==
    \E i \in DOMAIN s : s[i] = e /\ \A j \in DOMAIN s : j < i => s[j] \notin S
Behind(e, f, s) ==
    \A j \in DOMAIN s : s[j] = e => \E i \in DOMAIN s : i < j /\ s[i] = f
NoticesHeard ==
    ctx = "ready" =>
        /\ ~sub => Ahead("subscribe", Levels, req)
        /\ sub /\ ~heard => In("subscribed", rsp)
        /\ ~heard => Behind("event", "subscribed", rsp)

(* The speaker has the volume, or it is on its way: main() will ask for    *)
(* the sinks, has asked, will be told to ask, or has sent it last.         *)
LastIn(x, S, s) ==
    \E i \in DOMAIN s : s[i] = x /\ \A j \in DOMAIN s : j > i => s[j] \notin S
SpeakerHas == sub /\ sink = curr_volume /\ \A r \in Levels : ~In(r, req)
VolumeComes ==
    main # "gone" /\ ctx = "ready" =>
        \/ main \in {"ack", "volume"} /\ after = "volume"
        \/ In("info", req) \/ In("info", rsp)
        \/ In("event", rsp)
        \/ LastIn(curr_volume, Levels, req)
        \/ SpeakerHas

-----------------------------------------------------------------------------
(* The playback process that AlarmDaemon relies on                         *)

Life ==
    CASE main = "gone" -> "gone"
      [] main = "starting" \/ (main = "ack" /\ after = "accept") -> "start"
      [] loop = "none" /\ main \in {"accept", "ack"} -> "idle"
      [] loop = "none" /\ main \in {"volume", "stop"} -> "gone"
      [] loop # "none" /\ main \in {"stop", "stopping", "teardown"} -> "stop"
      [] OTHER -> "play"

AsSeen == INSTANCE SoundLife WITH life <- Life, owed <- main \in {"starting", "ack"}

(* The process answers every command, plays between the answers to 'p' and *)
(* 's', and ends after 's', as long as the sound server works.             *)
ImplementsLife == AsSeen!Spec
=============================================================================
