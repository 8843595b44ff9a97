-------------------------- MODULE SoundProcessProofs --------------------------
(***************************************************************************)
(* Proofs about SoundProcess, for every set of volumes and every bound.    *)
(***************************************************************************)
EXTENDS SoundProcess, TLAPS

(* What Append and Tail do to the elements of a sequence.                  *)
LEMMA AppendElements ==
  ASSUME NEW S, NEW s \in Seq(S), NEW x, NEW e
  PROVE  /\ In(e, Append(s, x)) => In(e, s) \/ e = x
         /\ Once(e, s) /\ (e # x \/ ~In(e, s)) => Once(e, Append(s, x))
<1>1. /\ DOMAIN Append(s, x) = 1..(Len(s) + 1) /\ DOMAIN s = 1..Len(s) /\ Len(s) \in Nat
      /\ \A i \in 1..Len(s) : Append(s, x)[i] = s[i]
      /\ Append(s, x)[Len(s) + 1] = x
  OBVIOUS
<1>2. \A i \in DOMAIN Append(s, x) : i \in DOMAIN s \/ i = Len(s) + 1
  BY <1>1
<1> QED
  BY <1>1, <1>2 DEF In, Once

LEMMA TailElements ==
  ASSUME NEW S, NEW s \in Seq(S), s # <<>>, NEW e
  PROVE  /\ In(e, Tail(s)) => In(e, s)
         /\ Once(e, s) => Once(e, Tail(s))
         /\ Once(e, s) /\ Head(s) = e => ~In(e, Tail(s))
         /\ Head(s) = e => In(e, s)
<1>1. /\ DOMAIN Tail(s) = 1..(Len(s) - 1) /\ DOMAIN s = 1..Len(s)
      /\ Len(s) \in Nat /\ Len(s) >= 1
      /\ \A i \in 1..(Len(s) - 1) : Tail(s)[i] = s[i + 1]
      /\ Head(s) = s[1]
  OBVIOUS
<1>2. \A i \in DOMAIN Tail(s) : i \in Nat /\ i + 1 \in DOMAIN s /\ Tail(s)[i] = s[i + 1] /\ i + 1 # 1
  BY <1>1
<1>3. 1 \in DOMAIN s
  BY <1>1
<1>4. In(e, Tail(s)) => In(e, s)
  BY <1>2 DEF In
<1>5. Once(e, s) => Once(e, Tail(s))
  <2> SUFFICES ASSUME Once(e, s), NEW i \in DOMAIN Tail(s), NEW j \in DOMAIN Tail(s),
                      Tail(s)[i] = e, Tail(s)[j] = e
               PROVE  i = j
    BY DEF Once
  <2>1. i + 1 = j + 1
    BY <1>2 DEF Once
  <2> QED
    BY <1>2, <2>1
<1>6. Once(e, s) /\ Head(s) = e => ~In(e, Tail(s))
  BY <1>1, <1>2, <1>3 DEF In, Once
<1>7. Head(s) = e => In(e, s)
  BY <1>1, <1>3 DEF In
<1> QED
  BY <1>4, <1>5, <1>6, <1>7

-----------------------------------------------------------------------------
(* Types, with what is under way, since a volume is sent when it is set    *)

Sound == TypeOK /\ Stages /\ Silence

LEMMA SoundInit == Init => Sound
<1> SUFFICES ASSUME Init PROVE Sound
  OBVIOUS
<1>1. TypeOK
  <2>1. req \in Seq(Requests) /\ rsp \in Seq(Replies) /\ turns \in 0..Turns
    BY BoundAssumption DEF Init
  <2>2. heard \in BOOLEAN /\ sub \in BOOLEAN
    BY DEF Init
  <2>3. /\ stop_sig_rcvd \in BOOLEAN /\ stop_stream \in BOOLEAN
        /\ pa_cntx_ready_flag \in BOOLEAN /\ pa_mainloop_stopped_flag \in BOOLEAN
    BY DEF Init
  <2> QED
    BY <2>1, <2>2, <2>3, LevelAssumption DEF Init, TypeOK, Volumes
<1>2. Stages /\ Silence
  BY DEF Init, Stages, Silence
<1> QED
  BY <1>1, <1>2 DEF Sound

LEMMA SoundMain == Sound /\ (MainStep \/ Commands \/ Fails) => Sound'
<1> SUFFICES ASSUME TypeOK, Stages, Silence, MainStep \/ Commands \/ Fails
             PROVE  TypeOK' /\ Stages' /\ Silence'
  BY DEF Sound
<1> USE DEF Pulse, server, flags
<1>1. CASE ServePlay
  <2>1. ctx = "none" /\ loop = "none"
    BY <1>1 DEF ServePlay, Stages
  <2> QED
    BY <1>1, <2>1 DEF ServePlay, TypeOK, Stages, Silence
<1>2. CASE ServeVolume
  BY <1>2 DEF ServeVolume, TypeOK, Stages, Silence, Volumes
<1>3. CASE ApplyVolume
  <2>1. req' \in Seq(Requests)
    BY <1>3 DEF ApplyVolume, TypeOK, Requests, Queries
  <2> QED
    BY <1>3, <2>1 DEF ApplyVolume, TypeOK, Stages, Silence
<1>4. CASE RequestStop
  BY <1>4 DEF RequestStop, TypeOK, Stages, Silence
<1>5. CASE Stopped
  BY <1>5 DEF Stopped, TypeOK, Stages, Silence
<1>6. CASE Started
  <2>1. ctx # "connecting"
    BY <1>6 DEF Started, Silence
  <2> QED
    BY <1>6, <2>1 DEF Started, TypeOK, Stages, Silence
<1>7. CASE Ack
  BY <1>7 DEF Ack, TypeOK, Stages, Silence
<1>8. CASE Aborts \/ Finish \/ ServePlayTwice \/ ServeStop \/ ClientFails \/ Fails
  BY <1>8 DEF Aborts, Finish, ServePlayTwice, ServeStop, ClientFails, Fails, TypeOK, Stages, Silence
<1> QED
  BY <1>1, <1>2, <1>3, <1>4, <1>5, <1>6, <1>7, <1>8 DEF MainStep, Commands

LEMMA SoundLoop == Sound /\ LoopStep => Sound'
<1> SUFFICES ASSUME TypeOK, Stages, Silence, LoopStep
             PROVE  TypeOK' /\ Stages' /\ Silence'
  BY DEF Sound
<1> USE DEF MainFrame, flags
<1>r. req \in Seq(Requests) /\ rsp \in Seq(Replies)
  BY DEF TypeOK
<1>h. rsp # <<>> => ctx \in {"ready", "terminated"} /\ curr_volume \in Levels /\ Tail(rsp) \in Seq(Replies)
  BY <1>r DEF Silence, TypeOK
<1>1. CASE ContextReady
  <2>1. req' \in Seq(Requests)
    BY <1>r, <1>1 DEF ContextReady, Requests, Queries
  <2> QED
    BY <1>1, <2>1, LevelAssumption DEF ContextReady, TypeOK, Stages, Silence, Volumes
<1>2. ASSUME NEW r, Callback(r) PROVE rsp' \in Seq(Replies) /\ ctx \in {"ready", "terminated"}
  BY <1>h, <1>2 DEF Callback
<1>q. ASSUME NEW x \in Requests, ToServer(x) \/ UNCHANGED req PROVE req' \in Seq(Requests)
  BY <1>r, <1>q DEF ToServer
<1>3. "info" \in Requests /\ "drain" \in Requests /\ Levels \subseteq Requests
  BY DEF Requests, Queries
<1>4. CASE SetSpeaker
  <2>1. rsp' \in Seq(Replies) /\ ctx \in {"ready", "terminated"} /\ req' \in Seq(Requests)
    BY <1>2, <1>3, <1>4, <1>h, <1>q DEF SetSpeaker, Callback
  <2> QED
    BY <1>4, <2>1 DEF SetSpeaker, TypeOK, Stages, Silence
<1>5. CASE Subscribed \/ SinkChanged \/ StreamDrained
  <2>1. rsp' \in Seq(Replies) /\ ctx \in {"ready", "terminated"}
    BY <1>2, <1>5 DEF Subscribed, SinkChanged, StreamDrained
  <2>2. req' \in Seq(Requests)
    BY <1>3, <1>q, <1>5 DEF Subscribed, SinkChanged, StreamDrained
  <2>3. heard' \in BOOLEAN
    BY <1>5 DEF Subscribed, SinkChanged, StreamDrained, TypeOK
  <2> QED
    BY <1>5, <2>1, <2>2, <2>3 DEF Subscribed, SinkChanged, StreamDrained, TypeOK, Stages, Silence
<1>6. CASE WriteData
  <2>1. rsp' \in Seq(Replies) /\ ctx \in {"ready", "terminated"}
    BY <1>2, <1>6 DEF WriteData
  <2>2. req' \in Seq(Requests)
    BY <1>3, <1>q, <1>6 DEF WriteData
  <2>3. stop_stream' \in BOOLEAN
    BY <1>6 DEF WriteData, TypeOK
  <2> QED
    BY <1>6, <2>1, <2>2, <2>3 DEF WriteData, TypeOK, Stages, Silence
<1>7. CASE ContextDrained
  BY <1>7 DEF ContextDrained, Running, TypeOK, Stages, Silence
<1> QED
  BY <1>1, <1>4, <1>5, <1>6, <1>7 DEF LoopStep

LEMMA SoundServer == Sound /\ (ServerHandles \/ ServerAsks \/ UserTurns) => Sound'
<1> SUFFICES ASSUME TypeOK, Stages, Silence, ServerHandles \/ ServerAsks \/ UserTurns
             PROVE  TypeOK' /\ Stages' /\ Silence'
  BY DEF Sound
<1> USE DEF Client, flags
<1>r. req \in Seq(Requests) /\ rsp \in Seq(Replies)
  BY DEF TypeOK
<1>a. \A x \in Replies : Append(rsp, x) \in Seq(Replies)
  BY <1>r
<1>n. Notify => rsp' \in Seq(Replies)
  BY <1>r, <1>a DEF Notify, Replies
<1>1. CASE ServerHandles
  <2>1. req' \in Seq(Requests)
    BY <1>r, <1>1 DEF ServerHandles
  <2>2. rsp' \in Seq(Replies) /\ stream' \in {stream, "open"} /\ sub' \in BOOLEAN /\ sink' \in Volumes
    BY <1>r, <1>1, <1>n, <1>a DEF ServerHandles, TypeOK, Volumes, Replies
  <2> QED
    BY <1>1, <2>1, <2>2 DEF ServerHandles, TypeOK, Stages, Silence
<1>2. CASE ServerAsks
  <2>1. rsp' \in Seq(Replies)
    BY <1>2, <1>a DEF ServerAsks, Replies
  <2> QED
    BY <1>2, <2>1 DEF ServerAsks, TypeOK, Stages, Silence
<1>3. CASE UserTurns
  <2>1. turns' \in 0..Turns
    BY <1>3, BoundAssumption DEF UserTurns, TypeOK
  <2> QED
    BY <1>3, <1>n, <2>1 DEF UserTurns, Notify, TypeOK, Stages, Silence
<1> QED
  BY <1>1, <1>2, <1>3

LEMMA SoundStep == Sound /\ [Next]_vars => Sound'
<1>1. Sound /\ UNCHANGED vars => Sound'
  BY DEF Sound, TypeOK, Stages, Silence, vars, flags, server
<1> QED
  BY <1>1, SoundMain, SoundLoop, SoundServer DEF Next, Gone

LEMMA SoundAlways == Spec => []Sound
  BY SoundInit, SoundStep, PTL DEF Spec

(* Every variable keeps its type; in particular no volume is sent to the   *)
(* speaker before one is set (sound.c:136), so the alarm is not silent.    *)
THEOREM SoundTypeCorrect == Spec => []TypeOK
<1>1. Sound => TypeOK
  BY DEF Sound
<1> QED
  BY <1>1, SoundAlways, PTL

-----------------------------------------------------------------------------
(* The playback process as its socket shows it                             *)

LEMMA LifeInit == Init => AsSeen!Init
  BY DEF Init, AsSeen!Init, Life

(* What PulseAudio does does not show.                                     *)
LEMMA LifeUnseen ==
  ASSUME UNCHANGED <<main, after>>, (loop = "none") = (loop' = "none")
  PROVE  UNCHANGED AsSeen!vars
  BY DEF AsSeen!vars, Life

LEMMA LifeMain == Sound /\ (MainStep \/ Commands \/ Fails) => [AsSeen!Next]_(AsSeen!vars)
<1> SUFFICES ASSUME TypeOK, Stages, Silence, MainStep \/ Commands \/ Fails
             PROVE  [AsSeen!Next]_(AsSeen!vars)
  BY DEF Sound
<1> USE DEF Pulse, Life, TypeOK
<1>1. CASE ServePlay
  BY <1>1 DEF ServePlay, Stages, AsSeen!Next, AsSeen!Hear
<1>2. CASE ServeVolume \/ ServeStop
  BY <1>2 DEF ServeVolume, ServeStop, Stages, AsSeen!Next, AsSeen!Hear
<1>3. CASE Started
  BY <1>3 DEF Started, Stages, AsSeen!vars
<1>4. CASE Ack
  BY <1>4 DEF Ack, Stages, AsSeen!Next, AsSeen!Answer
<1>5. CASE ApplyVolume \/ RequestStop
  BY <1>5 DEF ApplyVolume, RequestStop, Stages, AsSeen!vars
<1>6. CASE Stopped
  BY <1>6 DEF Stopped, Stages, AsSeen!vars
<1>7. CASE Aborts
  BY <1>7 DEF Aborts, Stages, AsSeen!vars, AsSeen!Next, AsSeen!Die
<1>8. CASE Finish
  BY <1>8 DEF Finish, Stages, AsSeen!Next, AsSeen!Finish
<1>9. CASE ServePlayTwice \/ ClientFails \/ Fails
  BY <1>9 DEF ServePlayTwice, ClientFails, Fails, Stages, AsSeen!Next, AsSeen!Die, AsSeen!vars
<1> QED
  BY <1>1, <1>2, <1>3, <1>4, <1>5, <1>6, <1>7, <1>8, <1>9 DEF MainStep, Commands

LEMMA LifeStep == Sound /\ [Next]_vars => [AsSeen!Next]_(AsSeen!vars)
<1> SUFFICES ASSUME Sound, [Next]_vars PROVE [AsSeen!Next]_(AsSeen!vars)
  OBVIOUS
<1>1. CASE LoopStep
  BY <1>1, LifeUnseen
     DEF LoopStep, ContextReady, SetSpeaker, Subscribed, SinkChanged, WriteData, StreamDrained,
         ContextDrained, Running, Callback, MainFrame
<1>2. CASE ServerHandles \/ ServerAsks \/ UserTurns
  BY <1>2, LifeUnseen DEF ServerHandles, ServerAsks, UserTurns, Client
<1>3. CASE UNCHANGED vars
  BY <1>3, LifeUnseen DEF vars
<1> QED
  BY <1>1, <1>2, <1>3, LifeMain DEF Next, Gone

(* Whatever the sound server, the user, and the interleaving of the two    *)
(* threads do, the process answers and ends as SoundLife allows: nothing   *)
(* but the answer to 'p' makes it play, nothing but 's' ends it in order.  *)
THEOREM SoundImplementsLife == Spec => AsSeen!Safety
  BY LifeInit, SoundAlways, LifeStep, PTL DEF Spec, AsSeen!Safety

-----------------------------------------------------------------------------
(* The end of the stream                                                   *)

LEMMA DrainingInit == Init => Draining
  BY DEF Init, Draining, Once, In

LEMMA DrainingMain == Sound /\ Draining /\ (MainStep \/ Commands \/ Fails) => Draining'
<1> SUFFICES ASSUME TypeOK, Stages, Silence, Draining, MainStep \/ Commands \/ Fails
             PROVE  Draining'
  BY DEF Sound
<1> USE DEF Pulse, server, flags
<1>1. CASE ServePlay
  <2>1. ctx = "none" /\ stream = "none" /\ req = <<>> /\ rsp = <<>>
    BY <1>1 DEF ServePlay, Stages, Silence
  <2> QED
    BY <1>1, <2>1 DEF ServePlay, Draining, Once, In
<1>2. CASE ApplyVolume
  <2>1. /\ Once("stream", req') /\ Once("drain", req')
        /\ In("stream", req') => In("stream", req)
        /\ In("drain", req') => In("drain", req)
    BY <1>2, AppendElements DEF ApplyVolume, Draining, TypeOK
  <2> QED
    BY <1>2, <2>1 DEF ApplyVolume, Draining
<1>3. CASE RequestStop
  BY <1>3 DEF RequestStop, Draining
<1>4. CASE Stopped
  BY <1>4 DEF Stopped, Draining
<1>5. CASE Ack
  BY <1>5 DEF Ack, TypeOK, Draining
<1>6. CASE ServeVolume \/ Started \/ Aborts \/ Finish \/ ServePlayTwice \/ ServeStop
           \/ ClientFails \/ Fails
  BY <1>6 DEF ServeVolume, Started, Aborts, Finish, ServePlayTwice, ServeStop, ClientFails, Fails,
              Draining
<1> QED
  BY <1>1, <1>2, <1>3, <1>4, <1>5, <1>6 DEF MainStep, Commands

(* A callback takes a reply and sends at most a request that is neither    *)
(* for the stream nor, unless the code says so, to drain it.               *)
LEMMA CallbackElements ==
  ASSUME TypeOK, Draining, NEW r, Callback(r),
         UNCHANGED req \/ \E x : ToServer(x) /\ x # "stream" /\ x # "drain"
  PROVE  /\ Once("stream", req') /\ Once("drain", req') /\ Once("drained", rsp')
         /\ In("stream", req') => In("stream", req)
         /\ In("drain", req') => In("drain", req)
         /\ In("drained", rsp') => In("drained", rsp)
<1>1. Once("drained", rsp') /\ (In("drained", rsp') => In("drained", rsp))
  BY TailElements DEF Callback, TypeOK, Draining
<1>2. CASE UNCHANGED req
  BY <1>1, <1>2 DEF Draining
<1>3. ASSUME NEW x, ToServer(x), x # "stream", x # "drain"
      PROVE  /\ Once("stream", req') /\ Once("drain", req')
             /\ In("stream", req') => In("stream", req)
             /\ In("drain", req') => In("drain", req)
  <2>1. req \in Seq(Requests) /\ req' = Append(req, x) /\ Once("stream", req) /\ Once("drain", req)
    BY <1>3 DEF ToServer, TypeOK, Draining
  <2> QED
    BY <1>3, <2>1, AppendElements
<1> QED
  BY <1>1, <1>2, <1>3

LEMMA DrainingLoop == Sound /\ Draining /\ LoopStep => Draining'
<1> SUFFICES ASSUME TypeOK, Stages, Silence, Draining, LoopStep PROVE Draining'
  BY DEF Sound
<1> USE DEF MainFrame, flags
<1>1. CASE ContextReady
  <2>1. req' = <<"info", "subscribe", "stream">> /\ rsp' = <<>>
    BY <1>1 DEF ContextReady, Silence
  <2>2. Once("stream", req') /\ Once("drain", req') /\ Once("drained", rsp')
    BY <2>1 DEF Once
  <2>3. ~In("drain", req') /\ ~In("drained", rsp')
    BY <2>1 DEF In
  <2> QED
    BY <1>1, <2>2, <2>3 DEF ContextReady, Silence, Draining
<1>2. CASE SetSpeaker
  <2>1. curr_volume # "stream" /\ curr_volume # "drain"
    <3>1. rsp # <<>>
      BY <1>2 DEF SetSpeaker, Callback
    <3>2. curr_volume \in Levels
      BY <3>1 DEF Silence, TypeOK
    <3> QED
      BY <3>2, LevelAssumption DEF Queries
  <2> QED
    BY <1>2, <2>1, CallbackElements DEF SetSpeaker, Draining
<1>3. CASE Subscribed
  BY <1>3, CallbackElements DEF Subscribed, Draining
<1>4. CASE SinkChanged
  <2>1. UNCHANGED req \/ ToServer("info")
    BY <1>4 DEF SinkChanged
  <2> QED
    BY <1>4, <2>1, CallbackElements DEF SinkChanged, Draining
<1>5. CASE WriteData
  <2>1. CASE stream = "open" /\ ~stop_stream /\ stop_sig_rcvd
    <3>1. ~In("drain", req) /\ ~In("drained", rsp) /\ ~In("stream", req)
      BY <2>1 DEF Draining
    <3>2. ToServer("drain") /\ stop_stream' = TRUE
      BY <1>5, <2>1 DEF WriteData
    <3>3. /\ Once("stream", req') /\ Once("drain", req') /\ ~In("stream", req')
      BY <3>1, <3>2, AppendElements DEF ToServer, TypeOK, Draining
    <3>4. Once("drained", rsp') /\ ~In("drained", rsp')
      BY <1>5, <3>1, TailElements DEF WriteData, Callback, TypeOK, Draining
    <3> QED
      BY <1>5, <2>1, <3>2, <3>3, <3>4 DEF WriteData, Draining
  <2>2. CASE ~(stream = "open" /\ ~stop_stream /\ stop_sig_rcvd)
    BY <1>5, <2>2, CallbackElements DEF WriteData, Draining
  <2> QED
    BY <2>1, <2>2
<1>6. CASE StreamDrained
  <2>1. In("drained", rsp) /\ ~In("drained", rsp') /\ Once("drained", rsp')
    BY <1>6, TailElements DEF StreamDrained, Callback, TypeOK, Draining
  <2> QED
    BY <1>6, <2>1 DEF StreamDrained, Callback, Draining
<1>7. CASE ContextDrained
  <2>1. rsp' = <<>> /\ req = <<>> /\ stream = "gone"
    BY <1>7 DEF ContextDrained, Pending
  <2>2. ~In("drained", rsp') /\ Once("drained", rsp')
    BY <2>1 DEF In, Once
  <2> QED
    BY <1>7, <2>1, <2>2 DEF ContextDrained, Draining
<1> QED
  BY <1>1, <1>2, <1>3, <1>4, <1>5, <1>6, <1>7 DEF LoopStep

LEMMA DrainingServer == Sound /\ Draining /\ (ServerHandles \/ ServerAsks \/ UserTurns) => Draining'
<1> SUFFICES ASSUME TypeOK, Draining, ServerHandles \/ ServerAsks \/ UserTurns PROVE Draining'
  BY DEF Sound
<1> USE DEF Client, flags
<1>a. \A x : rsp' = Append(rsp, x) /\ x # "drained" =>
                 Once("drained", rsp') /\ (In("drained", rsp') => In("drained", rsp))
  BY AppendElements DEF TypeOK, Draining
<1>n. Notify => Once("drained", rsp') /\ (In("drained", rsp') => In("drained", rsp))
  <2>1. Notify => rsp' = rsp \/ rsp' = Append(rsp, "event")
    BY DEF Notify
  <2> QED
    BY <1>a, <2>1 DEF Draining
<1>1. CASE ServerHandles
  <2>1. /\ Once("stream", req') /\ Once("drain", req')
        /\ In("stream", req') => In("stream", req)
        /\ In("drain", req') => In("drain", req)
        /\ Head(req) = "stream" => ~In("stream", req') /\ In("stream", req)
        /\ Head(req) = "drain" => ~In("drain", req') /\ In("drain", req)
    BY <1>1, TailElements DEF ServerHandles, TypeOK, Draining
  <2>2. CASE Head(req) = "stream"
    <3>1. UNCHANGED rsp /\ stream' = "open"
      BY <1>1, <2>2, LevelAssumption DEF ServerHandles, Queries
    <3>2. stream = "asked"
      BY <2>1, <2>2 DEF Draining
    <3> QED
      BY <1>1, <2>1, <2>2, <3>1, <3>2 DEF ServerHandles, Draining
  <2>3. CASE Head(req) = "drain"
    <3>1. rsp' = Append(rsp, "drained") /\ UNCHANGED stream
      BY <1>1, <2>3, LevelAssumption DEF ServerHandles, Queries
    <3>2. ~In("drained", rsp) /\ stream = "open" /\ stop_stream
      BY <2>1, <2>3 DEF Draining
    <3>3. Once("drained", rsp')
      BY <3>1, <3>2, AppendElements DEF TypeOK, Draining
    <3> QED
      BY <1>1, <2>1, <2>3, <3>1, <3>2, <3>3 DEF ServerHandles, Draining
  <2>4. CASE Head(req) \notin {"stream", "drain"}
    <3>1. Once("drained", rsp') /\ (In("drained", rsp') => In("drained", rsp)) /\ UNCHANGED stream
      BY <1>1, <1>a, <1>n, <2>4 DEF ServerHandles, Draining
    <3> QED
      BY <1>1, <2>1, <2>4, <3>1 DEF ServerHandles, Draining
  <2> QED
    BY <2>2, <2>3, <2>4
<1>2. CASE ServerAsks
  BY <1>2, <1>a DEF ServerAsks, Draining
<1>3. CASE UserTurns
  BY <1>3, <1>n DEF UserTurns, Draining
<1> QED
  BY <1>1, <1>2, <1>3

LEMMA DrainingStep == Sound /\ Draining /\ [Next]_vars => Draining'
<1>1. Draining /\ UNCHANGED vars => Draining'
  BY DEF Draining, vars, flags, server
<1> QED
  BY <1>1, DrainingMain, DrainingLoop, DrainingServer DEF Next, Gone

LEMMA DrainingAlways == Spec => []Draining
  BY SoundAlways, DrainingInit, DrainingStep, PTL DEF Spec

(* The stream is drained once, and never touched when it is gone; a volume *)
(* command never meets a context that is closed (sound.c:50-62, 357-363).  *)
THEOREM SoundLiveObjects == Spec => []LiveObjects
<1>1. Sound /\ Draining => LiveObjects
  BY DEF Sound, TypeOK, Stages, Draining, LiveObjects
<1> QED
  BY <1>1, SoundAlways, DrainingAlways, PTL

(* main() passes sa_sound_stop_playback only after the sound it has        *)
(* written is played and the context closed (sound.c:173-186).             *)
THEOREM SoundStoppedMeansDrained == Spec => []StoppedMeansDrained
<1>1. Draining => StoppedMeansDrained
  BY DEF Draining, StoppedMeansDrained
<1> QED
  BY <1>1, DrainingAlways, PTL

-----------------------------------------------------------------------------
(* The volume                                                              *)

(* What Append and Tail do to the order of the elements of a sequence.     *)
LEMMA AppendOrder ==
  ASSUME NEW T, NEW s \in Seq(T), NEW x, NEW e, NEW f, NEW S
  PROVE  /\ In(x, Append(s, x))
         /\ In(e, s) => In(e, Append(s, x))
         /\ Ahead(e, S, s) => Ahead(e, S, Append(s, x))
         /\ Behind(e, f, s) /\ (x # e \/ In(f, s)) => Behind(e, f, Append(s, x))
         /\ LastIn(e, S, s) /\ x \notin S => LastIn(e, S, Append(s, x))
         /\ LastIn(x, S, Append(s, x))
<1>1. /\ DOMAIN Append(s, x) = 1..(Len(s) + 1) /\ DOMAIN s = 1..Len(s) /\ Len(s) \in Nat
      /\ \A i \in 1..Len(s) : Append(s, x)[i] = s[i]
      /\ Append(s, x)[Len(s) + 1] = x
  OBVIOUS
<1> DEFINE t == Append(s, x)
           n == Len(s) + 1
<1>2. /\ n \in DOMAIN t /\ t[n] = x
      /\ \A i \in DOMAIN s : i \in DOMAIN t /\ t[i] = s[i] /\ i < n /\ ~(n < i)
      /\ \A i \in DOMAIN t : i \in DOMAIN s \/ i = n
      /\ \A i \in DOMAIN t : ~(n < i)
  BY <1>1
<1> HIDE DEF t, n
<1>3. In(x, t) /\ (In(e, s) => In(e, t))
  BY <1>2 DEF In
<1>4. Ahead(e, S, s) => Ahead(e, S, t)
  BY <1>2 DEF Ahead
<1>5. Behind(e, f, s) /\ (x # e \/ In(f, s)) => Behind(e, f, t)
  BY <1>2 DEF Behind, In
<1>6. LastIn(e, S, s) /\ x \notin S => LastIn(e, S, t)
  BY <1>2 DEF LastIn
<1>7. LastIn(x, S, t)
  BY <1>2 DEF LastIn
<1> QED
  BY <1>3, <1>4, <1>5, <1>6, <1>7 DEF t

LEMMA TailOrder ==
  ASSUME NEW T, NEW s \in Seq(T), s # <<>>, NEW e, NEW f, NEW S
  PROVE  /\ In(e, s) /\ Head(s) # e => In(e, Tail(s))
         /\ Ahead(e, S, s) /\ Head(s) # e => Head(s) \notin S /\ Ahead(e, S, Tail(s))
         /\ Behind(e, f, s) /\ Head(s) # f => Head(s) # e /\ Behind(e, f, Tail(s))
         /\ LastIn(e, S, s) => \/ LastIn(e, S, Tail(s))
                               \/ Head(s) = e /\ \A r \in S : ~In(r, Tail(s))
<1>1. /\ DOMAIN Tail(s) = 1..(Len(s) - 1) /\ DOMAIN s = 1..Len(s)
      /\ Len(s) \in Nat /\ Len(s) >= 1
      /\ \A i \in 1..(Len(s) - 1) : Tail(s)[i] = s[i + 1]
      /\ Head(s) = s[1]
  OBVIOUS
<1> DEFINE t == Tail(s)
<1>2. /\ 1 \in DOMAIN s /\ Head(s) = s[1]
      /\ \A i \in DOMAIN s : i = 1 \/ (1 < i /\ ~(i < 1) /\ i - 1 \in DOMAIN t /\ t[i - 1] = s[i])
      /\ \A i \in DOMAIN t : i + 1 \in DOMAIN s /\ t[i] = s[i + 1] /\ 1 < i + 1
      /\ \A i \in DOMAIN t, j \in DOMAIN s :
           (i < j - 1 <=> i + 1 < j) /\ (j - 1 < i <=> j < i + 1)
      /\ \A i \in DOMAIN s : ~(i < 1)
  BY <1>1
<1> HIDE DEF t
<1>3. In(e, s) /\ Head(s) # e => In(e, t)
  BY <1>2 DEF In
<1>4. Ahead(e, S, s) /\ Head(s) # e => Head(s) \notin S /\ Ahead(e, S, t)
  BY <1>2 DEF Ahead
<1>5. Behind(e, f, s) /\ Head(s) # f => Head(s) # e /\ Behind(e, f, t)
  <2> SUFFICES ASSUME Behind(e, f, s), Head(s) # f PROVE Head(s) # e /\ Behind(e, f, t)
    OBVIOUS
  <2>1. Head(s) # e
    BY <1>2 DEF Behind
  <2>2. ASSUME NEW j \in DOMAIN t, t[j] = e PROVE \E i \in DOMAIN t : i < j /\ t[i] = f
    <3>1. PICK i \in DOMAIN s : i < j + 1 /\ s[i] = f
      BY <1>2, <2>2 DEF Behind
    <3>2. i - 1 \in DOMAIN t /\ t[i - 1] = f
      BY <1>2, <3>1
    <3>3. i - 1 < j
      BY <1>1, <3>1, <2>2 DEF t
    <3> QED
      BY <3>2, <3>3
  <2> QED
    BY <2>1, <2>2 DEF Behind
<1>6. LastIn(e, S, s) => LastIn(e, S, t) \/ (Head(s) = e /\ \A r \in S : ~In(r, t))
  <2> SUFFICES ASSUME NEW i \in DOMAIN s, s[i] = e, \A j \in DOMAIN s : j > i => s[j] \notin S
               PROVE  LastIn(e, S, t) \/ (Head(s) = e /\ \A r \in S : ~In(r, t))
    BY DEF LastIn
  <2>1. CASE i = 1
    BY <1>2, <2>1 DEF In
  <2>2. CASE i # 1
    <3>1. i - 1 \in DOMAIN t /\ t[i - 1] = e
      BY <1>2, <2>2
    <3>2. ASSUME NEW j \in DOMAIN t, j > i - 1 PROVE t[j] \notin S
      <4>1. j + 1 \in DOMAIN s /\ t[j] = s[j + 1]
        BY <1>2
      <4>2. j + 1 > i
        BY <1>1, <3>2 DEF t
      <4> QED
        BY <4>1, <4>2
    <3> QED
      BY <3>1, <3>2 DEF LastIn
  <2> QED
    BY <2>1, <2>2
<1> QED
  BY <1>3, <1>4, <1>5, <1>6 DEF t

Settling == NoticesHeard /\ VolumeComes

LEMMA SettlingInit == Init => Settling
  BY DEF Init, Settling, NoticesHeard, VolumeComes

LEMMA SettlingMain == Sound /\ Settling /\ (MainStep \/ Commands \/ Fails) => Settling'
<1> SUFFICES ASSUME TypeOK, Stages, Silence, NoticesHeard, VolumeComes, MainStep \/ Commands \/ Fails
             PROVE  NoticesHeard' /\ VolumeComes'
  BY DEF Sound, Settling
<1> USE DEF Pulse, server, flags
<1>1. CASE ServePlay
  BY <1>1 DEF ServePlay, NoticesHeard, VolumeComes
<1>2. CASE ApplyVolume
  <2>1. /\ In("info", req') /\ (Ahead("subscribe", Levels, req) => Ahead("subscribe", Levels, req'))
    BY <1>2, AppendOrder DEF ApplyVolume, TypeOK
  <2> QED
    BY <1>2, <2>1 DEF ApplyVolume, NoticesHeard, VolumeComes
<1>3. CASE ServeVolume
  BY <1>3 DEF ServeVolume, NoticesHeard, VolumeComes
<1>4. CASE Ack
  BY <1>4 DEF Ack, NoticesHeard, VolumeComes, SpeakerHas
<1>5. CASE Started \/ RequestStop \/ Stopped \/ ServeStop
  BY <1>5 DEF Started, RequestStop, Stopped, ServeStop, Stages, NoticesHeard, VolumeComes, SpeakerHas
<1>6. CASE Aborts \/ Finish \/ ServePlayTwice \/ ClientFails \/ Fails
  BY <1>6 DEF Aborts, Finish, ServePlayTwice, ClientFails, Fails, NoticesHeard, VolumeComes
<1> QED
  BY <1>1, <1>2, <1>3, <1>4, <1>5, <1>6 DEF MainStep, Commands

(* A callback takes the head of the replies and sends at most a request.   *)
LEMMA CallbackOrder ==
  ASSUME TypeOK, Callback("info") \/ Callback("subscribed") \/ Callback("event")
                   \/ Callback("more") \/ Callback("drained"),
         UNCHANGED req \/ \E x : ToServer(x)
  PROVE  /\ In("info", req) => In("info", req')
         /\ In("info", rsp) => In("info", rsp') \/ Callback("info")
         /\ In("event", rsp) => In("event", rsp') \/ Callback("event")
         /\ In("subscribed", rsp) => In("subscribed", rsp') \/ Callback("subscribed")
         /\ Behind("event", "subscribed", rsp) =>
                \/ Callback("subscribed")
                \/ ~Callback("event") /\ Behind("event", "subscribed", rsp')
         /\ Ahead("subscribe", Levels, req) => Ahead("subscribe", Levels, req')
<1>1. /\ rsp \in Seq(Replies) /\ rsp # <<>> /\ rsp' = Tail(rsp)
      /\ \A r : Callback(r) <=> Head(rsp) = r /\ main # "gone" /\ loop = "running"
      /\ main # "gone" /\ loop = "running"
  BY DEF Callback, Running, TypeOK
<1>2. /\ In("info", rsp) => In("info", rsp') \/ Callback("info")
      /\ In("event", rsp) => In("event", rsp') \/ Callback("event")
      /\ In("subscribed", rsp) => In("subscribed", rsp') \/ Callback("subscribed")
  BY <1>1, TailOrder
<1>3. Behind("event", "subscribed", rsp) =>
          \/ Callback("subscribed")
          \/ ~Callback("event") /\ Behind("event", "subscribed", rsp')
  <2>1. CASE Head(rsp) = "subscribed"
    BY <1>1, <2>1
  <2>2. CASE Head(rsp) # "subscribed"
    <3>1. Behind("event", "subscribed", rsp) =>
              Head(rsp) # "event" /\ Behind("event", "subscribed", Tail(rsp))
      BY <1>1, <2>2, TailOrder
    <3> QED
      BY <1>1, <3>1
  <2> QED
    BY <2>1, <2>2
<1>4. /\ In("info", req) => In("info", req')
      /\ Ahead("subscribe", Levels, req) => Ahead("subscribe", Levels, req')
  BY AppendOrder DEF ToServer, TypeOK
<1> QED
  BY <1>2, <1>3, <1>4

(* A request that sets no volume leaves the last one where it is.          *)
LEMMA LevelsStay ==
  ASSUME TypeOK, UNCHANGED req \/ \E x : ToServer(x) /\ x \notin Levels
  PROVE  /\ LastIn(curr_volume, Levels, req) => LastIn(curr_volume, Levels, req')
         /\ (\A r \in Levels : ~In(r, req)) => \A r \in Levels : ~In(r, req')
<1>1. CASE UNCHANGED req
  BY <1>1
<1>2. ASSUME NEW x, ToServer(x), x \notin Levels
      PROVE  /\ LastIn(curr_volume, Levels, req) => LastIn(curr_volume, Levels, req')
             /\ (\A r \in Levels : ~In(r, req)) => \A r \in Levels : ~In(r, req')
  <2>1. req \in Seq(Requests) /\ req' = Append(req, x)
    BY <1>2 DEF ToServer, TypeOK
  <2> QED
    BY <1>2, <2>1, AppendOrder, AppendElements
<1> QED
  BY <1>1, <1>2

LEMMA SettlingLoop == Sound /\ Settling /\ LoopStep => Settling'
<1> SUFFICES ASSUME TypeOK, Stages, Silence, NoticesHeard, VolumeComes, LoopStep
             PROVE  NoticesHeard' /\ VolumeComes'
  BY DEF Sound, Settling
<1> USE DEF MainFrame, flags
<1>l. "info" \notin Levels /\ "drain" \notin Levels
  BY LevelAssumption DEF Queries
<1>1. CASE ContextReady
  <2>1. req' = <<"info", "subscribe", "stream">> /\ rsp' = <<>> /\ ~sub
    BY <1>1 DEF ContextReady, Silence
  <2>2. In("info", req')
    BY <2>1 DEF In
  <2>3. Ahead("subscribe", Levels, req')
    <3>1. 2 \in DOMAIN req' /\ req'[2] = "subscribe" /\ \A j \in DOMAIN req' : j < 2 => req'[j] = "info"
      BY <2>1
    <3> QED
      BY <1>l, <3>1 DEF Ahead
  <2>4. Behind("event", "subscribed", rsp')
    BY <2>1 DEF Behind
  <2> QED
    BY <1>1, <2>1, <2>2, <2>3, <2>4 DEF ContextReady, NoticesHeard, VolumeComes
<1>2. CASE SetSpeaker
  <2>1. ToServer(curr_volume) /\ Callback("info")
    BY <1>2 DEF SetSpeaker
  <2>2. LastIn(curr_volume, Levels, req')
    BY <2>1, AppendOrder DEF ToServer, TypeOK
  <2>3. ~Callback("subscribed")
    BY <2>1 DEF Callback
  <2> QED
    BY <1>2, <2>1, <2>2, <2>3, CallbackOrder DEF SetSpeaker, NoticesHeard, VolumeComes
<1>3. CASE Subscribed
  <2>1. Callback("subscribed") /\ ~Callback("info") /\ ~Callback("event")
    BY <1>3 DEF Subscribed, Callback
  <2> QED
    BY <1>3, <2>1, CallbackOrder, LevelsStay DEF Subscribed, NoticesHeard, VolumeComes, SpeakerHas
<1>4. CASE SinkChanged
  <2>1. Callback("event") /\ ~Callback("info") /\ ~Callback("subscribed")
    BY <1>4 DEF SinkChanged, Callback
  <2>2. UNCHANGED req \/ \E x : ToServer(x) /\ x \notin Levels
    BY <1>4, <1>l DEF SinkChanged
  <2>3. ctx = "ready" => heard
    BY <2>1, <2>2, CallbackOrder DEF NoticesHeard
  <2>4. ctx = "ready" => In("info", req')
    BY <1>4, <2>3, AppendOrder DEF SinkChanged, ToServer, TypeOK
  <2> QED
    BY <1>4, <2>1, <2>2, <2>3, <2>4, CallbackOrder DEF SinkChanged, NoticesHeard, VolumeComes
<1>5. CASE WriteData \/ StreamDrained
  <2>1. /\ Callback("more") \/ Callback("drained")
        /\ ~Callback("info") /\ ~Callback("subscribed") /\ ~Callback("event")
    BY <1>5 DEF WriteData, StreamDrained, Callback
  <2>2. UNCHANGED req \/ \E x : ToServer(x) /\ x \notin Levels
    BY <1>5, <1>l DEF WriteData, StreamDrained
  <2>3. UNCHANGED <<main, after, ctx, heard, curr_volume, sub, sink>>
    BY <1>5 DEF WriteData, StreamDrained
  <2> QED
    BY <2>1, <2>2, <2>3, CallbackOrder, LevelsStay DEF NoticesHeard, VolumeComes, SpeakerHas
<1>6. CASE ContextDrained
  BY <1>6 DEF ContextDrained, NoticesHeard, VolumeComes
<1> QED
  BY <1>1, <1>2, <1>3, <1>4, <1>5, <1>6 DEF LoopStep

(* The server adds to the replies, and no notice before it has accepted    *)
(* the subscription.                                                       *)
LEMMA RepliesGrow ==
  ASSUME TypeOK, NoticesHeard, ctx = "ready", UNCHANGED <<heard>>,
         NEW x, rsp' = rsp \/ (rsp' = Append(rsp, x) /\ (x = "event" => sub))
  PROVE  /\ In("info", rsp) => In("info", rsp')
         /\ In("event", rsp) => In("event", rsp')
         /\ sub /\ ~heard => In("subscribed", rsp')
         /\ ~heard => Behind("event", "subscribed", rsp')
  BY AppendOrder DEF TypeOK, NoticesHeard

LEMMA SettlingServer == Sound /\ Settling /\ (ServerHandles \/ ServerAsks \/ UserTurns) => Settling'
<1> SUFFICES ASSUME TypeOK, Stages, Silence, NoticesHeard, VolumeComes,
                    ServerHandles \/ ServerAsks \/ UserTurns, ctx = "ready"
             PROVE  NoticesHeard' /\ VolumeComes'
  BY DEF Sound, Settling, NoticesHeard, VolumeComes, ServerHandles, ServerAsks, UserTurns, Client
<1> USE DEF Client, flags
<1>l. Levels \cap Queries = {}
  BY LevelAssumption
<1>n. Notify /\ sub => In("event", rsp')
  BY AppendOrder DEF Notify, TypeOK
<1>1. CASE ServerHandles
  <2>0. req \in Seq(Requests) /\ req # <<>> /\ req' = Tail(req) /\ rsp \in Seq(Replies)
    BY <1>1 DEF ServerHandles, TypeOK
  <2>1. CASE Head(req) = "subscribe"
    <3>1. rsp' = Append(rsp, "subscribed") /\ sub' /\ UNCHANGED <<sink>>
      BY <1>1, <1>l, <2>1 DEF ServerHandles, Queries
    <3>2. /\ In("subscribed", rsp') /\ (In("info", rsp) => In("info", rsp'))
          /\ (In("event", rsp) => In("event", rsp'))
          /\ ~heard => Behind("event", "subscribed", rsp')
      BY <2>0, <3>1, AppendOrder DEF NoticesHeard
    <3>3. /\ In("info", req) => In("info", req')
          /\ LastIn(curr_volume, Levels, req) => LastIn(curr_volume, Levels, req')
          /\ (\A r \in Levels : ~In(r, req)) => \A r \in Levels : ~In(r, req')
      BY <2>0, <2>1, TailOrder, TailElements, <1>l DEF Queries, Silence
    <3> QED
      BY <1>1, <3>1, <3>2, <3>3 DEF ServerHandles, NoticesHeard, VolumeComes, SpeakerHas
  <2>2. CASE Head(req) \in Levels
    <3>1. sub
      BY <2>0, <2>2, <1>l, TailOrder DEF NoticesHeard, Queries
    <3>2. sink' = Head(req) /\ (rsp' = rsp \/ rsp' = Append(rsp, "event")) /\ UNCHANGED sub
      BY <1>1, <1>l, <2>2 DEF ServerHandles, Queries, Notify
    <3>3. Head(req) # "info"
      BY <1>l, <2>2 DEF Queries
    <3>4. ~SpeakerHas
      BY <2>0, <2>2, TailElements DEF SpeakerHas
    <3>5. LastIn(curr_volume, Levels, req) =>
              LastIn(curr_volume, Levels, req') \/ SpeakerHas'
      BY <1>1, <2>0, <3>1, <3>2, TailOrder DEF SpeakerHas, ServerHandles
    <3>6. In("info", req) => In("info", req')
      BY <2>0, <3>3, TailOrder
    <3>7. /\ In("info", rsp) => In("info", rsp')
          /\ In("event", rsp) => In("event", rsp')
          /\ ~heard => In("subscribed", rsp') /\ Behind("event", "subscribed", rsp')
      BY <1>1, <3>1, <3>2, RepliesGrow DEF ServerHandles
    <3> QED
      BY <1>1, <3>1, <3>2, <3>4, <3>5, <3>6, <3>7 DEF ServerHandles, NoticesHeard, VolumeComes
  <2>3. CASE Head(req) \notin Levels /\ Head(req) # "subscribe"
    <3>1. /\ UNCHANGED <<sub, sink>>
          /\ rsp' = rsp \/ rsp' = Append(rsp, "info") \/ rsp' = Append(rsp, "drained")
          /\ Head(req) = "info" => rsp' = Append(rsp, "info")
      BY <1>1, <2>3 DEF ServerHandles
    <3>2. /\ In("info", rsp) => In("info", rsp')
          /\ In("event", rsp) => In("event", rsp')
          /\ sub /\ ~heard => In("subscribed", rsp')
          /\ ~heard => Behind("event", "subscribed", rsp')
      BY <1>1, <3>1, RepliesGrow DEF ServerHandles
    <3>3. In("info", req) => In("info", req') \/ In("info", rsp')
      <4>1. Head(req) = "info" => In("info", rsp')
        BY <2>0, <3>1, AppendOrder
      <4>2. In("info", req) /\ Head(req) # "info" => In("info", req')
        BY <2>0, TailOrder
      <4> QED
        BY <4>1, <4>2
    <3>4. /\ ~sub => Ahead("subscribe", Levels, req')
          /\ LastIn(curr_volume, Levels, req) => LastIn(curr_volume, Levels, req')
          /\ (\A r \in Levels : ~In(r, req)) => \A r \in Levels : ~In(r, req')
      BY <2>0, <2>3, TailOrder, TailElements DEF NoticesHeard, Silence
    <3> QED
      BY <1>1, <3>1, <3>2, <3>3, <3>4 DEF ServerHandles, NoticesHeard, VolumeComes, SpeakerHas
  <2> QED
    BY <2>1, <2>2, <2>3
<1>2. CASE ServerAsks
  BY <1>2, RepliesGrow DEF ServerAsks, NoticesHeard, VolumeComes, SpeakerHas
<1>3. CASE UserTurns
  <2>1. rsp' = rsp \/ (rsp' = Append(rsp, "event") /\ sub)
    BY <1>3 DEF UserTurns, Notify
  <2>2. /\ In("info", rsp) => In("info", rsp')
        /\ In("event", rsp) => In("event", rsp')
        /\ sub /\ ~heard => In("subscribed", rsp')
        /\ ~heard => Behind("event", "subscribed", rsp')
    BY <1>3, <2>1, RepliesGrow DEF UserTurns
  <2>3. SpeakerHas => In("event", rsp')
    BY <1>3, <1>n DEF UserTurns, SpeakerHas
  <2> QED
    BY <1>3, <2>2, <2>3 DEF UserTurns, NoticesHeard, VolumeComes
<1> QED
  BY <1>1, <1>2, <1>3

LEMMA SettlingStep == Sound /\ Settling /\ [Next]_vars => Settling'
<1>1. Settling /\ UNCHANGED vars => Settling'
  BY DEF Settling, NoticesHeard, VolumeComes, SpeakerHas, vars, flags, server
<1> QED
  BY <1>1, SettlingMain, SettlingLoop, SettlingServer DEF Next, Gone

LEMMA SettlingAlways == Spec => []Settling
  BY SoundAlways, SettlingInit, SettlingStep, PTL DEF Spec

(* The alarm cannot be turned down: however the user turns the volume, and *)
(* whenever, the speaker has the volume last commanded as soon as nothing  *)
(* is under way (sound.c:133-149, 188-213).                                *)
THEOREM SoundVolumeHeld == Spec => []VolumeHeld
<1>1. Sound /\ Settling => VolumeHeld
  <2> SUFFICES ASSUME TypeOK, VolumeComes, main # "gone", ctx = "ready", ~Pending, ~In("event", rsp),
                      after # "volume" \/ main \notin {"ack", "volume"}
               PROVE  sink = curr_volume
    BY DEF Sound, Settling, VolumeHeld
  <2>1. req = <<>> /\ ~In("info", rsp)
    BY DEF Pending
  <2>2. ~In("info", req) /\ ~LastIn(curr_volume, Levels, req)
    BY <2>1 DEF In, LastIn
  <2> QED
    BY <2>1, <2>2 DEF VolumeComes, SpeakerHas
<1> QED
  BY <1>1, SoundAlways, SettlingAlways, PTL
=============================================================================
