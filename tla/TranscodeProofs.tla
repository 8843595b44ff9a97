--------------------------- MODULE TranscodeProofs ---------------------------
(***************************************************************************)
(* What a sound file, a codec and PulseAudio of any size get out of the    *)
(* transcoder.                                                             *)
(***************************************************************************)
EXTENDS Transcode, TLAPS

Bytes == 0..(FileBytes - 1)

LEMMA Parts ==
  ASSUME NEW S, NEW s \in Seq(S), NEW n \in 0..Len(s)
  PROVE  /\ SubSeq(s, 1, n) \in Seq(S) /\ Len(SubSeq(s, 1, n)) = n
         /\ SubSeq(s, n + 1, Len(s)) \in Seq(S) /\ Len(SubSeq(s, n + 1, Len(s))) = Len(s) - n
  OBVIOUS

LEMMA Joined ==
  ASSUME NEW S, NEW s \in Seq(S), NEW u \in Seq(S)
  PROVE  s \o u \in Seq(S) /\ Len(s \o u) = Len(s) + Len(u)
  OBVIOUS

LEMMA Constants ==
  /\ FileBytes \in Nat \ {0} /\ MaxPacket \in Nat /\ Capacity \in Nat
  /\ Len(File) \in Nat \ {0} /\ 1 \in 1..Len(File)
  /\ \A i \in 1..Len(File) : File[i] \in Seq(Bytes) /\ Len(File[i]) <= MaxPacket
  /\ \A n \in Requests : n \in Nat
<1>1. /\ FileBytes \in Nat \ {0} /\ MaxPacket \in Nat
      /\ File \in Seq(Seq(Bytes)) /\ File /= <<>>
      /\ \A i \in 1..Len(File) : Len(File[i]) <= MaxPacket
  BY FileAssumption DEF FileAssumption, Bytes
<1>2. Capacity \in Nat /\ \A n \in Requests : n \in Nat
  BY BufferAssumption DEF BufferAssumption
<1>3. Len(File) \in Nat \ {0} /\ \A i \in 1..Len(File) : File[i] \in Seq(Bytes)
  BY <1>1
<1> QED
  BY <1>1, <1>2, <1>3
-----------------------------------------------------------------------------
(* Types.                                                                  *)

LEMMA TypeInit == Init => TypeOK
<1> SUFFICES ASSUME Init PROVE TypeOK
  OBVIOUS
<1>1. <<>> \in Seq(0..(FileBytes - 1)) /\ Len(<<>>) = 0
  OBVIOUS
<1>2. failed \in BOOLEAN /\ trouble \subseteq Causes
  BY DEF Init
<1>3. packet \in 1..(Len(File) + 1) /\ heard \in -1..(FileBytes - 1) /\ Len(ring) <= Capacity
  BY <1>1, Constants DEF Init
<1> QED
  BY <1>1, <1>2, <1>3, Constants DEF Init, TypeOK

LEMMA TypeNext == TypeOK /\ [Next]_vars => TypeOK'
<1> SUFFICES ASSUME TypeOK, [Next]_vars PROVE TypeOK'
  OBVIOUS
<1> USE Constants DEF Bytes
<1>1. ASSUME NEW n \in Requests, Request(n) PROVE TypeOK'
  BY <1>1 DEF Request, TypeOK
<1>2. CASE FillBlock
  <2>1. nbytes \in 0..Len(ring)
    BY <1>2 DEF FillBlock, TypeOK
  <2>2. /\ SubSeq(ring, 1, nbytes) \in Seq(Bytes)
        /\ SubSeq(ring, nbytes + 1, Len(ring)) \in Seq(Bytes)
        /\ Len(SubSeq(ring, nbytes + 1, Len(ring))) <= Capacity
    <3>1. ring \in Seq(Bytes) /\ Len(ring) <= Capacity /\ Len(ring) \in Nat /\ nbytes \in Nat
      BY DEF TypeOK
    <3>2. Len(SubSeq(ring, nbytes + 1, Len(ring))) = Len(ring) - nbytes
      BY <2>1, <3>1, Parts
    <3> QED
      BY <2>1, <3>1, <3>2, Parts
  <2> QED
    BY <1>2, <2>2 DEF FillBlock, TypeOK
<1>3. CASE FillBlockFails
  <2>1. <<>> \in Seq(Bytes)
    OBVIOUS
  <2> QED
    BY <1>3, <2>1 DEF FillBlockFails, Fails, Causes, TypeOK
<1>4. CASE ReadPacket
  <2>1. decoder \o File[packet] \in Seq(Bytes)
    BY <1>4, Joined DEF ReadPacket, TypeOK
  <2> QED
    BY <1>4, <2>1 DEF ReadPacket, TypeOK
<1>5. CASE Rewind
  <2>1. decoder \o File[1] \in Seq(Bytes)
    BY <1>5, Joined DEF Rewind, TypeOK
  <2>2. trouble' \subseteq Causes
    BY <1>5 DEF Rewind, Causes, TypeOK
  <2> QED
    BY <1>5, <2>1, <2>2 DEF Rewind, TypeOK
<1>6. CASE ReadPacketFails
  BY <1>6 DEF ReadPacketFails, Fails, Causes, TypeOK
<1>7. ASSUME NEW k \in Frames, ReceiveFrame(k) \/ FrameLost(k) PROVE TypeOK'
  <2>1. /\ k \in 0..Len(decoder) /\ k \in Nat
        /\ SubSeq(decoder, 1, k) \in Seq(Bytes) /\ Len(SubSeq(decoder, 1, k)) = k
        /\ SubSeq(decoder, k + 1, Len(decoder)) \in Seq(Bytes)
    <3>1. decoder \in Seq(Bytes) /\ k \in 0..Len(decoder)
      BY DEF TypeOK, Frames
    <3> QED
      BY <3>1, Parts
  <2>2. CASE ReceiveFrame(k)
    <3>1. k <= Capacity - Len(ring) /\ Len(ring) \in Nat
      BY <2>2 DEF ReceiveFrame, Room, TypeOK
    <3>2. /\ ring \o SubSeq(decoder, 1, k) \in Seq(Bytes)
          /\ Len(ring \o SubSeq(decoder, 1, k)) = Len(ring) + k
      BY <2>1, Joined DEF TypeOK
    <3>3. ring' \in Seq(Bytes) /\ Len(ring') <= Capacity
      BY <2>1, <2>2, <3>1, <3>2 DEF ReceiveFrame
    <3> QED
      BY <2>1, <2>2, <3>3 DEF ReceiveFrame, TypeOK
  <2>3. CASE FrameLost(k)
    BY <2>1, <2>3 DEF FrameLost, Fails, Causes, TypeOK
  <2> QED
    BY <1>7, <2>2, <2>3
<1>8. CASE DecoderDry
  BY <1>8 DEF DecoderDry, TypeOK
<1>9. CASE WriteToStream
  <2>1. tmp /= <<>> => tmp[Len(tmp)] \in Bytes
    BY DEF TypeOK
  <2>2. heard' \in -1..(FileBytes - 1)
    BY <1>9, <2>1 DEF WriteToStream, TypeOK
  <2> QED
    BY <1>9, <2>2 DEF WriteToStream, TypeOK
<1>10. CASE UNCHANGED vars
  BY <1>10 DEF vars, TypeOK
<1> QED
  BY <1>1, <1>2, <1>3, <1>4, <1>5, <1>6, <1>7, <1>8, <1>9, <1>10 DEF Next, Decoding

\* No call leaves more in the ring buffer than fits, and the file position
\* stays in the file, whatever the libraries report (audio_transcode.c:236
\* and 201-216).
THEOREM TypeOKAlways == Spec => []TypeOK
  BY TypeInit, TypeNext, PTL DEF Spec
-----------------------------------------------------------------------------
(* A fresh answer, if the ring buffer is large enough.                     *)

\* What is left in the ring buffer is no more than the request, before a
\* packet is read, and it fits together with that packet.
Fits ==
  /\ pc \in {"idle", "fill", "write"} => decoder = <<>>
  /\ pc = "decode" => /\ nbytes \in Requests
                      /\ Len(ring) + Len(decoder) <= nbytes + MaxPacket
  /\ pc = "fill" => nbytes \in Requests
  /\ pc \in {"fill", "decode"} => ~failed

Fresh == Fits /\ AnswerIsFresh
IInv == TypeOK /\ ("library" \notin trouble => Fresh)

\* What a library has reported stays reported.
LEMMA BlameStays == "library" \in trouble /\ [Next]_vars => "library" \in trouble'
<1> SUFFICES ASSUME "library" \in trouble, [Next]_vars PROVE "library" \in trouble'
  OBVIOUS
<1>1. ASSUME NEW n \in Requests, Request(n) PROVE "library" \in trouble'
  BY <1>1 DEF Request
<1>2. CASE FillBlock \/ FillBlockFails \/ ReadPacket \/ ReadPacketFails
  BY <1>2 DEF FillBlock, FillBlockFails, ReadPacket, ReadPacketFails, Fails
<1>3. CASE Rewind
  BY <1>3 DEF Rewind
<1>4. ASSUME NEW k \in Frames, ReceiveFrame(k) \/ FrameLost(k) PROVE "library" \in trouble'
  BY <1>4 DEF ReceiveFrame, FrameLost, Fails
<1>5. CASE DecoderDry \/ WriteToStream \/ UNCHANGED vars
  BY <1>5 DEF DecoderDry, WriteToStream, vars
<1> QED
  BY <1>1, <1>2, <1>3, <1>4, <1>5 DEF Next, Decoding

LEMMA FreshNext ==
  ASSUME Roomy, TypeOK, Fresh, [Next]_vars, "library" \notin trouble'
  PROVE  Fresh'
<1>0. TypeOK /\ TypeOK' /\ "library" \notin trouble
  BY TypeNext, BlameStays
<1> USE Constants DEF Fresh
<1>1. ASSUME NEW n \in Requests, Request(n) PROVE Fresh'
  BY <1>0, <1>1 DEF Request, Fits, AnswerIsFresh
<1>2. CASE FillBlock
  <2>1. Len(SubSeq(ring, 1, nbytes)) = nbytes
    BY <1>0, <1>2 DEF FillBlock, TypeOK
  <2> QED
    BY <1>0, <1>2, <2>1 DEF FillBlock, Fits, AnswerIsFresh
<1>3. ~FillBlockFails
  BY DEF FillBlockFails, Fails
<1>4. CASE ReadPacket \/ Rewind
  <2>1. PICK p \in 1..Len(File) : decoder' = decoder \o File[p]
    <3>1. CASE ReadPacket
      <4>1. packet \in 1..Len(File)
        BY <1>0, <3>1 DEF ReadPacket, TypeOK
      <4> QED
        BY <3>1, <4>1 DEF ReadPacket
    <3>2. CASE Rewind
      BY <3>2 DEF Rewind
    <3> QED
      BY <1>4, <3>1, <3>2
  <2>2. decoder = <<>> /\ pc = "fill"
    BY <1>4 DEF ReadPacket, Rewind, Fits
  <2>3. Len(decoder') <= MaxPacket
    BY <2>1, <2>2
  <2>4. Len(ring) <= nbytes /\ ring' = ring /\ nbytes' = nbytes /\ pc' = "decode" /\ failed' = failed
    BY <1>4 DEF ReadPacket, Rewind
  <2>5. Len(ring') + Len(decoder') <= nbytes' + MaxPacket
    BY <1>0, <2>3, <2>4 DEF TypeOK
  <2> QED
    BY <1>0, <2>2, <2>4, <2>5 DEF Fits, AnswerIsFresh
<1>5. ~ReadPacketFails
  BY DEF ReadPacketFails, Fails, Fits
<1>6. ASSUME NEW k \in Frames, ReceiveFrame(k) PROVE Fresh'
  <2>1. k \in 0..Len(decoder) /\ pc = "decode"
    BY <1>0, <1>6 DEF Frames, TypeOK, ReceiveFrame
  <2>2. Len(ring') = Len(ring) + k /\ Len(decoder') = Len(decoder) - k
    <3>1. ring \in Seq(Bytes) /\ decoder \in Seq(Bytes)
      BY <1>0 DEF TypeOK, Bytes
    <3>2. /\ SubSeq(decoder, 1, k) \in Seq(Bytes) /\ Len(SubSeq(decoder, 1, k)) = k
          /\ Len(SubSeq(decoder, k + 1, Len(decoder))) = Len(decoder) - k
      BY <2>1, <3>1, Parts
    <3>3. Len(ring \o SubSeq(decoder, 1, k)) = Len(ring) + k
      BY <3>1, <3>2, Joined
    <3> QED
      BY <1>6, <3>2, <3>3 DEF ReceiveFrame
  <2>3. Len(ring') + Len(decoder') <= nbytes' + MaxPacket
    <3>1. /\ Len(ring) \in Nat /\ Len(decoder) \in Nat /\ nbytes \in Nat
          /\ Len(ring) + Len(decoder) <= nbytes + MaxPacket /\ nbytes' = nbytes
      BY <1>0, <1>6, <2>1 DEF ReceiveFrame, Fits, TypeOK
    <3> QED
      BY <2>1, <2>2, <3>1
  <2> QED
    BY <1>0, <1>6, <2>1, <2>3 DEF ReceiveFrame, Fits, AnswerIsFresh
<1>7. ASSUME NEW k \in Frames PROVE ~FrameLost(k)
  <2> SUFFICES ASSUME FrameLost(k) PROVE FALSE
    OBVIOUS
  <2>1. pc = "decode" /\ k > Capacity - Len(ring) /\ k <= Len(decoder) /\ k \in Nat
    BY <1>0 DEF FrameLost, Fails, Room, Frames, TypeOK
  <2>2. Len(ring) + Len(decoder) <= nbytes + MaxPacket /\ nbytes + MaxPacket <= Capacity
    BY <2>1 DEF Fits, Roomy
  <2>3. Len(ring) \in Nat /\ Len(decoder) \in Nat /\ nbytes \in Nat
    BY <1>0 DEF TypeOK
  <2> QED
    BY <2>1, <2>2, <2>3
<1>8. CASE DecoderDry
  BY <1>0, <1>8 DEF DecoderDry, Fits, AnswerIsFresh
<1>9. CASE WriteToStream
  BY <1>0, <1>9 DEF WriteToStream, Fits, AnswerIsFresh
<1>10. CASE UNCHANGED vars
  BY <1>0, <1>10 DEF vars, Fits, AnswerIsFresh
<1> QED
  BY <1>1, <1>2, <1>3, <1>4, <1>5, <1>6, <1>7, <1>8, <1>9, <1>10 DEF Next, Decoding

\* Where a request and one packet fit into the ring buffer together, every
\* request is answered with a fresh block of exactly the bytes asked for
\* (sound.c:48-63), until a library reports an error: for every file, every
\* way the decoder splits it into frames and every sequence of requests.
THEOREM FreshAlways == ASSUME Roomy PROVE Spec => []AnswerIsFresh
<1>1. Init => IInv
  BY TypeInit DEF Init, IInv, Fresh, Fits, AnswerIsFresh
<1>2. IInv /\ [Next]_vars => IInv'
  BY TypeNext, BlameStays, FreshNext DEF IInv
<1>3. IInv => AnswerIsFresh
  BY DEF IInv, Fresh, AnswerIsFresh
<1> QED
  BY <1>1, <1>2, <1>3, PTL DEF Spec

-----------------------------------------------------------------------------
(* No gaps.  A run is a piece of the sound with no gap in it: it starts    *)
(* with byte p, and q is the byte to follow it.                            *)

Succ(b) == (b + 1) % FileBytes
Run(p, s, q) ==
  /\ s = <<>> => p = q
  /\ s /= <<>> => s[1] = p /\ Succ(s[Len(s)]) = q
  /\ \A i \in 1..(Len(s) - 1) : s[i + 1] = Succ(s[i])

LEMMA EmptyRun == ASSUME NEW p PROVE Run(p, <<>>, p)
  BY DEF Run

LEMMA RunJoin ==
  ASSUME NEW s \in Seq(Bytes), NEW u \in Seq(Bytes), NEW p, NEW q, NEW r,
         Run(p, s, q), Run(q, u, r)
  PROVE  Run(p, s \o u, r)
<1>1. /\ Len(s) \in Nat /\ Len(u) \in Nat /\ Len(s \o u) = Len(s) + Len(u)
      /\ \A i \in 1..Len(s) : (s \o u)[i] = s[i]
      /\ \A i \in (Len(s) + 1)..(Len(s) + Len(u)) : (s \o u)[i] = u[i - Len(s)]
  OBVIOUS
<1>2. CASE s = <<>>
  <2>1. s \o u = u
    BY <1>2
  <2> QED
    BY <1>2, <2>1 DEF Run
<1>3. CASE u = <<>>
  <2>1. s \o u = s
    BY <1>3
  <2> QED
    BY <1>3, <2>1 DEF Run
<1>4. CASE s /= <<>> /\ u /= <<>>
  <2>1. Len(s) > 0 /\ Len(u) > 0
    BY <1>4
  <2>2. (s \o u)[1] = p /\ Succ((s \o u)[Len(s \o u)]) = r /\ s \o u /= <<>>
    BY <1>1, <1>4, <2>1 DEF Run
  <2>3. ASSUME NEW i \in 1..(Len(s \o u) - 1) PROVE (s \o u)[i + 1] = Succ((s \o u)[i])
    <3>1. CASE i < Len(s)
      BY <1>1, <2>3, <3>1 DEF Run
    <3>2. CASE i = Len(s)
      <4>1. (s \o u)[i + 1] = u[1] /\ (s \o u)[i] = s[Len(s)]
        BY <1>1, <2>1, <3>2
      <4> QED
        BY <1>4, <4>1 DEF Run
    <3>3. CASE i > Len(s)
      <4>1. i - Len(s) \in 1..(Len(u) - 1) /\ (i + 1) - Len(s) = (i - Len(s)) + 1
        BY <1>1, <2>3, <3>3
      <4>2. (s \o u)[i + 1] = u[(i - Len(s)) + 1] /\ (s \o u)[i] = u[i - Len(s)]
        BY <1>1, <2>3, <3>3, <4>1
      <4> QED
        BY <4>1, <4>2 DEF Run
    <3> QED
      BY <1>1, <2>3, <3>1, <3>2, <3>3
  <2> QED
    BY <2>2, <2>3 DEF Run
<1> QED
  BY <1>2, <1>3, <1>4

LEMMA RunSplit ==
  ASSUME NEW s \in Seq(Bytes), NEW n \in 0..Len(s), NEW p, NEW r, Run(p, s, r)
  PROVE  \E q : Run(p, SubSeq(s, 1, n), q) /\ Run(q, SubSeq(s, n + 1, Len(s)), r)
<1> DEFINE a == SubSeq(s, 1, n)
           b == SubSeq(s, n + 1, Len(s))
<1>1. /\ Len(s) \in Nat /\ Len(a) = n /\ Len(b) = Len(s) - n
      /\ \A i \in 1..n : a[i] = s[i]
      /\ \A i \in 1..(Len(s) - n) : b[i] = s[n + i]
  OBVIOUS
<1>2. a \in Seq(Bytes) /\ b \in Seq(Bytes)
  BY Parts
<1> HIDE DEF a, b
<1>3. CASE n = 0
  <2>1. a = <<>> /\ b = s
    BY <1>3 DEF a, b
  <2> QED
    BY <2>1, EmptyRun DEF a, b
<1>4. CASE n = Len(s)
  <2>1. a = s /\ b = <<>>
    BY <1>4 DEF a, b
  <2> QED
    BY <2>1, EmptyRun DEF a, b
<1>5. CASE n > 0 /\ n < Len(s)
  <2>1. a /= <<>> /\ b /= <<>> /\ s /= <<>>
    BY <1>1, <1>5
  <2>2. Run(p, a, s[n + 1])
    <3>1. a[1] = p /\ Succ(a[Len(a)]) = s[n + 1]
      <4>1. a[1] = s[1] /\ a[Len(a)] = s[n] /\ n \in 1..(Len(s) - 1)
        BY <1>1, <1>5
      <4> QED
        BY <2>1, <4>1 DEF Run
    <3>2. \A i \in 1..(Len(a) - 1) : a[i + 1] = Succ(a[i])
      <4> SUFFICES ASSUME NEW i \in 1..(Len(a) - 1) PROVE a[i + 1] = Succ(a[i])
        OBVIOUS
      <4>1. i \in 1..(Len(s) - 1) /\ a[i + 1] = s[i + 1] /\ a[i] = s[i]
        BY <1>1, <1>5
      <4> QED
        BY <4>1 DEF Run
    <3> QED
      BY <2>1, <3>1, <3>2 DEF Run
  <2>3. Run(s[n + 1], b, r)
    <3>1. b[1] = s[n + 1] /\ Succ(b[Len(b)]) = r
      <4>1. b[1] = s[n + 1] /\ b[Len(b)] = s[Len(s)]
        BY <1>1, <1>5
      <4> QED
        BY <2>1, <4>1 DEF Run
    <3>2. \A i \in 1..(Len(b) - 1) : b[i + 1] = Succ(b[i])
      <4> SUFFICES ASSUME NEW i \in 1..(Len(b) - 1) PROVE b[i + 1] = Succ(b[i])
        OBVIOUS
      <4>1. n + i \in 1..(Len(s) - 1) /\ b[i + 1] = s[(n + i) + 1] /\ b[i] = s[n + i]
        BY <1>1, <1>5
      <4> QED
        BY <4>1 DEF Run
    <3> QED
      BY <2>1, <3>1, <3>2 DEF Run
  <2> QED
    BY <2>2, <2>3 DEF a, b
<1> QED
  BY <1>3, <1>4, <1>5
LEMMA SuccIs ==
  /\ Succ(-1) = 0
  /\ \A b \in Bytes : Succ(b) = IF b + 1 = FileBytes THEN 0 ELSE b + 1
<1>1. FileBytes \in Nat \ {0}
  BY Constants
<1>2. 0 % FileBytes = 0 /\ FileBytes % FileBytes = 0
  BY <1>1
<1>3. \A b \in Nat : b < FileBytes => b % FileBytes = b
  BY <1>1
<1> QED
  BY <1>1, <1>2, <1>3 DEF Succ, Bytes

\* Where the packets start.
Numbers(start) ==
  /\ start \in [1..(Len(File) + 1) -> 0..FileBytes]
  /\ start[1] = 0 /\ start[Len(File) + 1] = FileBytes
  /\ \A i \in 1..Len(File) :
       /\ Len(File[i]) = start[i + 1] - start[i]
       /\ \A j \in 1..Len(File[i]) : File[i][j] = start[i] + j - 1
Start == CHOOSE start : Numbers(start)
At(i) == IF Start[i] = FileBytes THEN 0 ELSE Start[i]

LEMMA StartNumbers == Numbers(Start)
<1>1. \E start : Numbers(start)
  BY NumberingAssumption DEF NumberingAssumption, Numbers
<1> QED
  BY <1>1 DEF Start

LEMMA StartOver == At(1) = 0 /\ At(Len(File) + 1) = 0
  BY StartNumbers DEF Numbers, At

LEMMA PacketRun ==
  ASSUME NEW i \in 1..Len(File)
  PROVE  Run(At(i), File[i], At(i + 1))
<1>1. /\ FileBytes \in Nat \ {0} /\ Len(File) \in Nat
      /\ File[i] \in Seq(Bytes) /\ Len(File[i]) \in Nat
  BY Constants
<1>2. Start[i] \in 0..FileBytes /\ Start[i + 1] \in 0..FileBytes
  BY <1>1, StartNumbers DEF Numbers
<1>3. /\ Len(File[i]) = Start[i + 1] - Start[i]
      /\ \A j \in 1..Len(File[i]) : File[i][j] = Start[i] + j - 1
  BY StartNumbers DEF Numbers
<1>4. CASE File[i] = <<>>
  <2>1. Start[i + 1] = Start[i]
    BY <1>2, <1>3, <1>4
  <2> QED
    BY <1>4, <2>1, EmptyRun DEF At
<1>5. CASE File[i] /= <<>>
  <2> DEFINE s == File[i]
             n == Len(File[i])
  <2>1. n \in Nat \ {0} /\ Start[i] + n = Start[i + 1]
    BY <1>1, <1>2, <1>3, <1>5
  <2>2. \A j \in 1..n : s[j] = Start[i] + j - 1 /\ s[j] \in Bytes
    BY <1>1, <1>3
  <2>3. s[1] = At(i)
    <3>1. s[1] = Start[i] /\ Start[i] < FileBytes
      <4>1. 1 \in 1..n /\ Start[i] < FileBytes
        BY <1>1, <1>2, <2>1
      <4>2. s[1] = Start[i] + 1 - 1
        BY <2>2, <4>1
      <4> QED
        BY <1>2, <4>1, <4>2
    <3> QED
      BY <1>1, <1>2, <3>1 DEF At
  <2>4. Succ(s[n]) = At(i + 1)
    <3>1. s[n] + 1 = Start[i + 1] /\ s[n] \in Bytes
      BY <1>2, <2>1, <2>2
    <3> QED
      BY <3>1, SuccIs DEF At
  <2>5. \A j \in 1..(n - 1) : s[j + 1] = Succ(s[j])
    <3> SUFFICES ASSUME NEW j \in 1..(n - 1) PROVE s[j + 1] = Succ(s[j])
      OBVIOUS
    <3>1. s[j] \in Bytes /\ s[j + 1] = s[j] + 1 /\ s[j + 1] \in Bytes
      <4>1. j \in 1..n /\ j + 1 \in 1..n
        BY <2>1
      <4> QED
        BY <1>2, <2>2, <4>1
    <3>2. s[j] + 1 /= FileBytes
      BY <1>1, <3>1 DEF Bytes
    <3> QED
      BY <3>1, <3>2, SuccIs
  <2> QED
    BY <1>5, <2>3, <2>4, <2>5 DEF Run
<1> QED
  BY <1>4, <1>5
-----------------------------------------------------------------------------
\* The sound is one run from the byte after the last one heard to the byte
\* the next packet starts with.
Unbroken ==
  \E a, b : Run(Succ(heard), OnItsWay, a) /\ Run(a, ring, b) /\ Run(b, decoder, At(packet))

GapInv ==
  /\ TypeOK
  /\ pc = "write" /\ trouble = {} => owner = "player"
  /\ trouble = {} => Unbroken

LEMMA GapInit == Init => GapInv
<1> SUFFICES ASSUME Init PROVE GapInv
  OBVIOUS
<1>1. OnItsWay = <<>> /\ ring = <<>> /\ decoder = <<>> /\ Succ(heard) = At(packet)
  BY SuccIs, StartOver DEF Init, OnItsWay
<1> QED
  BY <1>1, TypeInit, EmptyRun DEF GapInv, Init, Unbroken

LEMMA GapNext == GapInv /\ [Next]_vars => GapInv'
<1> SUFFICES ASSUME GapInv, [Next]_vars PROVE GapInv'
  OBVIOUS
<1>0. /\ TypeOK /\ TypeOK' /\ (trouble = {} => Unbroken)
      /\ (pc = "write" /\ trouble = {} => owner = "player")
      /\ ring \in Seq(Bytes) /\ decoder \in Seq(Bytes) /\ tmp \in Seq(Bytes)
  BY TypeNext DEF GapInv, TypeOK, Bytes
<1>1. ASSUME NEW n \in Requests, Request(n) PROVE GapInv'
  <2>1. OnItsWay' = <<>> /\ OnItsWay = <<>>
    BY <1>1 DEF Request, OnItsWay
  <2> QED
    BY <1>0, <1>1, <2>1 DEF Request, GapInv, Unbroken
<1>2. CASE FillBlock
  <2>1. OnItsWay = <<>> /\ OnItsWay' = tmp' /\ owner' = "player" /\ trouble' = trouble
    BY <1>2 DEF FillBlock, OnItsWay
  <2>2. ASSUME trouble = {} PROVE Unbroken'
    <3>1. PICK a, b : Run(Succ(heard), <<>>, a) /\ Run(a, ring, b) /\ Run(b, decoder, At(packet))
      BY <1>0, <2>1, <2>2 DEF Unbroken
    <3>2. Succ(heard) = a
      BY <3>1 DEF Run
    <3>3. nbytes \in 0..Len(ring)
      BY <1>0, <1>2 DEF FillBlock, TypeOK
    <3>4. PICK q : Run(a, SubSeq(ring, 1, nbytes), q) /\ Run(q, SubSeq(ring, nbytes + 1, Len(ring)), b)
      BY <1>0, <3>1, <3>3, RunSplit
    <3> QED
      BY <1>2, <2>1, <3>1, <3>2, <3>4 DEF FillBlock, Unbroken
  <2> QED
    BY <1>0, <2>1, <2>2 DEF GapInv
<1>3. CASE FillBlockFails \/ ReadPacketFails
  BY <1>0, <1>3 DEF FillBlockFails, ReadPacketFails, Fails, GapInv
<1>4. CASE ReadPacket \/ Rewind
  <2>1. OnItsWay = <<>> /\ OnItsWay' = <<>> /\ pc' = "decode"
    BY <1>4 DEF ReadPacket, Rewind, OnItsWay
  <2>2. ASSUME trouble' = {} PROVE Unbroken'
    <3>1. PICK p \in 1..Len(File) :
            /\ decoder' = decoder \o File[p] /\ At(packet) = At(p) /\ packet' = p + 1 /\ trouble = {}
      <4>1. CASE ReadPacket
        <5>1. packet \in 1..Len(File)
          BY <1>0, <4>1 DEF ReadPacket, TypeOK
        <5>2. decoder' = decoder \o File[packet] /\ packet' = packet + 1 /\ trouble = {}
          BY <2>2, <4>1 DEF ReadPacket
        <5> QED
          BY <5>1, <5>2
      <4>2. CASE Rewind
        <5>1. ~(packet <= Len(File)) /\ trouble = {}
          BY <2>2, <4>2 DEF Rewind
        <5>2. packet = Len(File) + 1
          BY <1>0, <5>1, Constants DEF TypeOK
        <5> QED
          BY <4>2, <5>1, <5>2, StartOver, Constants DEF Rewind
      <4> QED
        BY <1>4, <4>1, <4>2
    <3>2. PICK a, b : Run(Succ(heard), OnItsWay, a) /\ Run(a, ring, b) /\ Run(b, decoder, At(p))
      BY <1>0, <3>1 DEF Unbroken
    <3>3. File[p] \in Seq(Bytes)
      BY Constants
    <3>4. Run(b, decoder', At(packet'))
      BY <1>0, <3>1, <3>2, <3>3, PacketRun, RunJoin
    <3>5. ring' = ring /\ heard' = heard /\ OnItsWay' = OnItsWay
      BY <1>4, <2>1 DEF ReadPacket, Rewind
    <3> QED
      BY <3>2, <3>4, <3>5 DEF Unbroken
  <2> QED
    BY <1>0, <2>1, <2>2 DEF GapInv
<1>5. ASSUME NEW k \in Frames, ReceiveFrame(k) PROVE GapInv'
  <2>1. OnItsWay = <<>> /\ OnItsWay' = <<>> /\ pc' = "decode" /\ trouble' = trouble
    BY <1>5 DEF ReceiveFrame, OnItsWay
  <2>2. k \in 0..Len(decoder)
    BY <1>0 DEF Frames
  <2>3. ASSUME trouble = {} PROVE Unbroken'
    <3>1. PICK a, b : Run(Succ(heard), OnItsWay, a) /\ Run(a, ring, b) /\ Run(b, decoder, At(packet))
      BY <1>0, <2>3 DEF Unbroken
    <3>2. PICK q : /\ Run(b, SubSeq(decoder, 1, k), q)
                   /\ Run(q, SubSeq(decoder, k + 1, Len(decoder)), At(packet))
      BY <1>0, <2>2, <3>1, RunSplit
    <3>3. SubSeq(decoder, 1, k) \in Seq(Bytes)
      BY <1>0, <2>2, Parts
    <3>4. Run(a, ring \o SubSeq(decoder, 1, k), q)
      BY <1>0, <3>1, <3>2, <3>3, RunJoin
    <3> QED
      BY <1>5, <2>1, <3>1, <3>2, <3>4 DEF ReceiveFrame, Unbroken
  <2> QED
    BY <1>0, <2>1, <2>3 DEF GapInv
<1>6. ASSUME NEW k \in Frames, FrameLost(k) PROVE GapInv'
  BY <1>0, <1>6 DEF FrameLost, Fails, GapInv
<1>7. CASE DecoderDry
  <2>1. OnItsWay' = <<>> /\ OnItsWay = <<>>
    BY <1>7 DEF DecoderDry, OnItsWay
  <2> QED
    BY <1>0, <1>7, <2>1 DEF DecoderDry, GapInv, Unbroken
<1>8. CASE WriteToStream
  <2>1. OnItsWay' = <<>> /\ pc' = "idle" /\ trouble' = trouble
    BY <1>8 DEF WriteToStream, OnItsWay
  <2>2. ASSUME trouble = {} PROVE Unbroken'
    <3>1. OnItsWay = tmp
      BY <1>0, <1>8, <2>2 DEF WriteToStream, OnItsWay
    <3>2. PICK a, b : Run(Succ(heard), tmp, a) /\ Run(a, ring, b) /\ Run(b, decoder, At(packet))
      BY <1>0, <2>2, <3>1 DEF Unbroken
    <3>3. Succ(heard') = a
      <4>1. heard' = IF tmp = <<>> THEN heard ELSE tmp[Len(tmp)]
        BY <1>8 DEF WriteToStream
      <4> QED
        BY <3>2, <4>1 DEF Run
    <3>4. ring' = ring /\ decoder' = decoder /\ packet' = packet
      BY <1>8 DEF WriteToStream
    <3> QED
      BY <2>1, <3>2, <3>3, <3>4, EmptyRun DEF Unbroken
  <2> QED
    BY <1>0, <2>1, <2>2 DEF GapInv
<1>9. CASE UNCHANGED vars
  BY <1>0, <1>9 DEF vars, GapInv, Unbroken, OnItsWay
<1> QED
  BY <1>1, <1>2, <1>3, <1>4, <1>5, <1>6, <1>7, <1>8, <1>9 DEF Next, Decoding

LEMMA UnbrokenIsGapless == GapInv => Gapless
<1> SUFFICES ASSUME GapInv, trouble = {} PROVE LET sound == <<heard>> \o OnItsWay \o ring \o decoder
              IN \A i \in 1..(Len(sound) - 1) : sound[i + 1] = (sound[i] + 1) % FileBytes
  BY DEF Gapless
<1>1. PICK a, b : Run(Succ(heard), OnItsWay, a) /\ Run(a, ring, b) /\ Run(b, decoder, At(packet))
  BY DEF GapInv, Unbroken
<1>2. ring \in Seq(Bytes) /\ decoder \in Seq(Bytes) /\ OnItsWay \in Seq(Bytes)
  <2>1. ring \in Seq(Bytes) /\ decoder \in Seq(Bytes) /\ tmp \in Seq(Bytes)
    BY DEF GapInv, TypeOK, Bytes
  <2> QED
    BY <2>1 DEF OnItsWay
<1> DEFINE u == OnItsWay
           sound == <<heard>> \o u \o ring \o decoder
           tail == u \o ring \o decoder
<1>3. u \o ring \in Seq(Bytes) /\ tail \in Seq(Bytes)
  BY <1>2, Joined
<1>4. Run(Succ(heard), tail, At(packet))
  BY <1>1, <1>2, <1>3, RunJoin
<1>5. Len(sound) = 1 + Len(tail) /\ sound[1] = heard
      /\ \A i \in 1..Len(tail) : sound[i + 1] = tail[i]
  BY <1>2
<1> HIDE DEF tail, sound, u
<1>6. ASSUME NEW i \in 1..(Len(sound) - 1) PROVE sound[i + 1] = Succ(sound[i])
  <2>1. Len(tail) \in Nat /\ i \in 1..Len(tail) /\ tail /= <<>>
    BY <1>3, <1>5, <1>6
  <2>2. CASE i = 1
    BY <1>4, <1>5, <2>1, <2>2 DEF Run
  <2>3. CASE i > 1
    <3>1. i - 1 \in 1..(Len(tail) - 1) /\ (i - 1) + 1 = i
      BY <2>1, <2>3
    <3>2. sound[i + 1] = tail[(i - 1) + 1] /\ sound[i] = tail[i - 1]
      <4>1. sound[(i - 1) + 1] = tail[i - 1]
        BY <1>5, <2>1, <3>1
      <4> QED
        BY <1>5, <2>1, <3>1, <4>1
    <3> QED
      BY <1>4, <3>1, <3>2 DEF Run
  <2> QED
    BY <2>1, <2>2, <2>3
<1> QED
  BY <1>6 DEF sound, u, Succ

\* The sound has no gap and repeats nothing until the first error is
\* recorded, over the end of the file and on from its start, for every file,
\* every capacity of the ring buffer, every way the decoder splits packets
\* into frames, and every sequence of requests.
THEOREM GaplessAlways == Spec => []Gapless
  BY GapInit, GapNext, UnbrokenIsGapless, PTL DEF Spec
=============================================================================
