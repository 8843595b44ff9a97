------------------------------ MODULE Transcode ------------------------------
(***************************************************************************)
(* Decoding one sound file for ever: sa_decode_transcode of                *)
(* audio_transcode.c, called by write_data_to_stream of sound.c whenever   *)
(* PulseAudio asks for bytes.  What was decoded and not yet played waits   *)
(* in the ring buffer.  The decoded sound is the byte numbers              *)
(* 0 .. FileBytes - 1 over and over; the decoder splits a packet into      *)
(* frames as it likes.  PulseAudio, the file and the codec are outside     *)
(* src/ and appear as the requests, packets and errors the code meets.     *)
(***************************************************************************)
EXTENDS Integers, Sequences

CONSTANTS File,         \* its packets, each the byte numbers it decodes to
          FileBytes,    \* how many bytes that are
          MaxPacket,    \* the longest packet
          Capacity,     \* of the ring buffer, 256000 in the code
          Requests,     \* the numbers of bytes PulseAudio may ask for
          Faults        \* may the libraries and malloc report errors?

ASSUME FileAssumption ==
  /\ FileBytes \in Nat \ {0} /\ MaxPacket \in Nat
  /\ File \in Seq(Seq(0..(FileBytes - 1))) /\ File /= <<>>
  /\ \A i \in 1..Len(File) : Len(File[i]) <= MaxPacket
\* Packet i decodes to the bytes from start[i] on, before start[i + 1]; it
\* may be empty.
ASSUME NumberingAssumption ==
  \E start \in [1..(Len(File) + 1) -> 0..FileBytes] :
    /\ start[1] = 0 /\ start[Len(File) + 1] = FileBytes
    /\ \A i \in 1..Len(File) :
         /\ Len(File[i]) = start[i + 1] - start[i]
         /\ \A j \in 1..Len(File[i]) : File[i][j] = start[i] + j - 1
ASSUME BufferAssumption == Capacity \in Nat /\ Requests \subseteq Nat /\ Faults \in BOOLEAN

VARIABLES pc,       \* "idle", "fill", "decode", "write"
          nbytes,   \* the request being answered
          ring,     \* rest_buf
          tmp,      \* tmp_buf: the block it points to
          owner,    \* who may touch that block: "none", "player", "pulse"
          packet,   \* the next packet of the file
          decoder,  \* what the decoder was sent and has not given out
          failed,   \* result of the running sa_decode_transcode
          trouble,  \* history: what errors have been met, of Causes
          heard     \* history: the last byte given to PulseAudio, -1 if none

vars == <<pc, nbytes, ring, tmp, owner, packet, decoder, failed, trouble, heard>>

Causes == {"library",  \* malloc, the file or the codec
           "room"}     \* a frame did not fit into the ring buffer

Init ==
  /\ pc = "idle" /\ nbytes = 0
  /\ ring = <<>> /\ tmp = <<>> /\ owner = "none"
  /\ packet = 1 /\ decoder = <<>>
  /\ failed = FALSE /\ trouble = {}
  /\ heard = -1

\* PulseAudio calls write_data_to_stream.
Request(n) ==
  /\ pc = "idle"
  /\ pc' = "fill" /\ nbytes' = n /\ failed' = FALSE
  /\ UNCHANGED <<ring, tmp, owner, packet, decoder, trouble, heard>>

\* Every error path: err_str is set, 1 is returned, nobody looks at either.
Fails(why) ==
  /\ pc' = "write" /\ failed' = TRUE /\ trouble' = trouble \cup {why}

\* More than nbytes are there: a fresh block takes the first nbytes.
\* Bug: the block is not filled from the front of what is left.
BugFillBlock ==
  /\ pc = "fill" /\ Len(ring) > nbytes
  /\ tmp' = SubSeq(ring, 1, nbytes)
  /\ ring' = SubSeq(ring, nbytes + 2, Len(ring))
  /\ owner' = "player" /\ pc' = "write"
  /\ UNCHANGED <<nbytes, packet, decoder, failed, trouble, heard>>
FillBlock ==
  /\ pc = "fill" /\ Len(ring) > nbytes
  /\ tmp' = SubSeq(ring, 1, nbytes)
  /\ ring' = SubSeq(ring, nbytes + 1, Len(ring))
  /\ owner' = "player" /\ pc' = "write"
  /\ UNCHANGED <<nbytes, packet, decoder, failed, trouble, heard>>

\* malloc fails: tmp_buf is NULL.
FillBlockFails ==
  /\ Faults
  /\ pc = "fill" /\ Len(ring) > nbytes
  /\ tmp' = <<>> /\ owner' = "none"
  /\ Fails("library")
  /\ UNCHANGED <<nbytes, ring, packet, decoder, heard>>

\* What an error left in the decoder may make it refuse the next packet;
\* it takes one behind that, never two.
Accepts == Len(decoder) <= MaxPacket

\* av_read_frame and avcodec_send_packet.
ReadPacket ==
  /\ pc = "fill" /\ Len(ring) <= nbytes
  /\ packet <= Len(File) /\ Accepts
  /\ decoder' = decoder \o File[packet]
  /\ packet' = packet + 1
  /\ pc' = "decode"
  /\ UNCHANGED <<nbytes, ring, tmp, owner, failed, trouble, heard>>

\* The end of the file, and any error, is answered by avformat_seek_file to
\* its start and a second av_read_frame.
\* Bug: it goes on reading where it stands.
BugRewind ==
  /\ pc = "fill" /\ Len(ring) <= nbytes
  /\ packet > Len(File) \/ Faults
  /\ Accepts
  /\ pc' = "decode"
  /\ UNCHANGED <<nbytes, ring, tmp, owner, packet, decoder, failed, trouble, heard>>
Rewind ==
  /\ pc = "fill" /\ Len(ring) <= nbytes
  /\ packet > Len(File) \/ Faults
  /\ Accepts
  /\ decoder' = decoder \o File[1]
  /\ packet' = 2
  /\ pc' = "decode"
  /\ trouble' = IF packet <= Len(File) THEN trouble \cup {"library"} ELSE trouble
  /\ UNCHANGED <<nbytes, ring, tmp, owner, failed, heard>>

\* Seeking, reading after it or sending fails; a packet may be lost.  Without
\* an error of a library this takes a decoder that a lost frame left full.
ReadPacketFails ==
  /\ Faults \/ decoder /= <<>>
  /\ pc = "fill" /\ Len(ring) <= nbytes
  /\ packet' \in {packet, packet + 1, 1, 2} \cap 1..(Len(File) + 1)
  /\ Fails(IF Faults THEN "library" ELSE "room")
  /\ UNCHANGED <<nbytes, ring, tmp, owner, decoder, heard>>

\* ringbuf_bytes_free.
\* Bug: the slot that tells full from empty is taken off once more.
BugRoom == Capacity - Len(ring) - 1
Room == Capacity - Len(ring)

\* avcodec_receive_frame and the encoder: the next k bytes go into the ring.
ReceiveFrame(k) ==
  /\ pc = "decode" /\ k <= Room
  /\ ring' = ring \o SubSeq(decoder, 1, k)
  /\ decoder' = SubSeq(decoder, k + 1, Len(decoder))
  /\ UNCHANGED <<pc, nbytes, tmp, owner, packet, failed, trouble, heard>>

\* "Ring buffer to small. Packet does not fit", or the codec reports an
\* error: the frame is gone, what follows it stays in the decoder.
FrameLost(k) ==
  /\ pc = "decode" /\ (k > Room \/ Faults)
  /\ decoder' = SubSeq(decoder, k + 1, Len(decoder))
  /\ Fails(IF k > Room THEN "room" ELSE "library")
  /\ UNCHANGED <<nbytes, ring, tmp, owner, packet, heard>>

\* AVERROR(EAGAIN): the decoder wants the next packet.
DecoderDry ==
  /\ pc = "decode" /\ decoder = <<>>
  /\ pc' = "fill"
  /\ UNCHANGED <<nbytes, ring, tmp, owner, packet, decoder, failed, trouble, heard>>

\* pa_stream_write with free as the callback: from now on the block is
\* PulseAudio's, and tmp_buf still points to it.  The result of
\* sa_decode_transcode is not looked at.
WriteToStream ==
  /\ pc = "write"
  /\ pc' = "idle" /\ nbytes' = 0
  /\ owner' = "pulse"
  /\ heard' = IF tmp = <<>> THEN heard ELSE tmp[Len(tmp)]
  /\ UNCHANGED <<ring, tmp, packet, decoder, failed, trouble>>

Frames == 1..Len(decoder)
Decoding ==
  \/ FillBlock \/ FillBlockFails \/ ReadPacket \/ Rewind \/ ReadPacketFails
  \/ \E k \in Frames : ReceiveFrame(k) \/ FrameLost(k)
  \/ DecoderDry

Next == (\E n \in Requests : Request(n)) \/ Decoding \/ WriteToStream

\* The callback runs to its end; the libraries return.
Spec == Init /\ [][Next]_vars /\ WF_vars(Decoding) /\ WF_vars(WriteToStream)
-----------------------------------------------------------------------------
TypeOK ==
  /\ pc \in {"idle", "fill", "decode", "write"}
  /\ nbytes \in Nat
  /\ ring \in Seq(0..(FileBytes - 1)) /\ Len(ring) <= Capacity
  /\ tmp \in Seq(0..(FileBytes - 1))
  /\ decoder \in Seq(0..(FileBytes - 1))
  /\ owner \in {"none", "player", "pulse"}
  /\ packet \in 1..(Len(File) + 1)
  /\ failed \in BOOLEAN /\ trouble \subseteq Causes
  /\ heard \in -1..(FileBytes - 1)

\* What is given to PulseAudio is a block nobody else has, filled for this
\* very request (sound.c:52-54 after audio_transcode.c:186-197), until a
\* library reports an error: the ring buffer is large enough.
AnswerIsFresh ==
  pc = "write" /\ "library" \notin trouble => /\ owner = "player" /\ ~failed
                                             /\ Len(tmp) = nbytes

\* The sound has no gap and nothing is heard twice, also where the file
\* starts over, unless an error was recorded: the last byte heard, the block
\* on its way, the ring buffer and the decoder follow one another.
OnItsWay == IF pc = "write" /\ owner = "player" THEN tmp ELSE <<>>
Gapless ==
  LET sound == <<heard>> \o OnItsWay \o ring \o decoder
  IN  trouble = {} => \A i \in 1..(Len(sound) - 1) : sound[i + 1] = (sound[i] + 1) % FileBytes

\* Every request of PulseAudio is answered, however short the file is.
Answered == pc = "fill" ~> pc = "idle"

\* The room the code needs: what a request may leave behind unanswered and
\* one packet more.
Roomy == \A n \in Requests : n + MaxPacket <= Capacity
=============================================================================
