-------------------------- MODULE ControlWireProofs --------------------------
(***************************************************************************)
(* What holds on the socket for any number of clients and any command      *)
(* lines: the packets of a client that were obeyed, and after them those   *)
(* that wait, are the ones it has sent, in order; a client is accepted     *)
(* once, and only when the last packet of the one before was obeyed.       *)
(***************************************************************************)
EXTENDS ControlWire, SequenceTheorems, TLAPS

-----------------------------------------------------------------------------
(* The packets of a command line *)

Body(l) ==
  When(Has(l, "k"), Packet("kill", 0))
  \o When(Count(l) = 2, Packet("time", <<Hour(l), Minute(l)>>))
  \o <<Packet(IF Activates(l) THEN "activate" ELSE "deactivate", 0)>>
  \o When(Has(l, "r"), Packet("disarm", 0))
  \o When(Has(l, "f"), Packet("file", FileName(l)))

Cmds == {"kill", "time", "activate", "deactivate", "disarm", "file", "eof"}

\* What a packet says of the command line.
Meant(l) ==
  {p \in [cmd : Cmds, arg : {0, <<Hour(l), Minute(l)>>, FileName(l)}] :
     /\ p.cmd = "kill" => Has(l, "k")
     /\ p.cmd = "time" => Count(l) = 2 /\ p.arg = <<Hour(l), Minute(l)>>
     /\ p.cmd = "file" => Has(l, "f") /\ p.arg = FileName(l)}

LEMMA WhenType ==
  ASSUME NEW S, NEW condition, NEW packet, condition => packet \in S
  PROVE  When(condition, packet) \in Seq(S)
BY DEF When

LEMMA BodyType ==
  ASSUME NEW l
  PROVE  Body(l) \in Seq({p \in Meant(l) : p.cmd /= "eof"})
<1> DEFINE S == {p \in Meant(l) : p.cmd /= "eof"}
<1>1. When(Has(l, "k"), Packet("kill", 0)) \in Seq(S)
  <2>1. Has(l, "k") => Packet("kill", 0) \in S
    BY DEF Meant, Packet, Cmds
  <2> QED
    BY <2>1, WhenType
<1>2. When(Count(l) = 2, Packet("time", <<Hour(l), Minute(l)>>)) \in Seq(S)
  <2>1. Count(l) = 2 => Packet("time", <<Hour(l), Minute(l)>>) \in S
    BY DEF Meant, Packet, Cmds
  <2> QED
    BY <2>1, WhenType
<1>3. <<Packet(IF Activates(l) THEN "activate" ELSE "deactivate", 0)>> \in Seq(S)
  <2>1. Packet(IF Activates(l) THEN "activate" ELSE "deactivate", 0) \in S
    BY DEF Meant, Packet, Cmds
  <2> QED
    BY <2>1
<1>4. When(Has(l, "r"), Packet("disarm", 0)) \in Seq(S)
  <2>1. Packet("disarm", 0) \in S
    BY DEF Meant, Packet, Cmds
  <2> QED
    BY <2>1, WhenType
<1>5. When(Has(l, "f"), Packet("file", FileName(l))) \in Seq(S)
  <2>1. Has(l, "f") => Packet("file", FileName(l)) \in S
    BY DEF Meant, Packet, Cmds
  <2> QED
    BY <2>1, WhenType
<1> HIDE DEF S
<1>6. Body(l) \in Seq(S)
  BY <1>1, <1>2, <1>3, <1>4, <1>5, ConcatProperties DEF Body
<1> QED
  BY <1>6 DEF S

\* The end of the packets is the last one, and no other.
LEMMA PacketsType ==
  ASSUME NEW l
  PROVE  /\ Packets(l) \in Seq(Meant(l))
         /\ Len(Packets(l)) \in Nat \ {0}
         /\ \A i \in 1..Len(Packets(l)) :
              Packets(l)[i].cmd = "eof" <=> i = Len(Packets(l))
<1> DEFINE S == {p \in Meant(l) : p.cmd /= "eof"}
           eof == Packet("eof", 0)
<1>1. Packets(l) = Body(l) \o <<eof>>
  BY DEF Packets, Body
<1>2. eof \in Meant(l) /\ eof.cmd = "eof"
  BY DEF Packet, Meant, Cmds
<1>3. Body(l) \in Seq(S) /\ S \subseteq Meant(l) /\ \A p \in S : p.cmd /= "eof"
  BY BodyType
<1> HIDE DEF S, eof
<1>4. Packets(l) = Append(Body(l), eof)
  BY <1>1, <1>2, <1>3
<1>5. Body(l) \in Seq(Meant(l))
  BY <1>3
<1>6. \A i \in 1..Len(Body(l)) : Body(l)[i].cmd /= "eof"
  BY <1>3
<1> QED
  BY <1>2, <1>4, <1>5, <1>6

LEMMA ConcatKeeps ==
  ASSUME NEW S, NEW s \in Seq(S), NEW t \in Seq(S), NEW n \in 0..Len(s)
  PROVE  /\ s \o t \in Seq(S) /\ n \in 0..Len(s \o t)
         /\ \A i \in 1..n : (s \o t)[i] = s[i]
<1>1. n \in Nat /\ Len(s) \in Nat /\ Len(t) \in Nat /\ n <= Len(s)
  BY LenProperties
<1> QED
  BY <1>1, ConcatProperties

\* The time goes before the activation.
LEMMA TimeComesFirst ==
  ASSUME NEW l, Count(l) = 2, NEW i \in 1..Len(Packets(l)), Packets(l)[i].cmd = "activate"
  PROVE  \E j \in 1..(i - 1) : Packets(l)[j].cmd = "time"
<1> DEFINE K == When(Has(l, "k"), Packet("kill", 0))
           T == Packet("time", <<Hour(l), Minute(l)>>)
           A == Packet(IF Activates(l) THEN "activate" ELSE "deactivate", 0)
           R == When(Has(l, "r"), Packet("disarm", 0))
           F == When(Has(l, "f"), Packet("file", FileName(l)))
           E == Packet("eof", 0)
           S == [cmd : Cmds, arg : {0, <<Hour(l), Minute(l)>>, FileName(l)}]
           n == Len(K) + 1
<1>1. /\ K \in Seq(S) /\ R \in Seq(S) /\ F \in Seq(S)
      /\ T \in S /\ A \in S /\ E \in S
  BY WhenType DEF Packet, Cmds
<1>2. T.cmd = "time" /\ Len(K) \in Nat /\ \A j \in 1..Len(K) : K[j].cmd = "kill"
  BY DEF Packet, When
<1>3. Packets(l) = ((((K \o <<T>>) \o <<A>>) \o R) \o F) \o <<E>>
  BY DEF Packets, When
<1> HIDE DEF K, T, A, R, F, E, S
<1>4. /\ K \o <<T>> \in Seq(S) /\ n \in 0..Len(K \o <<T>>)
      /\ (K \o <<T>>)[n] = T
      /\ \A j \in 1..Len(K) : (K \o <<T>>)[j] = K[j]
  BY <1>1, <1>2, ConcatProperties
<1> DEFINE p2 == K \o <<T>>
           p3 == p2 \o <<A>>
           p4 == p3 \o R
           p5 == p4 \o F
           p6 == p5 \o <<E>>
<1>5. <<A>> \in Seq(S) /\ <<E>> \in Seq(S)
  BY <1>1
<1>6. p2 \in Seq(S) /\ n \in 0..Len(p2)
  BY <1>4
<1> HIDE DEF p2
<1>7. p3 \in Seq(S) /\ n \in 0..Len(p3) /\ \A j \in 1..n : p3[j] = p2[j]
  BY <1>5, <1>6, ConcatKeeps
<1> HIDE DEF p3
<1>8. p4 \in Seq(S) /\ n \in 0..Len(p4) /\ \A j \in 1..n : p4[j] = p3[j]
  BY <1>1, <1>7, ConcatKeeps
<1> HIDE DEF p4
<1>9. p5 \in Seq(S) /\ n \in 0..Len(p5) /\ \A j \in 1..n : p5[j] = p4[j]
  BY <1>1, <1>8, ConcatKeeps
<1> HIDE DEF p5
<1>10. p6 \in Seq(S) /\ n \in 0..Len(p6) /\ \A j \in 1..n : p6[j] = p5[j]
  BY <1>5, <1>9, ConcatKeeps
<1> HIDE DEF p6
<1>11. Packets(l) = p6
  BY <1>3 DEF p2, p3, p4, p5, p6
<1>12. n \in Nat /\ n >= 1 /\ Len(K) = n - 1 /\ Len(Packets(l)) \in Nat
  BY <1>2, <1>10, <1>11, LenProperties
<1>13. Packets(l)[n] = T /\ \A j \in 1..(n - 1) : Packets(l)[j] = K[j]
  BY <1>4, <1>7, <1>8, <1>9, <1>10, <1>11, <1>12 DEF p2
<1> HIDE DEF n
<1>14. i > n
  BY <1>2, <1>12, <1>13
<1> QED
  BY <1>2, <1>12, <1>13, <1>14

-----------------------------------------------------------------------------
(* The invariant *)

\* The packets of s are those of t after the first n.
Follows(s, t, n) == \A i \in 1..Len(s) : s[i] = t[n + i]

\* What was obeyed and what waits is what was sent.
Flow ==
  \A c \in Clients :
    /\ obeyed[c] \in Seq(Meant(line[c])) /\ inbox[c] \in Seq(Meant(line[c]))
    /\ Len(obeyed[c]) + Len(inbox[c]) = sent[c]
    /\ Follows(obeyed[c], Packets(line[c]), 0)
    /\ Follows(inbox[c], Packets(line[c]), Len(obeyed[c]))

Accepted(c) == \E i \in 1..Len(serving) : serving[i] = c
Waiting(c) == \E i \in 1..Len(backlog) : backlog[i] = c

Functions ==
  /\ obeyed = [c \in Clients |-> obeyed[c]]
  /\ inbox = [c \in Clients |-> inbox[c]]
  /\ sent = [c \in Clients |-> sent[c]]

\* Every client is in one of the two lines, once, and behind which packets.
Queues ==
  /\ serving \in Seq(Clients) /\ backlog \in Seq(Clients)
  /\ \A i, j \in 1..Len(serving) : serving[i] = serving[j] => i = j
  /\ \A i, j \in 1..Len(backlog) : backlog[i] = backlog[j] => i = j
  /\ \A c \in Clients : Accepted(c) => ~Waiting(c)
  /\ daemon /= "accept" => serving /= <<>>

Standing ==
  \A c \in Clients :
    /\ Accepted(c) \/ Waiting(c) => pc[c] \in {"send", "sent", "exited"}
    /\ Accepted(c) \/ Waiting(c) \/ pc[c] \in {"connect", "send"} => ~Rejected(line[c])
    /\ pc[c] \in {"parse", "connect"} => sent[c] = 0
    /\ pc[c] = "send" => sent[c] < Len(Packets(line[c]))
    /\ obeyed[c] /= <<>> => Accepted(c)

\* Nobody is accepted before the one before is obeyed.
Turns ==
  /\ \A i \in 1..(Len(serving) - 1) : Whole(serving[i])
  /\ daemon = "accept" => \A i \in 1..Len(serving) : Whole(serving[i])

\* The time is that of the client, once it has set it.
OwnTime ==
  daemon = "recv" =>
    \A i \in 1..Len(obeyed[Served]) :
      obeyed[Served][i].cmd = "time" => tm = obeyed[Served][i].arg

IInv == TypeOK /\ Functions /\ Flow /\ Queues /\ Standing /\ Turns /\ OwnTime /\ EndsForAReason

-----------------------------------------------------------------------------
LEMMA InitInv == Init => IInv
<1> SUFFICES ASSUME Init PROVE IInv
  OBVIOUS
<1> USE DEF Init
<1>1. TypeOK
  <2>1. \A c \in Clients : sent[c] \in 0..Len(Packets(line[c]))
    <3>1. \A c \in Clients : sent[c] = 0 /\ Len(Packets(line[c])) \in Nat
      BY PacketsType
    <3>2. \A n \in Nat : 0 \in 0..n
      OBVIOUS
    <3> HIDE DEF Init
    <3> QED
      BY <3>1, <3>2
  <2>2. tm \in (0..MaxHour) \X (0..MaxMin)
    BY WireAssumption
  <2>3. act_flag \in BOOLEAN
    OBVIOUS
  <2>4. /\ line \in [Clients -> CommandLines]
        /\ pc \in [Clients -> {"parse", "connect", "send", "sent", "exited"}]
        /\ sent = [c \in Clients |-> 0] /\ \A c \in Clients : sent[c] = 0
        /\ daemon \in {"accept", "recv", "ended"} /\ fname \in DaemonFiles \cup {Garbage}
    OBVIOUS
  <2> HIDE DEF Init
  <2> QED
    BY <2>1, <2>2, <2>3, <2>4 DEF TypeOK
<1>2. Functions /\ Flow
  BY DEF Functions, Flow, Follows
<1>3. Len(serving) = 0 /\ Len(backlog) = 0 /\ serving \in Seq(Clients) /\ backlog \in Seq(Clients)
  BY EmptySeq
<1>4. Queues /\ Standing
  BY <1>3 DEF Queues, Standing, Accepted, Waiting
<1>5. Turns /\ OwnTime /\ EndsForAReason
  BY <1>3 DEF Turns, OwnTime, EndsForAReason
<1> QED
  BY <1>1, <1>2, <1>4, <1>5 DEF IInv

-----------------------------------------------------------------------------
(* The steps of a client *)

\* They leave the daemon alone.
LEMMA ClientKeeps ==
  ASSUME IInv, NEW c \in Clients, Parse(c) \/ Connect(c) \/ Send(c) \/ Interrupt(c)
  PROVE  /\ UNCHANGED <<line, serving, daemon, tm, act_flag, fname, obeyed>>
         /\ \A d \in Clients : pc[d] = "exited" => pc'[d] = "exited"
         /\ \A d \in Clients : d /= c => pc'[d] = pc[d]
         /\ pc' \in [Clients -> {"parse", "connect", "send", "sent", "exited"}]
         /\ Turns' /\ OwnTime' /\ EndsForAReason'
<1>1. UNCHANGED <<line, serving, daemon, tm, act_flag, fname, obeyed>>
  BY DEF Parse, Connect, Send, Interrupt, settings
<1>2. \E to \in {"connect", "send", "sent", "exited"} :
        pc' = [pc EXCEPT ![c] = to] \/ UNCHANGED pc
  BY DEF Parse, Connect, Send, Interrupt, IInv, TypeOK
<1>3. pc[c] \in {"parse", "connect", "send"}
  BY DEF Parse, Connect, Send, Interrupt
<1>4. /\ \A d \in Clients : pc[d] = "exited" => pc'[d] = "exited"
      /\ \A d \in Clients : d /= c => pc'[d] = pc[d]
      /\ pc' \in [Clients -> {"parse", "connect", "send", "sent", "exited"}]
  BY <1>2, <1>3 DEF IInv, TypeOK
<1>5. Turns' /\ OwnTime'
  BY <1>1 DEF IInv, Turns, Whole, OwnTime, Served
<1>6. EndsForAReason'
  BY <1>1, <1>4 DEF IInv, EndsForAReason, Served
<1> QED
  BY <1>1, <1>4, <1>5, <1>6

LEMMA ParseInv ==
  ASSUME IInv, NEW c \in Clients, Parse(c) \/ Interrupt(c)
  PROVE  IInv'
<1>0. /\ UNCHANGED <<line, serving, daemon, tm, act_flag, fname, obeyed>>
      /\ \A d \in Clients : pc[d] = "exited" => pc'[d] = "exited"
      /\ \A d \in Clients : d /= c => pc'[d] = pc[d]
      /\ pc' \in [Clients -> {"parse", "connect", "send", "sent", "exited"}]
      /\ Turns' /\ OwnTime' /\ EndsForAReason'
  BY ClientKeeps
<1>1. /\ UNCHANGED <<sent, inbox, backlog>>
      /\ \/ pc'[c] = "exited" /\ pc[c] \in {"parse", "connect", "send"}
         \/ pc[c] = "parse" /\ pc'[c] = "connect" /\ ~Rejected(line[c])
  BY DEF Parse, Interrupt, IInv, TypeOK
<1>2. TypeOK' /\ Functions' /\ Flow'
  BY <1>1, <1>0 DEF IInv, TypeOK, Functions, Flow
<1>4. Queues'
  BY <1>1, <1>0 DEF IInv, Queues, Accepted, Waiting
<1>3. Standing'
  BY <1>1, <1>0 DEF IInv, Standing, Accepted, Waiting
<1> QED
  BY <1>2, <1>3, <1>4, <1>0 DEF IInv

LEMMA ConnectInv ==
  ASSUME IInv, NEW c \in Clients, Connect(c)
  PROVE  IInv'
<1>0. /\ UNCHANGED <<line, serving, daemon, tm, act_flag, fname, obeyed>>
      /\ \A d \in Clients : pc[d] = "exited" => pc'[d] = "exited"
      /\ \A d \in Clients : d /= c => pc'[d] = pc[d]
      /\ pc' \in [Clients -> {"parse", "connect", "send", "sent", "exited"}]
      /\ Turns' /\ OwnTime' /\ EndsForAReason'
  BY ClientKeeps
<1> USE DEF IInv
<1>1. UNCHANGED <<sent, inbox>> /\ pc[c] = "connect"
  BY DEF Connect
<1>2. TypeOK' /\ Functions' /\ Flow'
  BY <1>1, <1>0 DEF TypeOK, Functions, Flow
<1>3. CASE daemon = "ended"
  <2>1. pc'[c] = "exited" /\ UNCHANGED backlog
    BY <1>3 DEF Connect, TypeOK
  <2>2. Queues' /\ Standing'
    BY <1>1, <2>1, <1>0 DEF Queues, Standing, Accepted, Waiting
  <2> QED
    BY <1>2, <2>2, <1>0
<1>4. CASE daemon /= "ended"
  <2>1. pc'[c] = "send" /\ backlog' = Append(backlog, c)
    BY <1>4 DEF Connect, TypeOK
  <2>2. ~Accepted(c) /\ ~Waiting(c) /\ backlog \in Seq(Clients) /\ Len(backlog) \in Nat
    BY <1>1, LenProperties DEF Queues, Standing
  <2>3. /\ backlog' \in Seq(Clients) /\ Len(backlog') = Len(backlog) + 1
        /\ \A i \in 1..Len(backlog) : backlog'[i] = backlog[i]
        /\ backlog'[Len(backlog) + 1] = c
    BY <2>1, <2>2, AppendProperties
  <2>4. \A d \in Clients : (Waiting(d)' <=> Waiting(d) \/ d = c) /\ (Accepted(d)' <=> Accepted(d))
    BY <2>2, <2>3, <1>0 DEF Waiting, Accepted
  <2>5. \A i, j \in 1..Len(backlog') : backlog'[i] = backlog'[j] => i = j
    BY <2>2, <2>3 DEF Queues, Waiting
  <2>6. Queues'
    BY <2>2, <2>3, <2>4, <2>5, <1>0 DEF Queues
  <2>7. sent[c] = 0 /\ Len(Packets(line[c])) > 0 /\ ~Rejected(line[c])
    BY <1>1, PacketsType DEF Standing
  <2>8. Standing'
    BY <1>1, <2>1, <2>4, <2>7, <1>0 DEF Standing
  <2> QED
    BY <1>2, <2>6, <2>8, <1>0
<1> QED
  BY <1>3, <1>4

\* One more packet of P is sent.
LEMMA PacketWaits ==
  ASSUME NEW S, NEW P \in Seq(S), NEW o \in Seq(S), NEW b \in Seq(S),
         Len(o) + Len(b) < Len(P), Follows(b, P, Len(o)),
         NEW e, e = P[Len(o) + Len(b) + 1]
  PROVE  /\ Append(b, e) \in Seq(S)
         /\ Len(o) + Len(Append(b, e)) = Len(o) + Len(b) + 1
         /\ Follows(Append(b, e), P, Len(o))
<1>1. Len(o) \in Nat /\ Len(b) \in Nat /\ Len(P) \in Nat
  BY LenProperties
<1>2. e \in S
  BY <1>1, ElementOfSeq
<1> QED
  BY <1>1, <1>2, AppendProperties DEF Follows

LEMMA SendInv ==
  ASSUME IInv, NEW c \in Clients, Send(c)
  PROVE  IInv'
<1>0. /\ UNCHANGED <<line, serving, daemon, tm, act_flag, fname, obeyed>>
      /\ \A d \in Clients : pc[d] = "exited" => pc'[d] = "exited"
      /\ \A d \in Clients : d /= c => pc'[d] = pc[d]
      /\ pc' \in [Clients -> {"parse", "connect", "send", "sent", "exited"}]
      /\ Turns' /\ OwnTime' /\ EndsForAReason'
  BY ClientKeeps
<1> USE DEF IInv
<1>1. UNCHANGED <<line, backlog, serving, daemon, obeyed>> /\ pc[c] = "send"
  BY DEF Send
<1>2. Queues'
  BY <1>1 DEF Queues, Accepted, Waiting
<1>3. CASE daemon = "ended"
  <2>1. pc'[c] = "exited" /\ UNCHANGED <<sent, inbox>>
    BY <1>3 DEF Send, TypeOK
  <2>2. TypeOK' /\ Functions' /\ Flow'
    BY <1>1, <2>1, <1>0 DEF TypeOK, Functions, Flow
  <2>3. Standing'
    BY <1>1, <2>1, <1>0 DEF Standing, Accepted, Waiting
  <2> QED
    BY <1>2, <2>2, <2>3, <1>0
<1>4. CASE daemon /= "ended"
  <2> DEFINE P == Packets(line[c])
             S == Meant(line[c])
             e == P[sent[c] + 1]
  <2>1. /\ inbox' = [inbox EXCEPT ![c] = Append(@, e)]
        /\ sent' = [sent EXCEPT ![c] = @ + 1]
        /\ sent'[c] = sent[c] + 1 /\ inbox'[c] = Append(inbox[c], e)
        /\ pc'[c] = IF sent[c] + 1 = Len(P) THEN "sent" ELSE "send"
    <3>1. /\ inbox' = [inbox EXCEPT ![c] = Append(@, e)]
          /\ sent' = [sent EXCEPT ![c] = @ + 1]
          /\ pc' = [pc EXCEPT ![c] = IF sent'[c] = Len(P) THEN "sent" ELSE @]
      BY <1>4 DEF Send
    <3>2. sent'[c] = sent[c] + 1 /\ inbox'[c] = Append(inbox[c], e)
      BY <3>1 DEF Functions
    <3> QED
      BY <1>1, <3>1, <3>2 DEF TypeOK
  <2>2. /\ P \in Seq(S) /\ sent[c] \in Nat /\ Len(P) \in Nat
        /\ sent[c] < Len(P) /\ ~Rejected(line[c])
    BY <1>1, PacketsType DEF TypeOK, Standing
  <2> HIDE DEF P, S, e
  <2>3. /\ obeyed[c] \in Seq(S) /\ inbox[c] \in Seq(S)
        /\ Len(obeyed[c]) + Len(inbox[c]) = sent[c]
        /\ Follows(inbox[c], P, Len(obeyed[c]))
    BY DEF Flow, P, S
  <2>4. e = P[Len(obeyed[c]) + Len(inbox[c]) + 1]
    BY <2>3 DEF e
  <2>5. /\ inbox'[c] \in Seq(S)
        /\ Len(obeyed[c]) + Len(inbox'[c]) = sent'[c]
        /\ Follows(inbox'[c], P, Len(obeyed[c]))
    <3>1. Len(obeyed[c]) + Len(inbox[c]) < Len(P)
      BY <2>2, <2>3
    <3>2. /\ Append(inbox[c], e) \in Seq(S)
          /\ Len(obeyed[c]) + Len(Append(inbox[c], e)) = Len(obeyed[c]) + Len(inbox[c]) + 1
          /\ Follows(Append(inbox[c], e), P, Len(obeyed[c]))
      <4> DEFINE o == obeyed[c]
                 b == inbox[c]
      <4>1. o \in Seq(S) /\ b \in Seq(S) /\ Len(o) + Len(b) < Len(P)
            /\ Follows(b, P, Len(o)) /\ e = P[Len(o) + Len(b) + 1]
        BY <2>3, <2>4, <3>1
      <4> HIDE DEF o, b
      <4>2. /\ Append(b, e) \in Seq(S)
            /\ Len(o) + Len(Append(b, e)) = Len(o) + Len(b) + 1
            /\ Follows(Append(b, e), P, Len(o))
        BY <2>2, <4>1, PacketWaits
      <4> QED
        BY <4>2 DEF o, b
    <3> QED
      BY <2>1, <2>3, <3>2
  <2>6. \A d \in Clients : d /= c => inbox'[d] = inbox[d] /\ sent'[d] = sent[d]
    BY <2>1 DEF Functions
  <2>7. Flow'
    <3> SUFFICES ASSUME NEW d \in Clients
                 PROVE  /\ obeyed'[d] \in Seq(Meant(line'[d])) /\ inbox'[d] \in Seq(Meant(line'[d]))
                        /\ Len(obeyed'[d]) + Len(inbox'[d]) = sent'[d]
                        /\ Follows(obeyed'[d], Packets(line'[d]), 0)
                        /\ Follows(inbox'[d], Packets(line'[d]), Len(obeyed'[d]))
      BY DEF Flow
    <3>1. CASE d = c
      BY <1>1, <2>3, <2>5, <3>1 DEF Flow, P, S
    <3>2. CASE d /= c
      BY <1>1, <2>6, <3>2 DEF Flow
    <3> QED
      BY <3>1, <3>2
  <2>8. Functions'
    BY <1>1, <2>1 DEF Functions
  <2>9. TypeOK'
    <3>1. \A d \in Clients : sent'[d] \in 0..Len(Packets(line'[d]))
      BY <1>1, <2>1, <2>2, <2>6 DEF TypeOK, P
    <3> QED
      BY <1>0, <3>1 DEF TypeOK
  <2>10. Standing'
    BY <1>0, <1>1, <2>1, <2>2, <2>6 DEF Standing, Accepted, Waiting, P
  <2> QED
    BY <1>0, <1>2, <2>7, <2>8, <2>9, <2>10
<1> QED
  BY <1>3, <1>4

-----------------------------------------------------------------------------
(* The steps of the daemon *)

LEMMA ServedIsLast ==
  ASSUME Queues, serving /= <<>>
  PROVE  /\ Served \in Clients /\ Accepted(Served) /\ Len(serving) \in 1..Len(serving)
         /\ \A i \in 1..(Len(serving) - 1) : serving[i] \in Clients /\ serving[i] /= Served
<1>1. Len(serving) \in Nat \ {0} /\ \A i \in 1..Len(serving) : serving[i] \in Clients
  BY EmptySeq, LenProperties, ElementOfSeq DEF Queues
<1> QED
  BY <1>1 DEF Queues, Served, Accepted

\* The first packet of b is obeyed.
LEMMA PacketObeyed ==
  ASSUME NEW S, NEW P \in Seq(S), NEW o \in Seq(S), NEW b \in Seq(S), b /= <<>>,
         Len(o) + Len(b) <= Len(P), Follows(o, P, 0), Follows(b, P, Len(o))
  PROVE  /\ Head(b) \in S /\ Len(o) + 1 \in 1..Len(P) /\ Head(b) = P[Len(o) + 1]
         /\ Append(o, Head(b)) \in Seq(S) /\ Tail(b) \in Seq(S)
         /\ Len(Append(o, Head(b))) = Len(o) + 1
         /\ Append(o, Head(b))[Len(o) + 1] = Head(b)
         /\ Len(Append(o, Head(b))) + Len(Tail(b)) = Len(o) + Len(b)
         /\ Follows(Append(o, Head(b)), P, 0)
         /\ Follows(Tail(b), P, Len(Append(o, Head(b))))
<1>1. Len(o) \in Nat /\ Len(b) \in Nat \ {0} /\ Len(P) \in Nat
  BY LenProperties, EmptySeq
<1>2. /\ Head(b) \in S /\ Head(b) = b[1] /\ Tail(b) \in Seq(S) /\ Len(Tail(b)) = Len(b) - 1
      /\ \A i \in 1..Len(Tail(b)) : Tail(b)[i] = b[i + 1]
  BY <1>1, HeadTailProperties
<1>3. Head(b) = P[Len(o) + 1] /\ Len(o) + 1 \in 1..Len(P)
  BY <1>1, <1>2 DEF Follows
<1>4. /\ Append(o, Head(b)) \in Seq(S) /\ Len(Append(o, Head(b))) = Len(o) + 1
      /\ \A i \in 1..Len(o) : Append(o, Head(b))[i] = o[i]
      /\ Append(o, Head(b))[Len(o) + 1] = Head(b)
  BY <1>2, AppendProperties
<1>5. Follows(Append(o, Head(b)), P, 0)
  BY <1>1, <1>3, <1>4 DEF Follows
<1>6. Follows(Tail(b), P, Len(o) + 1)
  <2> SUFFICES ASSUME NEW i \in 1..Len(Tail(b)) PROVE Tail(b)[i] = P[Len(o) + 1 + i]
    BY DEF Follows
  <2>1. Tail(b)[i] = b[i + 1] /\ i + 1 \in 1..Len(b) /\ Len(o) + (i + 1) = Len(o) + 1 + i
    BY <1>1, <1>2
  <2> QED
    BY <2>1 DEF Follows
<1> QED
  BY <1>1, <1>2, <1>3, <1>4, <1>5, <1>6

\* What happens to the one that is served.
LEMMA ObeyFlow ==
  ASSUME IInv, NEW cmds, Obey(cmds)
  PROVE  /\ UNCHANGED <<line, pc, sent, backlog, serving>> /\ Served \in Clients
         /\ Received \in Meant(line[Served]) /\ Received.cmd \in cmds
         /\ Len(obeyed[Served]) + 1 \in 1..Len(Packets(line[Served]))
         /\ Received = Packets(line[Served])[Len(obeyed[Served]) + 1]
         /\ Len(obeyed'[Served]) = Len(obeyed[Served]) + 1
         /\ obeyed'[Served][Len(obeyed[Served]) + 1] = Received
         /\ obeyed'[Served] \in Seq(Meant(line[Served]))
         /\ Follows(obeyed'[Served], Packets(line[Served]), 0)
         /\ \A d \in Clients : d /= Served => obeyed'[d] = obeyed[d]
         /\ Functions' /\ Flow' /\ Standing'
<1> USE DEF IInv
<1>1. /\ daemon = "recv" /\ inbox[Served] /= <<>> /\ Received.cmd \in cmds
      /\ inbox' = [inbox EXCEPT ![Served] = Tail(@)]
      /\ obeyed' = [obeyed EXCEPT ![Served] = Append(@, Received)]
      /\ UNCHANGED <<line, pc, sent, backlog, serving>>
  BY DEF Obey, client
<1>2. Served \in Clients /\ Accepted(Served)
  BY <1>1, ServedIsLast DEF Queues
<1> DEFINE c == Served
           S == Meant(line[c])
           P == Packets(line[c])
           o == obeyed[c]
           b == inbox[c]
<1>3. P \in Seq(S) /\ Len(P) \in Nat
  BY PacketsType
<1>4. /\ o \in Seq(S) /\ b \in Seq(S) /\ b /= <<>> /\ Len(o) + Len(b) = sent[c]
      /\ Follows(o, P, 0) /\ Follows(b, P, Len(o)) /\ Received = Head(b)
  BY <1>1, <1>2 DEF Flow, Received
<1>5. Len(o) + Len(b) <= Len(P)
  <2>1. sent[c] \in 0..Len(P)
    BY <1>2 DEF TypeOK
  <2> HIDE DEF c, P, o, b
  <2> QED
    BY <1>3, <1>4, <2>1
<1>6. /\ inbox'[c] = Tail(b) /\ obeyed'[c] = Append(o, Head(b))
      /\ \A d \in Clients : d /= c => inbox'[d] = inbox[d] /\ obeyed'[d] = obeyed[d]
      /\ Functions'
  BY <1>1, <1>2, <1>4 DEF Functions
<1> HIDE DEF c, S, P, o, b
<1>7. /\ Head(b) \in S /\ Len(o) + 1 \in 1..Len(P) /\ Head(b) = P[Len(o) + 1]
      /\ Append(o, Head(b)) \in Seq(S) /\ Tail(b) \in Seq(S)
      /\ Len(Append(o, Head(b))) = Len(o) + 1
      /\ Append(o, Head(b))[Len(o) + 1] = Head(b)
      /\ Len(Append(o, Head(b))) + Len(Tail(b)) = Len(o) + Len(b)
      /\ Follows(Append(o, Head(b)), P, 0)
      /\ Follows(Tail(b), P, Len(Append(o, Head(b))))
  BY <1>3, <1>4, <1>5, PacketObeyed
<1>8. Flow'
  <2> SUFFICES ASSUME NEW d \in Clients
               PROVE  /\ obeyed'[d] \in Seq(Meant(line'[d])) /\ inbox'[d] \in Seq(Meant(line'[d]))
                      /\ Len(obeyed'[d]) + Len(inbox'[d]) = sent'[d]
                      /\ Follows(obeyed'[d], Packets(line'[d]), 0)
                      /\ Follows(inbox'[d], Packets(line'[d]), Len(obeyed'[d]))
    BY DEF Flow
  <2>1. CASE d = c
    BY <1>1, <1>4, <1>6, <1>7, <2>1 DEF S, P
  <2>2. CASE d /= c
    BY <1>1, <1>6, <2>2 DEF Flow
  <2> QED
    BY <2>1, <2>2
<1>9. Standing'
  BY <1>1, <1>2, <1>6 DEF Standing, Accepted, Waiting, c
<1> QED
  BY <1>1, <1>2, <1>4, <1>6, <1>7, <1>8, <1>9 DEF c, S, P, o

\* A command that leaves the connection open.
LEMMA GoesOn ==
  ASSUME IInv, NEW cmds, Obey(cmds), daemon' = daemon
  PROVE  Queues' /\ Turns' /\ EndsForAReason'
<1> USE DEF IInv
<1>1. /\ UNCHANGED <<line, pc, sent, backlog, serving, daemon>> /\ daemon = "recv"
      /\ \A d \in Clients : d /= Served => obeyed'[d] = obeyed[d]
  BY ObeyFlow DEF Obey
<1>2. \A i \in 1..(Len(serving) - 1) : serving[i] \in Clients /\ serving[i] /= Served
  BY <1>1, ServedIsLast DEF Queues
<1>3. Queues' /\ EndsForAReason'
  BY <1>1 DEF Queues, Accepted, Waiting, EndsForAReason
<1>4. Turns'
  BY <1>1, <1>2 DEF Turns, Whole
<1> QED
  BY <1>3, <1>4

\* A command that is not the time leaves it alone.
LEMMA TimeKept ==
  ASSUME IInv, NEW cmds, Obey(cmds), "time" \notin cmds, UNCHANGED tm
  PROVE  OwnTime'
<1> DEFINE n == Len(obeyed[Served])
<1>1. /\ daemon = "recv" /\ Served' = Served /\ Len(obeyed'[Served]) = n + 1
      /\ obeyed'[Served][n + 1].cmd /= "time"
  BY ObeyFlow DEF Obey, Served
<1>2. n \in Nat /\ \A i \in 1..n : obeyed'[Served][i] = obeyed[Served][i]
  <2>1. /\ Follows(obeyed'[Served], Packets(line[Served]), 0) /\ Served \in Clients
        /\ Follows(obeyed[Served], Packets(line[Served]), 0) /\ n \in Nat
    BY ObeyFlow, LenProperties DEF IInv, Flow
  <2> QED
    BY <1>1, <2>1 DEF Follows
<1>3. \A i \in 1..n : obeyed[Served][i].cmd = "time" => tm = obeyed[Served][i].arg
  BY <1>1 DEF IInv, OwnTime
<1>4. \A i \in 1..(n + 1) : obeyed'[Served][i].cmd = "time" => tm' = obeyed'[Served][i].arg
  BY <1>1, <1>2, <1>3
<1> QED
  BY <1>1, <1>4 DEF OwnTime

LEMMA SetTimeInv == ASSUME IInv, SetTime PROVE IInv'
<1> DEFINE T == <<Hour(line[Served]), Minute(line[Served])>>
<1>1. /\ Obey({"time"}) /\ TimeIsValid /\ tm' = Received.arg
      /\ UNCHANGED <<daemon, act_flag, fname>>
  BY DEF SetTime
<1>2. Functions' /\ Flow' /\ Standing' /\ Queues' /\ Turns' /\ EndsForAReason'
  BY <1>1, ObeyFlow, GoesOn
<1>3. Received \in Meant(line[Served]) /\ Received.cmd = "time"
  BY <1>1, ObeyFlow
<1>4. Received.arg = T
  BY <1>3 DEF Meant
<1>5. T \in (0..MaxHour) \X (0..MaxMin)
  BY <1>1, <1>4 DEF TimeIsValid
<1>6. TypeOK'
  <2>1. UNCHANGED <<line, pc, sent>>
    BY <1>1, ObeyFlow
  <2> QED
    BY <1>1, <1>4, <1>5, <2>1 DEF IInv, TypeOK
<1>7. OwnTime'
  <2>1. Served' = Served /\ Served \in Clients /\ obeyed'[Served] \in Seq(Meant(line[Served]))
    BY <1>1, ObeyFlow DEF Served
  <2>2. \A i \in 1..Len(obeyed'[Served]) : obeyed'[Served][i] \in Meant(line[Served])
    BY <2>1, ElementOfSeq
  <2>3. \A i \in 1..Len(obeyed'[Served]) :
          obeyed'[Served][i].cmd = "time" => tm' = obeyed'[Served][i].arg
    BY <1>1, <1>4, <2>2 DEF Meant
  <2> QED
    BY <2>1, <2>3 DEF OwnTime
<1> QED
  BY <1>2, <1>6, <1>7 DEF IInv

LEMMA OtherCommandInv == ASSUME IInv, SetActive \/ SetFile \/ Disarm PROVE IInv'
<1>1. PICK cmds \in {{"activate", "deactivate"}, {"file"}, {"disarm"}} : Obey(cmds)
  BY DEF SetActive, SetFile, Disarm
<1>2. UNCHANGED <<daemon, tm>>
  BY DEF SetActive, SetFile, Disarm, settings
<1>3. act_flag' \in BOOLEAN /\ fname' \in DaemonFiles \cup {Garbage}
  <2>1. act_flag \in BOOLEAN /\ fname \in DaemonFiles \cup {Garbage}
    BY DEF IInv, TypeOK
  <2> QED
    BY <2>1 DEF SetActive, SetFile, Disarm, settings
<1>4. UNCHANGED <<line, pc, sent>> /\ Functions' /\ Flow' /\ Standing'
  BY <1>1, ObeyFlow
<1>5. TypeOK'
  BY <1>2, <1>3, <1>4 DEF IInv, TypeOK
<1>6. OwnTime' /\ Queues' /\ Turns' /\ EndsForAReason'
  BY <1>1, <1>2, TimeKept, GoesOn
<1> QED
  BY <1>4, <1>5, <1>6 DEF IInv

LEMMA EndOfPacketsInv == ASSUME IInv, EndOfPackets PROVE IInv'
<1> DEFINE P == Packets(line[Served])
<1>1. Obey({"eof"}) /\ daemon' = "accept" /\ UNCHANGED <<tm, act_flag, fname>> /\ daemon = "recv"
  BY DEF EndOfPackets, settings, Obey
<1>2. /\ UNCHANGED <<line, pc, sent, backlog, serving>>
      /\ Functions' /\ Flow' /\ Standing' /\ Served \in Clients
      /\ \A d \in Clients : d /= Served => obeyed'[d] = obeyed[d]
  BY <1>1, ObeyFlow
<1>3. TypeOK'
  BY <1>1, <1>2 DEF IInv, TypeOK
<1>4. Queues' /\ OwnTime' /\ EndsForAReason'
  BY <1>1, <1>2 DEF IInv, Queues, Accepted, Waiting, OwnTime, EndsForAReason
<1>5. Whole(Served)'
  \* It was the last packet.
  <2>1. /\ Received.cmd = "eof" /\ Len(obeyed[Served]) + 1 \in 1..Len(P)
        /\ Received = P[Len(obeyed[Served]) + 1]
        /\ Len(obeyed'[Served]) = Len(obeyed[Served]) + 1
        /\ obeyed'[Served] \in Seq(Meant(line[Served]))
        /\ Follows(obeyed'[Served], P, 0)
    BY <1>1, ObeyFlow
  <2>2. P \in Seq(Meant(line[Served])) /\ Len(obeyed[Served]) + 1 = Len(P)
    BY <2>1, PacketsType
  <2>3. \A i \in 1..Len(P) : obeyed'[Served][i] = P[i]
    BY <2>1, <2>2 DEF Follows
  <2>4. obeyed'[Served] = P
    <3> HIDE DEF P
    <3> QED
      BY <2>1, <2>2, <2>3, SeqEqual
  <2>5. Served' = Served /\ line' = line
    BY <1>2 DEF Served
  <2> QED
    BY <2>4, <2>5 DEF Whole
<1>6. Turns'
  <2>1. /\ serving /= <<>> /\ Len(serving) \in Nat
        /\ \A i \in 1..(Len(serving) - 1) : serving[i] \in Clients /\ serving[i] /= Served
    BY <1>1, ServedIsLast, LenProperties DEF IInv, Queues
  <2>2. \A i \in 1..(Len(serving) - 1) : Whole(serving[i])'
    BY <1>2, <2>1 DEF IInv, Turns, Whole
  <2>3. Whole(serving[Len(serving)])'
    BY <1>2, <1>5 DEF Served, Whole
  <2>4. \A i \in 1..Len(serving) : i \in 1..(Len(serving) - 1) \/ i = Len(serving)
    BY <2>1
  <2> QED
    BY <1>2, <2>2, <2>3, <2>4 DEF Turns, Whole
<1> QED
  BY <1>2, <1>3, <1>4, <1>6 DEF IInv

LEMMA AcceptInv == ASSUME IInv, Accept PROVE IInv'
<1> USE DEF IInv
<1> DEFINE c == Head(backlog)
           n == Len(serving)
<1>1. /\ daemon = "accept" /\ backlog /= <<>> /\ daemon' = "recv"
      /\ serving' = Append(serving, c) /\ backlog' = Tail(backlog)
      /\ UNCHANGED <<line, pc, sent, inbox, tm, act_flag, fname, obeyed>>
  BY DEF Accept, client, settings
<1>2. /\ serving \in Seq(Clients) /\ backlog \in Seq(Clients) /\ n \in Nat
      /\ Len(backlog) \in Nat \ {0}
  BY <1>1, LenProperties, EmptySeq DEF Queues
<1>3. /\ c \in Clients /\ c = backlog[1] /\ backlog' \in Seq(Clients)
      /\ Len(backlog') = Len(backlog) - 1
      /\ \A i \in 1..Len(backlog') : backlog'[i] = backlog[i + 1]
  BY <1>1, <1>2, HeadTailProperties
<1>4. /\ serving' \in Seq(Clients) /\ serving' /= <<>> /\ Len(serving') = n + 1
      /\ \A i \in 1..n : serving'[i] = serving[i]
      /\ serving'[n + 1] = c
  BY <1>1, <1>2, <1>3, AppendProperties
<1>5. Waiting(c) /\ ~Accepted(c) /\ obeyed[c] = <<>>
  <2>1. Waiting(c)
    BY <1>2, <1>3 DEF Waiting
  <2> HIDE DEF c
  <2> QED
    BY <1>3, <2>1 DEF Queues, Standing
<1> HIDE DEF c, n
<1>6. \A d \in Clients : Accepted(d)' <=> Accepted(d) \/ d = c
  BY <1>2, <1>4 DEF Accepted, n
<1>7. \A d \in Clients : Waiting(d)' <=> Waiting(d) /\ d /= c
  <2>1. \A d \in Clients : Waiting(d)' => Waiting(d) /\ d /= c
    <3> SUFFICES ASSUME NEW d \in Clients, Waiting(d)' PROVE Waiting(d) /\ d /= c
      OBVIOUS
    <3>1. PICK i \in 1..Len(backlog') : backlog'[i] = d
      BY DEF Waiting
    <3>2. i + 1 \in 1..Len(backlog) /\ backlog[i + 1] = d /\ 1 \in 1..Len(backlog) /\ i + 1 /= 1
      BY <1>2, <1>3, <3>1
    <3> QED
      BY <1>3, <3>2 DEF Waiting, Queues
  <2>2. \A d \in Clients : Waiting(d) /\ d /= c => Waiting(d)'
    <3> SUFFICES ASSUME NEW d \in Clients, Waiting(d), d /= c PROVE Waiting(d)'
      OBVIOUS
    <3>1. PICK i \in 1..Len(backlog) : backlog[i] = d
      BY DEF Waiting
    <3>2. i - 1 \in 1..Len(backlog') /\ backlog'[i - 1] = d
      BY <1>2, <1>3, <3>1
    <3> QED
      BY <3>2 DEF Waiting
  <2> QED
    BY <2>1, <2>2
<1>8. \A i, j \in 1..Len(serving') : serving'[i] = serving'[j] => i = j
  BY <1>2, <1>4, <1>5 DEF Queues, Accepted, n
<1>9. \A i, j \in 1..Len(backlog') : backlog'[i] = backlog'[j] => i = j
  BY <1>2, <1>3 DEF Queues
<1>10. Queues'
  BY <1>3, <1>4, <1>5, <1>6, <1>7, <1>8, <1>9 DEF Queues
<1>11. Standing'
  BY <1>1, <1>5, <1>6, <1>7 DEF Standing
<1>12. TypeOK' /\ Functions' /\ Flow'
  BY <1>1 DEF TypeOK, Functions, Flow
<1>13. Turns'
  BY <1>1, <1>2, <1>4 DEF Turns, Whole, n
<1>14. OwnTime' /\ EndsForAReason'
  BY <1>1, <1>2, <1>4, <1>5 DEF OwnTime, Served, EndsForAReason
<1> QED
  BY <1>10, <1>11, <1>12, <1>13, <1>14

LEMMA EndInv == ASSUME IInv, DecodeFails \/ Hangup PROVE IInv'
<1> USE DEF IInv
<1>1. /\ daemon = "recv" /\ daemon' = "ended"
      /\ UNCHANGED <<line, pc, sent, inbox, backlog, serving, tm, act_flag, fname, obeyed>>
  BY DEF DecodeFails, Hangup, client, settings
<1>2. TypeOK' /\ Functions' /\ Flow' /\ Queues' /\ Standing' /\ Turns' /\ OwnTime'
  BY <1>1 DEF TypeOK, Functions, Flow, Queues, Standing, Accepted, Waiting, Turns, Whole, OwnTime
<1>3. Served \in Clients /\ serving /= <<>> /\ ~Rejected(line[Served])
  BY <1>1, ServedIsLast DEF Queues, Standing
<1>4. \/ Has(line[Served], "k")
      \/ pc[Served] = "exited"
      \/ Has(line[Served], "f") /\ FileName(line[Served]) \notin DaemonFiles
  <2>1. CASE Hangup
    BY <2>1 DEF Hangup
  <2>2. CASE DecodeFails
    <3>1. Received \in Meant(line[Served])
      <4>1. inbox[Served] \in Seq(Meant(line[Served])) /\ inbox[Served] /= <<>>
        BY <1>3, <2>2 DEF DecodeFails, Flow
      <4> QED
        BY <4>1, HeadTailProperties DEF Received
    <3>2. CASE Received.cmd = "kill"
      BY <3>1, <3>2 DEF Meant
    <3>3. CASE Received.cmd = "file" /\ Received.arg \notin DaemonFiles
      BY <3>1, <3>3 DEF Meant
    <3>4. CASE Received.cmd = "time" /\ ~TimeIsValid
      \* parse_opt has rejected such a time.
      <4>1. Count(line[Served]) = 2 /\ Received.arg = <<Hour(line[Served]), Minute(line[Served])>>
        BY <3>1, <3>4 DEF Meant
      <4>2. Hour(line[Served]) \in 0..MaxHour /\ Minute(line[Served]) \in 0..MaxMin
        BY <1>3, <4>1 DEF Rejected
      <4> QED
        BY <3>4, <4>1, <4>2 DEF TimeIsValid
    <3> QED
      BY <2>2, <3>2, <3>3, <3>4 DEF DecodeFails
  <2> QED
    BY <2>1, <2>2
<1>5. EndsForAReason'
  BY <1>1, <1>3, <1>4 DEF EndsForAReason, Served
<1> QED
  BY <1>2, <1>5

LEMMA NextInv == IInv /\ [Next]_vars => IInv'
<1> SUFFICES ASSUME IInv, [Next]_vars PROVE IInv'
  OBVIOUS
<1>1. ASSUME NEW c \in Clients, Parse(c) \/ Connect(c) \/ Send(c) \/ Interrupt(c)
      PROVE  IInv'
  BY <1>1, ParseInv, ConnectInv, SendInv
<1>2. CASE UNCHANGED vars
  <2> USE <1>2 DEF vars, IInv
  <2>1. TypeOK' /\ Functions' /\ Flow'
    BY DEF TypeOK, Functions, Flow
  <2>2. Queues' /\ Standing'
    BY DEF Queues, Standing, Accepted, Waiting
  <2>3. Turns' /\ OwnTime' /\ EndsForAReason'
    BY DEF Turns, Whole, OwnTime, EndsForAReason, Served
  <2> QED
    BY <2>1, <2>2, <2>3
<1> QED
  BY <1>1, <1>2, AcceptInv, SetTimeInv, OtherCommandInv, EndOfPacketsInv, EndInv DEF Next

-----------------------------------------------------------------------------
(* The theorems *)

LEMMA FollowsIsPrefix ==
  ASSUME NEW S, NEW s \in Seq(S), NEW t \in Seq(S), Len(s) <= Len(t), Follows(s, t, 0)
  PROVE  IsPrefixOf(s, t)
<1>1. Len(s) \in Nat /\ Len(t) \in Nat /\ \A i \in 1..Len(s) : t[i] \in S
  BY LenProperties, ElementOfSeq
<1>2. /\ SubSeq(t, 1, Len(s)) \in Seq(S) /\ Len(SubSeq(t, 1, Len(s))) = Len(s)
      /\ \A i \in 1..Len(s) : SubSeq(t, 1, Len(s))[i] = t[i]
  BY <1>1, SubSeqProperties
<1>3. s = SubSeq(t, 1, Len(s))
  BY <1>1, <1>2, SeqEqual DEF Follows
<1> QED
  BY <1>3 DEF IsPrefixOf

LEMMA InvImpliesOrder == IInv => OneAfterTheOther
<1> SUFFICES ASSUME IInv PROVE OneAfterTheOther
  OBVIOUS
<1>1. \A c \in Clients : IsPrefixOf(obeyed[c], Packets(line[c]))
  <2> SUFFICES ASSUME NEW c \in Clients PROVE IsPrefixOf(obeyed[c], Packets(line[c]))
    OBVIOUS
  <2>1. /\ obeyed[c] \in Seq(Meant(line[c])) /\ Packets(line[c]) \in Seq(Meant(line[c]))
        /\ Len(obeyed[c]) \in Nat /\ Len(inbox[c]) \in Nat /\ Len(Packets(line[c])) \in Nat
        /\ Len(obeyed[c]) + Len(inbox[c]) = sent[c] /\ sent[c] \in 0..Len(Packets(line[c]))
        /\ Follows(obeyed[c], Packets(line[c]), 0)
    BY PacketsType, LenProperties DEF IInv, Flow, TypeOK
  <2>2. Len(obeyed[c]) <= Len(Packets(line[c]))
    <3> DEFINE a == Len(obeyed[c])
               b == Len(inbox[c])
               n == Len(Packets(line[c]))
    <3>1. a \in Nat /\ b \in Nat /\ n \in Nat /\ a + b = sent[c] /\ sent[c] \in 0..n
      BY <2>1
    <3> HIDE DEF a, b, n
    <3>2. a <= n
      BY <3>1
    <3> QED
      BY <3>2 DEF a, n
  <2> QED
    BY <2>1, <2>2, FollowsIsPrefix
<1>2. serving \in Seq(Clients)
  BY DEF IInv, Queues
<1>3. DOMAIN serving = 1..Len(serving)
  BY <1>2, LenProperties
<1> QED
  BY <1>1, <1>3 DEF IInv, Turns, Standing, Accepted, OneAfterTheOther

LEMMA StepActivates ==
  ASSUME IInv, [Next]_vars, NEW c \in Clients, obeyed'[c] /= obeyed[c],
         Count(line[c]) = 2, obeyed'[c][Len(obeyed'[c])].cmd = "activate"
  PROVE  tm = <<Hour(line[c]), Minute(line[c])>>
<1>1. PICK cmds \in {{"time"}, {"activate", "deactivate"}, {"file"}, {"disarm"}, {"eof"}} : Obey(cmds)
  BY DEF Next, vars, Parse, Connect, Send, Interrupt, Accept, SetTime, SetActive, SetFile,
     Disarm, EndOfPackets, DecodeFails, Hangup
<1>2. c = Served /\ daemon = "recv"
  BY <1>1, ObeyFlow DEF Obey
<1> DEFINE n == Len(obeyed[c])
           P == Packets(line[c])
<1>3. /\ n + 1 \in 1..Len(P) /\ P[n + 1].cmd = "activate" /\ n \in Nat
      /\ obeyed[c] \in Seq(Meant(line[c])) /\ Follows(obeyed[c], P, 0)
  <2>1. /\ n + 1 \in 1..Len(P) /\ Received = P[n + 1] /\ Len(obeyed'[c]) = n + 1
        /\ obeyed'[c][n + 1] = Received
    BY <1>1, <1>2, ObeyFlow
  <2>2. obeyed[c] \in Seq(Meant(line[c])) /\ Follows(obeyed[c], P, 0) /\ n \in Nat
    BY LenProperties DEF IInv, Flow
  <2> QED
    BY <2>1, <2>2
<1>4. PICK j \in 1..n : P[j].cmd = "time"
  <2>1. \E j \in 1..((n + 1) - 1) : P[j].cmd = "time"
    BY <1>3, TimeComesFirst
  <2> QED
    BY <1>3, <2>1
<1>5. obeyed[c][j] = P[j] /\ obeyed[c][j] \in Meant(line[c])
  BY <1>3, <1>4, ElementOfSeq DEF Follows
<1>6. tm = obeyed[c][j].arg
  BY <1>2, <1>4, <1>5 DEF IInv, OwnTime
<1> QED
  BY <1>4, <1>5, <1>6 DEF Meant

\* Every variable keeps its type; no client sends more than its packets.
THEOREM TypeOKAlways == Spec => []TypeOK
<1>1. IInv => TypeOK
  BY DEF IInv
<1> QED
  BY <1>1, InitInv, NextInv, PTL DEF Spec

\* The clients are obeyed one after the other, each whole and in its order
\* (main.c:251-278), for any number of clients and any command lines.
THEOREM OneAfterTheOtherAlways == Spec => []OneAfterTheOther
  BY InitInv, NextInv, InvImpliesOrder, PTL DEF Spec

\* The daemon ends for one of the reasons listed, never for a time that
\* sa-control has let through (sa-control.c:76 and 85, main.c:113 and 118).
THEOREM EndsForAReasonAlways == Spec => []EndsForAReason
<1>1. IInv => EndsForAReason
  BY DEF IInv
<1> QED
  BY <1>1, InitInv, NextInv, PTL DEF Spec

\* A client that sets the time never activates the alarm with the time of
\* somebody else (sa-control.c:156-175), for any number of clients.
THEOREM ActivatedWithOwnTimeAlways == Spec => ActivatedWithOwnTime
<1>1. IInv /\ [Next]_vars =>
        [\A c \in Clients :
           /\ obeyed'[c] /= obeyed[c] /\ act_flag'
           /\ Count(line[c]) = 2 /\ obeyed'[c][Len(obeyed'[c])].cmd = "activate"
           => tm = <<Hour(line[c]), Minute(line[c])>>]_vars
  BY StepActivates
<1> QED
  BY <1>1, InitInv, NextInv, PTL DEF Spec, ActivatedWithOwnTime
=============================================================================
