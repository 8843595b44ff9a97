------------------------------ MODULE ByteFifo ------------------------------
(***************************************************************************)
(* What ringbuf.h promises of a ring buffer: a queue of bytes that keeps   *)
(* the last Capacity bytes put into it, and hands bytes out in the order   *)
(* they came in.  Several buffers, because ringbuf_copy moves bytes from   *)
(* one to another.                                                         *)
(***************************************************************************)
EXTENDS Integers, Sequences

CONSTANTS Buffers, Capacity, Byte,
          MaxCount      \* bound: bytes in one call

VARIABLES queue,        \* queue[b]: the bytes in buffer b, oldest first
          given         \* what the latest call handed to its caller

vars == <<queue, given>>

Data == UNION {[1..n -> Byte] : n \in 0..MaxCount}

LastBytes(n, s) == IF Len(s) <= n THEN s ELSE SubSeq(s, Len(s) - n + 1, Len(s))

Init == /\ queue = [b \in Buffers |-> <<>>]
        /\ given = <<>>

Empty(b) == /\ queue' = [queue EXCEPT ![b] = <<>>]
            /\ given' = <<>>

Put(b, data) == /\ queue' = [queue EXCEPT ![b] = LastBytes(Capacity[b], @ \o data)]
                /\ given' = <<>>

Take(b, n) == /\ n <= Len(queue[b])
              /\ given' = SubSeq(queue[b], 1, n)
              /\ queue' = [queue EXCEPT ![b] = SubSeq(@, n + 1, Len(@))]

Move(d, s, n) ==
  /\ n <= Len(queue[s])
  /\ queue' = [queue EXCEPT
                 ![s] = SubSeq(@, n + 1, Len(@)),
                 ![d] = LastBytes(Capacity[d], @ \o SubSeq(queue[s], 1, n))]
  /\ given' = <<>>

Next == \/ \E b \in Buffers : Empty(b)
        \/ \E b \in Buffers, data \in Data : Put(b, data)
        \/ \E b \in Buffers, n \in 0..MaxCount : Take(b, n)
        \/ \E d, s \in Buffers, n \in 0..MaxCount : d /= s /\ Move(d, s, n)

Spec == Init /\ [][Next]_vars
=============================================================================
