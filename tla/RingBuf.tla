------------------------------- MODULE RingBuf -------------------------------
(***************************************************************************)
(* The ring buffer of ringbuf.c, which holds the decoded sound between two *)
(* requests of the sound server.  A buffer of capacity c has c + 1 slots:  *)
(* head is the slot the next byte goes to, tail the slot of the oldest     *)
(* byte, and head = tail means empty.  A copy runs in chunks that never    *)
(* cross the end of the array; one Chunk step is one iteration of the copy *)
(* loop of ringbuf_memset, ringbuf_memcpy_into, ringbuf_memcpy_from or     *)
(* ringbuf_copy.  Pointers are slot numbers.                               *)
(***************************************************************************)
EXTENDS Integers, Sequences

CONSTANTS Buffers, Capacity, Byte,
          MaxCount      \* bound: bytes in one call

ASSUME CapacityAssumption == Buffers /= {} /\ Capacity \in [Buffers -> Nat] /\ MaxCount \in Nat

VARIABLES mem, head, tail,     \* one array and two pointers per buffer
          kind,                \* the running call: "idle", "into", "from", "copy"
          dst, src,            \* the buffers it works on
          data,                \* "into": the bytes still to be written
          todo, count,         \* bytes left, bytes asked for
          overflow,            \* the code's local of this name
          used,                \* the code's local bytes_used (src_bytes_used)
          given                \* what the latest call has handed to its caller so far

buffers == <<mem, head, tail>>
call == <<kind, dst, src, data, todo, count, overflow, used>>
vars == <<mem, head, tail, kind, dst, src, data, todo, count, overflow, used, given>>

Data == UNION {[1..n -> Byte] : n \in 0..MaxCount}

Size(b) == Capacity[b] + 1
Lesser(m, n) == IF m <= n THEN m ELSE n

\* Bug: a wrapped buffer forgets the slot that tells full from empty.
BugFree(b) == IF head[b] >= tail[b] THEN Capacity[b] - (head[b] - tail[b])
                                    ELSE tail[b] - head[b]
Free(b) == IF head[b] >= tail[b] THEN Capacity[b] - (head[b] - tail[b])
                                 ELSE tail[b] - head[b] - 1
Used(b) == Capacity[b] - Free(b)

\* "wrap?": a pointer that reached the end of the array starts over.
Wrap(b, p) == IF p = Size(b) THEN 0 ELSE p
Nextp(b, p) == Wrap(b, p + 1)

\* The bytes a chunk can write, or read, before the end of the array.
\* Bug: the last slot is taken for the end.
BugToEnd(b, p) == Capacity[b] - p
ToEnd(b, p) == Size(b) - p

\* The bytes of buffer b from slot p on, n of them.
Bytes(b, p, n) == [i \in 1..n |-> mem[b][IF p + i - 1 < Size(b) THEN p + i - 1
                                                              ELSE p + i - 1 - Size(b)]]
Contents(b) == Bytes(b, tail[b], Used(b))

\* memchr on the n slots from start on: the distance to the first c, or n.
Memchr(b, c, start, n) ==
  LET hits == {i \in 0..(n - 1) : mem[b][start + i] = c}
  IN  IF hits = {} THEN n ELSE CHOOSE i \in hits : \A j \in hits : i <= j

\* ringbuf_findchr, its tail call as a recursive function of the offset.
\* Bug: the part before the wrap is not added to the offset.
BugFindchr(b, c, from) ==
  LET f[o \in 0..Size(b)] ==
        IF o >= Used(b) THEN Used(b)
        ELSE LET start == (tail[b] + o) % Size(b)
                 n     == Lesser(Size(b) - start, Used(b) - o)
                 hit   == Memchr(b, c, start, n)
             IN  IF hit < n THEN hit ELSE f[o + n]
  IN  IF from >= Used(b) THEN Used(b) ELSE f[from]
Findchr(b, c, from) ==
  LET f[o \in 0..Size(b)] ==
        IF o >= Used(b) THEN Used(b)
        ELSE LET start == (tail[b] + o) % Size(b)
                 n     == Lesser(Size(b) - start, Used(b) - o)
                 hit   == Memchr(b, c, start, n)
             IN  IF hit < n THEN o + hit ELSE f[o + n]
  IN  IF from >= Used(b) THEN Used(b) ELSE f[from]
-----------------------------------------------------------------------------
\* Between calls the locals mean nothing and hold fixed values.
AnyBuffer == CHOOSE b \in Buffers : TRUE

\* ringbuf_new leaves the array as malloc returned it.
Init ==
  /\ mem \in [Buffers -> UNION {[0..Capacity[b] -> Byte] : b \in Buffers}]
  /\ \A b \in Buffers : mem[b] \in [0..Capacity[b] -> Byte]
  /\ head = [b \in Buffers |-> 0]
  /\ tail = head
  /\ kind = "idle" /\ dst = AnyBuffer /\ src = AnyBuffer
  /\ data = <<>> /\ todo = 0 /\ count = 0 /\ overflow = FALSE /\ used = 0
  /\ given = <<>>

Reset(b) ==
  /\ kind = "idle"
  /\ head' = [head EXCEPT ![b] = 0]
  /\ tail' = [tail EXCEPT ![b] = 0]
  /\ given' = <<>>
  /\ UNCHANGED <<mem, call>>

\* ringbuf_memcpy_into begins: overflow is decided before the first byte.
MemcpyInto(b, bytes) ==
  /\ kind = "idle"
  /\ kind' = "into" /\ dst' = b /\ data' = bytes
  /\ todo' = Len(bytes) /\ count' = Len(bytes)
  /\ overflow' = (Len(bytes) > Free(b))
  /\ given' = <<>>
  /\ UNCHANGED <<buffers, src, used>>

\* ringbuf_memset writes at most one array full.
Memset(b, c, len) == MemcpyInto(b, [i \in 1..Lesser(len, Size(b)) |-> c])

\* ringbuf_memcpy_from begins; more than there is in the buffer is refused.
MemcpyFrom(b, n) ==
  /\ kind = "idle"
  /\ n <= Used(b)
  /\ kind' = "from" /\ src' = b
  /\ todo' = n /\ count' = n /\ used' = Used(b)
  /\ given' = <<>>
  /\ UNCHANGED <<buffers, dst, data, overflow>>

\* Bug: the overflow is decided by the room in the wrong buffer.
BugCopy(d, s, n) ==
  /\ kind = "idle"
  /\ n <= Used(s)
  /\ kind' = "copy" /\ dst' = d /\ src' = s
  /\ todo' = n /\ count' = n /\ used' = Used(s)
  /\ overflow' = (n > Free(s))
  /\ given' = <<>>
  /\ UNCHANGED <<buffers, data>>
Copy(d, s, n) ==
  /\ kind = "idle"
  /\ n <= Used(s)
  /\ kind' = "copy" /\ dst' = d /\ src' = s
  /\ todo' = n /\ count' = n /\ used' = Used(s)
  /\ overflow' = (n > Free(d))
  /\ given' = <<>>
  /\ UNCHANGED <<buffers, data>>

\* memcpy to the slots at head, then "wrap?".
Store(b, bytes) ==
  /\ mem' = [mem EXCEPT ![b] = [i \in DOMAIN @ |->
               IF i - head[b] + 1 \in 1..Len(bytes) THEN bytes[i - head[b] + 1] ELSE @[i]]]
  /\ head' = [head EXCEPT ![b] = Wrap(b, @ + Len(bytes))]

\* "wrap ?" of the reading end.
Consume(b, n) == tail' = [tail EXCEPT ![b] = Wrap(b, @ + n)]

IntoChunk ==
  /\ kind = "into" /\ todo /= 0
  /\ LET n == Lesser(ToEnd(dst, head[dst]), todo)
     IN  /\ Store(dst, SubSeq(data, 1, n))
         /\ data' = SubSeq(data, n + 1, Len(data))
         /\ todo' = todo - n
  /\ UNCHANGED <<tail, kind, dst, src, count, overflow, used, given>>

FromChunk ==
  /\ kind = "from" /\ todo /= 0
  /\ LET n == Lesser(ToEnd(src, tail[src]), todo)
     IN  /\ given' = given \o Bytes(src, tail[src], n)
         /\ Consume(src, n)
         /\ todo' = todo - n
  /\ UNCHANGED <<mem, head, kind, dst, src, data, count, overflow, used>>

CopyChunk ==
  /\ kind = "copy" /\ todo /= 0
  /\ LET n == Lesser(ToEnd(dst, head[dst]), Lesser(ToEnd(src, tail[src]), todo))
     IN  /\ Store(dst, Bytes(src, tail[src], n))
         /\ Consume(src, n)
         /\ todo' = todo - n
  /\ UNCHANGED <<kind, dst, src, data, count, overflow, used, given>>

\* The end of the call; after an overflow the tail follows the head.
\* Bug: the tail is put on the head, which reads as an empty buffer.
BugReturn ==
  /\ kind /= "idle" /\ todo = 0
  /\ tail' = IF overflow THEN [tail EXCEPT ![dst] = head[dst]] ELSE tail
  /\ kind' = "idle" /\ dst' = AnyBuffer /\ src' = AnyBuffer
  /\ count' = 0 /\ overflow' = FALSE /\ used' = 0
  /\ UNCHANGED <<mem, head, data, todo, given>>
Return ==
  /\ kind /= "idle" /\ todo = 0
  /\ tail' = IF overflow THEN [tail EXCEPT ![dst] = Nextp(dst, head[dst])] ELSE tail
  /\ kind' = "idle" /\ dst' = AnyBuffer /\ src' = AnyBuffer
  /\ count' = 0 /\ overflow' = FALSE /\ used' = 0
  /\ UNCHANGED <<mem, head, data, todo, given>>

\* ringbuf_read: one read(2) into the slots up to the end; it may be short.
Read(b, bytes) ==
  /\ kind = "idle"
  /\ Len(bytes) \in 1..ToEnd(b, head[b])
  /\ Store(b, bytes)
  /\ tail' = IF Len(bytes) > Free(b)
             THEN [tail EXCEPT ![b] = Nextp(b, Wrap(b, head[b] + Len(bytes)))]
             ELSE tail
  /\ given' = <<>>
  /\ UNCHANGED call

\* ringbuf_write: one write(2) of the slots up to the end; it may be short.
Write(b, n) ==
  /\ kind = "idle"
  /\ n \in 1..Lesser(ToEnd(b, tail[b]), Used(b))
  /\ Consume(b, n)
  /\ given' = Bytes(b, tail[b], n)
  /\ UNCHANGED <<mem, head, call>>

Chunk == IntoChunk \/ FromChunk \/ CopyChunk

Next ==
  \/ \E b \in Buffers : Reset(b)
  \/ \E b \in Buffers, bytes \in Data : MemcpyInto(b, bytes) \/ Read(b, bytes)
  \/ \E b \in Buffers, c \in Byte, len \in 0..MaxCount : Memset(b, c, len)
  \/ \E b \in Buffers, n \in 0..MaxCount : MemcpyFrom(b, n) \/ Write(b, n)
  \/ \E d, s \in Buffers, n \in 0..MaxCount : d /= s /\ Copy(d, s, n)
  \/ IntoChunk \/ FromChunk \/ CopyChunk \/ Return

Spec == Init /\ [][Next]_vars /\ WF_vars(Chunk \/ Return)
-----------------------------------------------------------------------------
\* Pointers stay inside the array: assert(bufend > head) and
\* assert(bufend > tail) of every loop, and what a call keeps about itself.
TypeOK ==
  /\ head \in [Buffers -> Nat] /\ tail \in [Buffers -> Nat]
  /\ \A b \in Buffers : head[b] < Size(b) /\ tail[b] < Size(b)
  /\ kind \in {"idle", "into", "from", "copy"}
  /\ dst \in Buffers /\ src \in Buffers
  /\ todo \in Nat /\ count \in Nat /\ used \in Nat
  /\ overflow \in BOOLEAN
  /\ DOMAIN mem = Buffers
  /\ \A b \in Buffers : mem[b] \in [0..Capacity[b] -> Byte]
  /\ data \in Seq(Byte) /\ given \in Seq(Byte)

\* What is in a buffer is accounted for while a call runs: a reading call
\* has taken exactly what it says out of src (assert(count + bytes_used ==
\* used), ringbuf.c:282 and 339), and a call that did not see an overflow
\* never runs into its own tail.
Accounting ==
  /\ kind \in {"from", "copy"} => /\ count - todo + Used(src) = used
                                  /\ todo <= Used(src)
  /\ kind \in {"into", "copy"} /\ ~overflow => todo <= Free(dst)

\* A call that overflowed leaves the buffer full, neither empty nor short
\* (assert(ringbuf_is_full(dst)), ringbuf.c:197, 226 and 343).
FullAfterOverflow ==
  [][\A b \in Buffers :
       kind /= "idle" /\ overflow /\ b = dst /\ kind' = "idle" => Free(b)' = 0]_vars

\* ringbuf_findchr finds the first c at or after the offset, whether the
\* contents wrap or not, and otherwise returns the bytes used.
FindchrFindsFirst ==
  \A b \in Buffers, c \in Byte : \A o \in 0..Size(b) :
    LET hits == {i \in o..(Used(b) - 1) : Contents(b)[i + 1] = c}
    IN  kind = "idle" =>
          Findchr(b, c, o) = IF hits = {} THEN Used(b)
                             ELSE CHOOSE i \in hits : \A j \in hits : i <= j

\* Every copy loop ends: no chunk is empty.
CallReturns == kind /= "idle" ~> kind = "idle"

\* The refinement: a call takes effect on the abstract queue when it begins.
\* While it runs the queue is what the array will hold when it returns.
LastBytes(n, s) == IF Len(s) <= n THEN s ELSE SubSeq(s, Len(s) - n + 1, Len(s))
Coming == CASE kind = "into" -> data
            [] kind = "copy" -> Bytes(src, tail[src], todo)
            [] OTHER         -> <<>>
Before(b) == Bytes(b, Nextp(b, head[b]), Capacity[b])
Queue(b) ==
  IF kind \in {"into", "copy"} /\ b = dst
  THEN LastBytes(Capacity[b], (IF overflow THEN Before(b) ELSE Contents(b)) \o Coming)
  ELSE IF kind \in {"from", "copy"} /\ b = src
       THEN SubSeq(Contents(b), todo + 1, Used(b))
       ELSE Contents(b)

Queues == [b \in Buffers |-> Queue(b)]
Given == IF kind = "from" THEN given \o Bytes(src, tail[src], todo) ELSE given

Fifo == INSTANCE ByteFifo WITH queue <- Queues, given <- Given

\* The chunked copies and the pointer arithmetic are a queue that keeps the
\* last Capacity bytes: what comes out is what went in, oldest first.
ImplementsFifo == Fifo!Spec
=============================================================================
