---------------------------- MODULE RingBufProofs ----------------------------
(***************************************************************************)
(* The pointers and the accounting of the ring buffer, for every number of *)
(* buffers, every capacity, every set of bytes and every length of a call. *)
(***************************************************************************)
EXTENDS RingBuf, WellFoundedInduction, TLAPS

\* What a running call relies on besides Accounting: a writing call has as
\* many bytes as it says, and a copy has two different buffers.
Running ==
  /\ kind = "into" => Len(data) = todo
  /\ kind = "copy" => dst /= src

IInv == TypeOK /\ Accounting /\ Running
-----------------------------------------------------------------------------
(* The arithmetic of the pointers.                                         *)

\* Free and Used of a buffer, as functions of its three numbers.
FreeOf(c, h, t) == IF h >= t THEN c - (h - t) ELSE t - h - 1
WrapOf(c, p) == IF p = c + 1 THEN 0 ELSE p

LEMMA FreeIsFreeOf ==
  ASSUME NEW b PROVE Free(b) = FreeOf(Capacity[b], head[b], tail[b])
                     /\ Used(b) = Capacity[b] - FreeOf(Capacity[b], head[b], tail[b])
  BY DEF Free, Used, FreeOf

LEMMA WrapIsWrapOf ==
  ASSUME NEW b, NEW p PROVE Wrap(b, p) = WrapOf(Capacity[b], p)
  BY DEF Wrap, Size, WrapOf

LEMMA FreeBounds ==
  ASSUME NEW c \in Nat, NEW h \in 0..c, NEW t \in 0..c
  PROVE  FreeOf(c, h, t) \in 0..c
  BY DEF FreeOf

\* Moving the head takes room away, as long as there is room.
LEMMA HeadMoves ==
  ASSUME NEW c \in Nat, NEW h \in 0..c, NEW t \in 0..c, NEW n \in Nat, h + n <= c + 1
  PROVE  /\ WrapOf(c, h + n) \in 0..c
         /\ n <= FreeOf(c, h, t) => FreeOf(c, WrapOf(c, h + n), t) = FreeOf(c, h, t) - n
  BY DEF FreeOf, WrapOf

\* Moving the tail makes room, as long as there are bytes.
LEMMA TailMoves ==
  ASSUME NEW c \in Nat, NEW h \in 0..c, NEW t \in 0..c, NEW n \in Nat, t + n <= c + 1
  PROVE  /\ WrapOf(c, t + n) \in 0..c
         /\ n <= c - FreeOf(c, h, t) => FreeOf(c, h, WrapOf(c, t + n)) = FreeOf(c, h, t) + n
  BY DEF FreeOf, WrapOf

\* A tail right behind the head is a full buffer.
LEMMA FullBuffer ==
  ASSUME NEW c \in Nat, NEW h \in 0..c
  PROVE  WrapOf(c, h + 1) \in 0..c /\ FreeOf(c, h, WrapOf(c, h + 1)) = 0
  BY DEF FreeOf, WrapOf

LEMMA PointerTypes ==
  ASSUME TypeOK, NEW b \in Buffers
  PROVE  /\ Capacity[b] \in Nat
         /\ head[b] \in 0..Capacity[b] /\ tail[b] \in 0..Capacity[b]
         /\ Free(b) \in 0..Capacity[b] /\ Used(b) \in 0..Capacity[b]
         /\ Used(b) = Capacity[b] - Free(b)
<1>1. /\ Capacity[b] \in Nat /\ head[b] \in 0..Capacity[b] /\ tail[b] \in 0..Capacity[b]
  <2>1. Capacity[b] \in Nat
    BY CapacityAssumption DEF CapacityAssumption
  <2>2. head[b] \in Nat /\ tail[b] \in Nat /\ head[b] < Size(b) /\ tail[b] < Size(b)
    BY DEF TypeOK
  <2> QED
    BY <2>1, <2>2 DEF Size
<1>2. FreeOf(Capacity[b], head[b], tail[b]) \in 0..Capacity[b]
  BY <1>1, FreeBounds
<1> QED
  BY <1>1, <1>2, FreeIsFreeOf

LEMMA DataIsBytes == Data \subseteq Seq(Byte)
  BY DEF Data

LEMMA Part ==
  ASSUME NEW s \in Seq(Byte), NEW n \in 0..Len(s)
  PROVE  /\ SubSeq(s, 1, n) \in Seq(Byte) /\ Len(SubSeq(s, 1, n)) = n
         /\ SubSeq(s, n + 1, Len(s)) \in Seq(Byte)
         /\ Len(SubSeq(s, n + 1, Len(s))) = Len(s) - n
  OBVIOUS

\* A run of bytes that ends before the end of the array is in the array.
LEMMA BytesAreBytes ==
  ASSUME TypeOK, NEW b \in Buffers, NEW n \in 0..ToEnd(b, tail[b])
  PROVE  Bytes(b, tail[b], n) \in Seq(Byte) /\ Len(Bytes(b, tail[b], n)) = n
<1>1. /\ Capacity[b] \in Nat /\ tail[b] \in 0..Capacity[b] /\ Size(b) = Capacity[b] + 1
      /\ n \in Nat /\ tail[b] + n <= Size(b)
  BY PointerTypes DEF ToEnd, Size
<1>2. \A i \in 1..n : tail[b] + i - 1 \in 0..Capacity[b] /\ tail[b] + i - 1 < Size(b)
  BY <1>1
<1>3. mem[b] \in [0..Capacity[b] -> Byte]
  BY DEF TypeOK
<1>4. Bytes(b, tail[b], n) \in [1..n -> Byte]
  BY <1>2, <1>3 DEF Bytes
<1> QED
  BY <1>1, <1>4
-----------------------------------------------------------------------------
(* The two ways a chunk changes a buffer.                                  *)

LEMMA StoreMoves ==
  ASSUME TypeOK, NEW b \in Buffers, NEW bytes \in Seq(Byte),
         Len(bytes) <= ToEnd(b, head[b]), Store(b, bytes)
  PROVE  /\ DOMAIN mem' = Buffers
         /\ \A a \in Buffers : mem'[a] \in [0..Capacity[a] -> Byte]
         /\ head' = [head EXCEPT ![b] = WrapOf(Capacity[b], head[b] + Len(bytes))]
         /\ head'[b] \in 0..Capacity[b]
<1> DEFINE new == [i \in DOMAIN mem[b] |->
                     IF i - head[b] + 1 \in 1..Len(bytes) THEN bytes[i - head[b] + 1] ELSE mem[b][i]]
<1>1. Len(bytes) \in Nat /\ \A j \in 1..Len(bytes) : bytes[j] \in Byte
  OBVIOUS
<1>2. new \in [0..Capacity[b] -> Byte]
  <2>1. mem[b] \in [0..Capacity[b] -> Byte]
    BY DEF TypeOK
  <2> QED
    BY <1>1, <2>1
<1>3. mem' = [mem EXCEPT ![b] = new]
  BY DEF Store
<1>4. head' = [head EXCEPT ![b] = WrapOf(Capacity[b], head[b] + Len(bytes))]
  BY WrapIsWrapOf DEF Store, TypeOK
<1>5. head'[b] \in 0..Capacity[b]
  <2>1. Capacity[b] \in Nat /\ head[b] \in 0..Capacity[b] /\ head[b] + Len(bytes) <= Capacity[b] + 1
    BY <1>1, PointerTypes DEF ToEnd, Size
  <2>2. head'[b] = WrapOf(Capacity[b], head[b] + Len(bytes))
    BY <1>4 DEF TypeOK
  <2> QED
    BY <1>1, <2>1, <2>2, HeadMoves
<1> HIDE DEF new
<1> QED
  BY <1>2, <1>3, <1>4, <1>5 DEF TypeOK
LEMMA ConsumeMoves ==
  ASSUME TypeOK, NEW b \in Buffers, NEW n \in Nat, n <= ToEnd(b, tail[b]), Consume(b, n)
  PROVE  /\ tail' = [tail EXCEPT ![b] = WrapOf(Capacity[b], tail[b] + n)]
         /\ tail'[b] \in 0..Capacity[b]
<1>1. tail' = [tail EXCEPT ![b] = WrapOf(Capacity[b], tail[b] + n)]
  BY WrapIsWrapOf DEF Consume, TypeOK
<1>2. Capacity[b] \in Nat /\ tail[b] \in 0..Capacity[b] /\ tail[b] + n <= Capacity[b] + 1
  BY PointerTypes DEF ToEnd, Size
<1>3. tail'[b] = WrapOf(Capacity[b], tail[b] + n)
  BY <1>1 DEF TypeOK
<1> QED
  BY <1>1, <1>2, <1>3, TailMoves
-----------------------------------------------------------------------------
(* The beginning of a call, and its end.                                   *)

LEMMA InitInv == Init => IInv
<1> SUFFICES ASSUME Init PROVE IInv
  OBVIOUS
<1>1. AnyBuffer \in Buffers
  BY CapacityAssumption DEF CapacityAssumption, AnyBuffer
<1>2. \A b \in Buffers : Capacity[b] \in Nat
  BY CapacityAssumption DEF CapacityAssumption
<1>3. DOMAIN mem = Buffers /\ \A b \in Buffers : mem[b] \in [0..Capacity[b] -> Byte]
  BY DEF Init
<1>4. /\ head \in [Buffers -> Nat] /\ tail \in [Buffers -> Nat]
      /\ \A b \in Buffers : head[b] < Size(b) /\ tail[b] < Size(b)
  BY <1>2 DEF Init, Size
<1>5. /\ kind = "idle" /\ dst = AnyBuffer /\ src = AnyBuffer /\ data = <<>> /\ given = <<>>
      /\ todo = 0 /\ count = 0 /\ used = 0 /\ overflow = FALSE
  BY DEF Init
<1>6. TypeOK
  <2>1. <<>> \in Seq(Byte) /\ FALSE \in BOOLEAN
    OBVIOUS
  <2>2. overflow \in BOOLEAN
    BY <1>5
  <2> QED
    BY <1>1, <1>3, <1>4, <1>5, <2>1, <2>2 DEF TypeOK
<1> QED
  BY <1>5, <1>6 DEF IInv, Accounting, Running

LEMMA Begins ==
  ASSUME IInv, UNCHANGED <<buffers>>
  PROVE  /\ \A b \in Buffers : Free(b)' = Free(b) /\ Used(b)' = Used(b)
         /\ head' \in [Buffers -> Nat] /\ tail' \in [Buffers -> Nat]
         /\ \A b \in Buffers : head'[b] < Size(b) /\ tail'[b] < Size(b)
         /\ DOMAIN mem' = Buffers /\ \A b \in Buffers : mem'[b] \in [0..Capacity[b] -> Byte]
  BY DEF IInv, TypeOK, buffers, Free, Used

LEMMA MemcpyIntoInv ==
  ASSUME IInv, NEW b \in Buffers, NEW bytes \in Seq(Byte), MemcpyInto(b, bytes)
  PROVE  IInv'
<1>1. /\ kind = "idle" /\ kind' = "into" /\ dst' = b /\ src' = src /\ data' = bytes
      /\ todo' = Len(bytes) /\ count' = Len(bytes) /\ used' = used
      /\ overflow' = (Len(bytes) > Free(b)) /\ given' = <<>> /\ UNCHANGED buffers
  BY DEF MemcpyInto
<1>2. Len(bytes) \in Nat
  OBVIOUS
<1>3. TypeOK'
  <2>1. overflow' \in BOOLEAN /\ <<>> \in Seq(Byte)
    BY <1>1 DEF IInv, TypeOK
  <2> QED
    BY <1>1, <1>2, <2>1, Begins DEF IInv, TypeOK
<1>4. Accounting'
  <2>1. Free(dst)' = Free(b)
    BY <1>1 DEF Free, buffers
  <2>2. Free(b) \in Nat
    BY PointerTypes DEF IInv
  <2>3. ~overflow' => ~(Len(bytes) > Free(b))
    BY <1>1
  <2>4. ~overflow' => todo' <= Free(dst)'
    BY <1>1, <1>2, <2>1, <2>2, <2>3
  <2> QED
    BY <1>1, <2>4 DEF Accounting
<1> QED
  BY <1>1, <1>3, <1>4 DEF IInv, Running

LEMMA MemcpyFromInv ==
  ASSUME IInv, NEW b \in Buffers, NEW n \in Nat, MemcpyFrom(b, n)
  PROVE  IInv'
<1>1. /\ kind = "idle" /\ n <= Used(b) /\ kind' = "from" /\ src' = b /\ dst' = dst
      /\ todo' = n /\ count' = n /\ used' = Used(b) /\ overflow' = overflow
      /\ data' = data /\ given' = <<>> /\ UNCHANGED buffers
  BY DEF MemcpyFrom
<1>2. Used(src)' = Used(b) /\ Used(b) \in Nat
  <2>1. Used(src)' = Used(b)
    BY <1>1 DEF Used, Free, buffers
  <2> QED
    BY <2>1, PointerTypes DEF IInv
<1>3. TypeOK'
  <2>1. overflow' \in BOOLEAN /\ <<>> \in Seq(Byte)
    BY <1>1 DEF IInv, TypeOK
  <2> QED
    BY <1>1, <1>2, <2>1, Begins DEF IInv, TypeOK
<1>4. Accounting'
  BY <1>1, <1>2 DEF Accounting
<1> QED
  BY <1>1, <1>3, <1>4 DEF IInv, Running

LEMMA CopyInv ==
  ASSUME IInv, NEW d \in Buffers, NEW s \in Buffers, NEW n \in Nat, d /= s, Copy(d, s, n)
  PROVE  IInv'
<1>1. /\ kind = "idle" /\ n <= Used(s) /\ kind' = "copy" /\ src' = s /\ dst' = d
      /\ todo' = n /\ count' = n /\ used' = Used(s) /\ overflow' = (n > Free(d))
      /\ data' = data /\ given' = <<>> /\ UNCHANGED buffers
  BY DEF Copy
<1>2. /\ Used(src)' = Used(s) /\ Used(s) \in Nat
      /\ Free(dst)' = Free(d) /\ Free(d) \in Nat
  <2>1. Used(src)' = Used(s) /\ Free(dst)' = Free(d)
    BY <1>1 DEF Used, Free, buffers
  <2> QED
    BY <2>1, PointerTypes DEF IInv
<1>3. TypeOK'
  <2>1. overflow' \in BOOLEAN /\ <<>> \in Seq(Byte)
    BY <1>1 DEF IInv, TypeOK
  <2> QED
    BY <1>1, <1>2, <2>1, Begins DEF IInv, TypeOK
<1>4. Accounting'
  <2>1. ~overflow' => ~(n > Free(d))
    BY <1>1
  <2>2. ~overflow' => todo' <= Free(dst)'
    BY <1>1, <1>2, <2>1
  <2>3. count' - todo' + Used(src)' = used' /\ todo' <= Used(src)'
    BY <1>1, <1>2
  <2> QED
    BY <2>2, <2>3 DEF Accounting
<1> QED
  BY <1>1, <1>3, <1>4 DEF IInv, Running

LEMMA ResetInv == ASSUME IInv, NEW b \in Buffers, Reset(b) PROVE IInv'
<1>1. /\ head' = [head EXCEPT ![b] = 0] /\ tail' = [tail EXCEPT ![b] = 0]
      /\ kind = "idle" /\ given' = <<>> /\ UNCHANGED <<mem, call>>
  BY DEF Reset
<1>2. 0 < Size(b)
  BY PointerTypes DEF IInv, Size
<1>3. TypeOK'
  BY <1>1, <1>2 DEF IInv, TypeOK, call
<1> QED
  BY <1>1, <1>3 DEF IInv, Accounting, Running, call

\* The end of a call.
LEMMA ReturnInv == ASSUME IInv, Return PROVE IInv'
<1>1. /\ tail' = IF overflow THEN [tail EXCEPT ![dst] = Nextp(dst, head[dst])] ELSE tail
      /\ kind' = "idle" /\ dst' = AnyBuffer /\ src' = AnyBuffer
      /\ count' = 0 /\ overflow' = FALSE /\ used' = 0
      /\ UNCHANGED <<mem, head, data, todo, given>>
  BY DEF Return
<1>2. AnyBuffer \in Buffers
  BY CapacityAssumption DEF CapacityAssumption, AnyBuffer
<1>3. Nextp(dst, head[dst]) \in Nat /\ Nextp(dst, head[dst]) < Size(dst)
  <2>1. Capacity[dst] \in Nat /\ head[dst] \in 0..Capacity[dst]
    BY PointerTypes DEF IInv, TypeOK
  <2>2. WrapOf(Capacity[dst], head[dst] + 1) \in 0..Capacity[dst]
    BY <2>1, FullBuffer
  <2> QED
    BY <2>1, <2>2, WrapIsWrapOf DEF Nextp, Size
<1>4. tail' \in [Buffers -> Nat] /\ \A b \in Buffers : tail'[b] < Size(b)
  BY <1>1, <1>3 DEF IInv, TypeOK
<1>5. TypeOK'
  BY <1>1, <1>2, <1>4 DEF IInv, TypeOK
<1> QED
  BY <1>1, <1>5 DEF IInv, Accounting, Running-----------------------------------------------------------------------------
(* The chunks.                                                             *)

\* What moving the head, or the tail, of a buffer does to its room.
LEMMA PointerMoves ==
  ASSUME TypeOK, NEW b \in Buffers, NEW p \in 0..Capacity[b]
  PROVE  /\ [head EXCEPT ![b] = p] \in [Buffers -> Nat]
         /\ [tail EXCEPT ![b] = p] \in [Buffers -> Nat]
         /\ \A a \in Buffers : [head EXCEPT ![b] = p][a] < Size(a) /\ [tail EXCEPT ![b] = p][a] < Size(a)
<1>1. Capacity[b] \in Nat /\ p \in Nat /\ p < Size(b)
  BY PointerTypes DEF Size
<1> QED
  BY <1>1 DEF TypeOK

LEMMA HeadRoom ==
  ASSUME TypeOK, NEW b \in Buffers, NEW n \in Nat, n <= ToEnd(b, head[b]),
         head' = [head EXCEPT ![b] = WrapOf(Capacity[b], head[b] + n)], tail'[b] = tail[b],
         n <= Free(b)
  PROVE  Free(b)' = Free(b) - n
<1>1. /\ Capacity[b] \in Nat /\ head[b] \in 0..Capacity[b] /\ tail[b] \in 0..Capacity[b]
      /\ head[b] + n <= Capacity[b] + 1
  BY PointerTypes DEF ToEnd, Size
<1>2. head'[b] = WrapOf(Capacity[b], head[b] + n)
  BY DEF TypeOK
<1>3. FreeOf(Capacity[b], head'[b], tail[b]) = Free(b) - n
  <2>1. n <= FreeOf(Capacity[b], head[b], tail[b]) =>
          FreeOf(Capacity[b], WrapOf(Capacity[b], head[b] + n), tail[b])
            = FreeOf(Capacity[b], head[b], tail[b]) - n
    BY <1>1, HeadMoves
  <2>2. Free(b) = FreeOf(Capacity[b], head[b], tail[b])
    BY FreeIsFreeOf
  <2> QED
    BY <1>2, <2>1, <2>2
<1>4. Free(b)' = FreeOf(Capacity[b], head'[b], tail[b])
  BY DEF Free, FreeOf
<1> QED
  BY <1>3, <1>4

LEMMA TailRoom ==
  ASSUME TypeOK, NEW b \in Buffers, NEW n \in Nat, n <= ToEnd(b, tail[b]), n <= Used(b),
         tail' = [tail EXCEPT ![b] = WrapOf(Capacity[b], tail[b] + n)],
         head'[b] = head[b]
  PROVE  Used(b)' = Used(b) - n
<1>1. /\ Capacity[b] \in Nat /\ head[b] \in 0..Capacity[b] /\ tail[b] \in 0..Capacity[b]
      /\ tail[b] + n <= Capacity[b] + 1
  BY PointerTypes DEF ToEnd, Size
<1>2. tail'[b] = WrapOf(Capacity[b], tail[b] + n)
  BY DEF TypeOK
<1>3. FreeOf(Capacity[b], head[b], tail'[b]) = FreeOf(Capacity[b], head[b], tail[b]) + n
  <2>1. n <= Capacity[b] - FreeOf(Capacity[b], head[b], tail[b]) =>
          FreeOf(Capacity[b], head[b], WrapOf(Capacity[b], tail[b] + n))
            = FreeOf(Capacity[b], head[b], tail[b]) + n
    BY <1>1, TailMoves
  <2>2. Used(b) = Capacity[b] - FreeOf(Capacity[b], head[b], tail[b])
    BY FreeIsFreeOf
  <2> QED
    BY <1>2, <2>1, <2>2
<1>4. Used(b)' = Capacity[b] - FreeOf(Capacity[b], head[b], tail'[b])
  BY DEF Used, Free, FreeOf
<1>5. FreeOf(Capacity[b], head[b], tail[b]) \in 0..Capacity[b]
  BY <1>1, FreeBounds
<1>6. Used(b) = Capacity[b] - FreeOf(Capacity[b], head[b], tail[b])
  BY FreeIsFreeOf
<1> QED
  BY <1>1, <1>3, <1>4, <1>5, <1>6

LEMMA LesserIsLess ==
  ASSUME NEW m \in Int, NEW n \in Int
  PROVE  Lesser(m, n) <= m /\ Lesser(m, n) <= n /\ Lesser(m, n) \in {m, n}
  BY DEF Lesser

LEMMA EndIsAhead ==
  ASSUME TypeOK, NEW b \in Buffers
  PROVE  ToEnd(b, head[b]) \in Nat \ {0} /\ ToEnd(b, tail[b]) \in Nat \ {0}
  BY PointerTypes DEF ToEnd, Size

LEMMA IntoChunkInv == ASSUME IInv, IntoChunk PROVE IInv'
<1>0. TypeOK /\ dst \in Buffers
  BY DEF IInv, TypeOK
<1> DEFINE n == Lesser(ToEnd(dst, head[dst]), todo)
           part == SubSeq(data, 1, n)
<1>1. /\ kind = "into" /\ Store(dst, part) /\ data' = SubSeq(data, n + 1, Len(data))
      /\ todo' = todo - n
      /\ UNCHANGED <<tail, kind, dst, src, count, overflow, used, given>>
  BY DEF IntoChunk
<1>2. n \in 0..Len(data) /\ n <= ToEnd(dst, head[dst]) /\ Len(data) = todo /\ todo - n \in Nat
  <2>1. Len(data) = todo /\ todo \in Nat /\ ToEnd(dst, head[dst]) \in Nat
    BY <1>1, EndIsAhead DEF IInv, Running, TypeOK
  <2> QED
    BY <2>1, LesserIsLess
<1> HIDE DEF n
<1>3. /\ part \in Seq(Byte) /\ Len(part) = n
      /\ data' \in Seq(Byte) /\ Len(data') = Len(data) - n
  BY <1>1, <1>2, Part DEF IInv, TypeOK
<1> HIDE DEF part
<1>4. /\ DOMAIN mem' = Buffers /\ \A a \in Buffers : mem'[a] \in [0..Capacity[a] -> Byte]
      /\ head' = [head EXCEPT ![dst] = WrapOf(Capacity[dst], head[dst] + n)]
      /\ head'[dst] \in 0..Capacity[dst]
  BY <1>1, <1>2, <1>3, StoreMoves DEF IInv, TypeOK
<1>5. TypeOK'
  <2>1. head' \in [Buffers -> Nat] /\ \A b \in Buffers : head'[b] < Size(b)
    BY <1>0, <1>4, PointerMoves
  <2>2. todo' \in Nat /\ UNCHANGED <<tail, kind, dst, src, count, overflow, used, given>>
    BY <1>1, <1>2
  <2> QED
    BY <1>0, <1>3, <1>4, <2>1, <2>2 DEF TypeOK
<1>6. Accounting'
  <2>1. n <= Free(dst) => Free(dst)' = Free(dst) - n
    <3>1. PICK d \in Buffers : d = dst
      BY <1>0
    <3>2. n \in Nat /\ tail'[d] = tail[d] /\ dst' = dst
      BY <1>1, <1>2
    <3>3. n <= Free(d) => Free(d)' = Free(d) - n
      BY <1>0, <1>2, <1>4, <3>1, <3>2, HeadRoom
    <3>4. Free(d) = Free(dst) /\ Free(d)' = Free(dst)'
      BY <3>1, <3>2 DEF Free
    <3> QED
      BY <3>3, <3>4
  <2>2. ~overflow => todo <= Free(dst)
    BY <1>1 DEF IInv, Accounting
  <2>3. todo \in Nat /\ n \in Nat /\ n <= todo /\ Free(dst) \in Int
    BY <1>2, PointerTypes DEF IInv, TypeOK
  <2>4. ~overflow => todo' <= Free(dst)'
    BY <1>1, <2>1, <2>2, <2>3
  <2> QED
    BY <1>1, <2>4 DEF Accounting
<1> QED
  BY <1>1, <1>2, <1>3, <1>5, <1>6 DEF IInv, Running

LEMMA FromChunkInv == ASSUME IInv, FromChunk PROVE IInv'
<1>0. TypeOK /\ src \in Buffers
  BY DEF IInv, TypeOK
<1> DEFINE n == Lesser(ToEnd(src, tail[src]), todo)
<1>1. /\ kind = "from" /\ given' = given \o Bytes(src, tail[src], n) /\ Consume(src, n)
      /\ todo' = todo - n
      /\ UNCHANGED <<mem, head, kind, dst, src, data, count, overflow, used>>
  BY DEF FromChunk
<1>2. /\ n \in Nat /\ n <= ToEnd(src, tail[src]) /\ n <= todo /\ n \in 0..ToEnd(src, tail[src])
      /\ todo - n \in Nat
  <2>1. todo \in Nat /\ ToEnd(src, tail[src]) \in Nat
    BY EndIsAhead DEF IInv, TypeOK
  <2> QED
    BY <2>1, LesserIsLess
<1> HIDE DEF n
<1>3. given' \in Seq(Byte)
  <2>1. Bytes(src, tail[src], n) \in Seq(Byte) /\ given \in Seq(Byte)
    BY <1>2, BytesAreBytes DEF IInv, TypeOK
  <2> QED
    BY <1>1, <2>1
<1>4. /\ tail' = [tail EXCEPT ![src] = WrapOf(Capacity[src], tail[src] + n)]
      /\ tail'[src] \in 0..Capacity[src]
  BY <1>1, <1>2, ConsumeMoves DEF IInv, TypeOK
<1>5. TypeOK'
  <2>1. tail' \in [Buffers -> Nat] /\ \A b \in Buffers : tail'[b] < Size(b)
    BY <1>0, <1>4, PointerMoves
  <2>2. todo' \in Nat /\ UNCHANGED <<mem, head, kind, dst, src, data, count, overflow, used>>
    BY <1>1, <1>2
  <2> QED
    BY <1>0, <1>3, <2>1, <2>2 DEF TypeOK
<1>6. Accounting'
  <2>1. count - todo + Used(src) = used /\ todo <= Used(src)
    BY <1>1 DEF IInv, Accounting
  <2>2. todo \in Nat /\ count \in Nat /\ Used(src) \in Nat
    BY PointerTypes DEF IInv, TypeOK
  <2>3. Used(src)' = Used(src) - n
    <3>1. PICK s \in Buffers : s = src
      BY <1>0
    <3>2. n <= Used(src) /\ head'[src] = head[src] /\ src' = src
      BY <1>1, <1>2, <2>1, <2>2
    <3>3. Used(s)' = Used(s) - n
      BY <1>0, <1>2, <1>4, <3>1, <3>2, TailRoom
    <3>4. Used(s) = Used(src) /\ Used(s)' = Used(src)'
      BY <3>1, <3>2 DEF Used, Free
    <3> QED
      BY <3>3, <3>4
  <2>4. count' - todo' + Used(src)' = used' /\ todo' <= Used(src)'
    BY <1>1, <1>2, <2>1, <2>2, <2>3
  <2> QED
    BY <1>1, <2>4 DEF Accounting
<1> QED
  BY <1>1, <1>5, <1>6 DEF IInv, Running
LEMMA CopyChunkInv == ASSUME IInv, CopyChunk PROVE IInv'
<1>0. TypeOK /\ src \in Buffers /\ dst \in Buffers
  BY DEF IInv, TypeOK
<1> DEFINE n == Lesser(ToEnd(dst, head[dst]), Lesser(ToEnd(src, tail[src]), todo))
           part == Bytes(src, tail[src], n)
<1>1. /\ kind = "copy" /\ Store(dst, part) /\ Consume(src, n)
      /\ todo' = todo - n
      /\ UNCHANGED <<kind, dst, src, data, count, overflow, used, given>>
  BY DEF CopyChunk
<1>2. /\ n \in Nat /\ n <= ToEnd(dst, head[dst]) /\ n <= ToEnd(src, tail[src])
      /\ n <= todo /\ todo - n \in Nat /\ n \in 0..ToEnd(src, tail[src]) /\ todo \in Nat
  <2>1. todo \in Nat /\ ToEnd(dst, head[dst]) \in Nat /\ ToEnd(src, tail[src]) \in Nat
    BY <1>0, EndIsAhead DEF TypeOK
  <2>2. LET l == Lesser(ToEnd(src, tail[src]), todo)
        IN  l \in Nat /\ l <= ToEnd(src, tail[src]) /\ l <= todo
    BY <2>1, LesserIsLess
  <2> QED
    BY <2>1, <2>2, LesserIsLess
<1> HIDE DEF n
<1>3. part \in Seq(Byte) /\ Len(part) = n
  BY <1>0, <1>2, BytesAreBytes
<1> HIDE DEF part
<1>4. /\ DOMAIN mem' = Buffers /\ \A a \in Buffers : mem'[a] \in [0..Capacity[a] -> Byte]
      /\ head' = [head EXCEPT ![dst] = WrapOf(Capacity[dst], head[dst] + n)]
      /\ head'[dst] \in 0..Capacity[dst]
  BY <1>0, <1>1, <1>2, <1>3, StoreMoves
<1>5. /\ tail' = [tail EXCEPT ![src] = WrapOf(Capacity[src], tail[src] + n)]
      /\ tail'[src] \in 0..Capacity[src]
  BY <1>0, <1>1, <1>2, ConsumeMoves
<1>6. TypeOK'
  <2>1. head' \in [Buffers -> Nat] /\ \A b \in Buffers : head'[b] < Size(b)
    BY <1>0, <1>4, PointerMoves
  <2>2. tail' \in [Buffers -> Nat] /\ \A b \in Buffers : tail'[b] < Size(b)
    BY <1>0, <1>5, PointerMoves
  <2>3. todo' \in Nat /\ UNCHANGED <<kind, dst, src, data, count, overflow, used, given>>
    BY <1>1, <1>2
  <2> QED
    BY <1>0, <1>4, <2>1, <2>2, <2>3 DEF TypeOK
<1>7. dst /= src /\ head'[src] = head[src] /\ tail'[dst] = tail[dst]
  <2>1. dst /= src
    BY <1>1 DEF IInv, Running
  <2> QED
    BY <1>0, <1>4, <1>5, <2>1 DEF TypeOK
<1>8. count - todo + Used(src) = used /\ todo <= Used(src) /\ (~overflow => todo <= Free(dst))
  BY <1>1 DEF IInv, Accounting
<1>9. Used(src) \in Nat /\ Free(dst) \in Nat /\ count \in Nat /\ used \in Nat
  BY <1>0, PointerTypes DEF TypeOK
<1>10. Used(src)' = Used(src) - n
  <2>1. PICK s \in Buffers : s = src
    BY <1>0
  <2>2. Used(s) = Used(src) /\ Used(s)' = Used(src)'
    BY <1>1, <2>1 DEF Used, Free
  <2>3. n <= Used(s)
    BY <1>2, <1>8, <1>9, <2>2
  <2>4. Used(s)' = Used(s) - n
    BY <1>0, <1>2, <1>5, <1>7, <2>1, <2>3, TailRoom
  <2> QED
    BY <2>2, <2>4
<1>11. n <= Free(dst) => Free(dst)' = Free(dst) - n
  <2>1. PICK d \in Buffers : d = dst
    BY <1>0
  <2>2. Free(d) = Free(dst) /\ Free(d)' = Free(dst)'
    BY <1>1, <2>1 DEF Free
  <2>3. n <= Free(d) => Free(d)' = Free(d) - n
    BY <1>0, <1>2, <1>4, <1>7, <2>1, HeadRoom
  <2> QED
    BY <2>2, <2>3
<1>12. count' - todo' + Used(src)' = used' /\ todo' <= Used(src)'
  BY <1>1, <1>2, <1>8, <1>9, <1>10
<1>13. ~overflow => todo' <= Free(dst)'
  BY <1>1, <1>2, <1>8, <1>9, <1>11
<1>14. Accounting'
  BY <1>1, <1>12, <1>13 DEF Accounting
<1> QED
  BY <1>1, <1>6, <1>7, <1>14 DEF IInv, Running
-----------------------------------------------------------------------------
(* The calls that are one system call.                                     *)

LEMMA ReadInv ==
  ASSUME IInv, NEW b \in Buffers, NEW bytes \in Seq(Byte), Read(b, bytes)
  PROVE  IInv'
<1>0. TypeOK
  BY DEF IInv
<1>1. /\ kind = "idle" /\ Len(bytes) <= ToEnd(b, head[b]) /\ Store(b, bytes)
      /\ given' = <<>> /\ UNCHANGED call
      /\ tail' = IF Len(bytes) > Free(b)
                 THEN [tail EXCEPT ![b] = Nextp(b, Wrap(b, head[b] + Len(bytes)))] ELSE tail
  <2>1. ToEnd(b, head[b]) \in Nat
    BY <1>0, EndIsAhead
  <2> QED
    BY <2>1 DEF Read
<1>2. /\ DOMAIN mem' = Buffers /\ \A a \in Buffers : mem'[a] \in [0..Capacity[a] -> Byte]
      /\ head' = [head EXCEPT ![b] = WrapOf(Capacity[b], head[b] + Len(bytes))]
      /\ head'[b] \in 0..Capacity[b]
  BY <1>0, <1>1, StoreMoves
<1>3. Nextp(b, Wrap(b, head[b] + Len(bytes))) \in 0..Capacity[b]
  <2>1. WrapOf(Capacity[b], head[b] + Len(bytes)) \in 0..Capacity[b] /\ Capacity[b] \in Nat
    BY <1>0, <1>2, PointerTypes DEF TypeOK
  <2>2. WrapOf(Capacity[b], WrapOf(Capacity[b], head[b] + Len(bytes)) + 1) \in 0..Capacity[b]
    BY <2>1, FullBuffer
  <2> QED
    BY <2>2, WrapIsWrapOf DEF Nextp
<1>4. head' \in [Buffers -> Nat] /\ \A a \in Buffers : head'[a] < Size(a)
  BY <1>0, <1>2, PointerMoves
<1>5. tail' \in [Buffers -> Nat] /\ \A a \in Buffers : tail'[a] < Size(a)
  <2>1. CASE Len(bytes) > Free(b)
    BY <1>0, <1>1, <1>3, <2>1, PointerMoves
  <2>2. CASE ~(Len(bytes) > Free(b))
    BY <1>0, <1>1, <2>2 DEF TypeOK
  <2> QED
    BY <2>1, <2>2
<1>6. TypeOK'
  BY <1>0, <1>1, <1>2, <1>4, <1>5 DEF TypeOK, call
<1> QED
  BY <1>1, <1>6 DEF IInv, Accounting, Running, call

LEMMA WriteInv ==
  ASSUME IInv, NEW b \in Buffers, NEW n \in Nat, Write(b, n)
  PROVE  IInv'
<1>0. TypeOK /\ ToEnd(b, tail[b]) \in Nat /\ Used(b) \in Nat
  BY EndIsAhead, PointerTypes DEF IInv
<1>1. /\ kind = "idle" /\ n <= ToEnd(b, tail[b]) /\ Consume(b, n)
      /\ given' = Bytes(b, tail[b], n) /\ UNCHANGED <<mem, head, call>>
  <2>1. n \in 1..Lesser(ToEnd(b, tail[b]), Used(b))
    BY DEF Write
  <2>2. n <= ToEnd(b, tail[b])
    BY <1>0, <2>1, LesserIsLess
  <2> QED
    BY <2>2 DEF Write
<1>2. given' \in Seq(Byte)
  BY <1>0, <1>1, BytesAreBytes
<1>3. tail' \in [Buffers -> Nat] /\ \A a \in Buffers : tail'[a] < Size(a)
  BY <1>0, <1>1, ConsumeMoves, PointerMoves
<1>4. TypeOK'
  BY <1>0, <1>1, <1>2, <1>3 DEF TypeOK, call
<1> QED
  BY <1>1, <1>4 DEF IInv, Accounting, Running, call-----------------------------------------------------------------------------
LEMMA NextInv == IInv /\ [Next]_vars => IInv'
<1> SUFFICES ASSUME IInv, [Next]_vars PROVE IInv'
  OBVIOUS
<1>1. ASSUME NEW b \in Buffers, Reset(b) PROVE IInv'
  BY <1>1, ResetInv
<1>2. ASSUME NEW b \in Buffers, NEW bytes \in Data, MemcpyInto(b, bytes) \/ Read(b, bytes)
      PROVE  IInv'
  <2>1. bytes \in Seq(Byte)
    BY DataIsBytes
  <2> QED
    BY <1>2, <2>1, MemcpyIntoInv, ReadInv
<1>3. ASSUME NEW b \in Buffers, NEW c \in Byte, NEW len \in 0..MaxCount, Memset(b, c, len)
      PROVE  IInv'
  <2> DEFINE bytes == [i \in 1..Lesser(len, Size(b)) |-> c]
  <2>1. Lesser(len, Size(b)) \in Nat
    <3>1. Size(b) \in Nat /\ len \in Nat
      BY PointerTypes, CapacityAssumption DEF IInv, Size, CapacityAssumption
    <3> QED
      BY <3>1, LesserIsLess
  <2>2. bytes \in Seq(Byte)
    BY <2>1
  <2>3. MemcpyInto(b, bytes)
    BY <1>3 DEF Memset
  <2> HIDE DEF bytes
  <2> QED
    BY <2>2, <2>3, MemcpyIntoInv
<1>4. ASSUME NEW b \in Buffers, NEW n \in 0..MaxCount, MemcpyFrom(b, n) \/ Write(b, n)
      PROVE  IInv'
  <2>1. n \in Nat
    BY CapacityAssumption DEF CapacityAssumption
  <2> QED
    BY <1>4, <2>1, MemcpyFromInv, WriteInv
<1>5. ASSUME NEW d \in Buffers, NEW s \in Buffers, NEW n \in 0..MaxCount, d /= s, Copy(d, s, n)
      PROVE  IInv'
  <2>1. n \in Nat
    BY CapacityAssumption DEF CapacityAssumption
  <2> QED
    BY <1>5, <2>1, CopyInv
<1>6. CASE IntoChunk
  BY <1>6, IntoChunkInv
<1>7. CASE FromChunk
  BY <1>7, FromChunkInv
<1>8. CASE CopyChunk
  BY <1>8, CopyChunkInv
<1>9. CASE Return
  BY <1>9, ReturnInv
<1>10. CASE UNCHANGED vars
  BY <1>10 DEF vars, IInv, TypeOK, Accounting, Running, Free, Used
<1> QED
  BY <1>1, <1>2, <1>3, <1>4, <1>5, <1>6, <1>7, <1>8, <1>9, <1>10 DEF Next

LEMMA Invariant == Spec => []IInv
  BY InitInv, NextInv, PTL DEF Spec

\* The pointers stay inside the array: assert(bufend > head) and
\* assert(bufend > tail) hold in every loop (ringbuf.c:184, 213, 271, 323
\* and 325), for every capacity.
THEOREM TypeOKAlways == Spec => []TypeOK
<1>1. IInv => TypeOK
  BY DEF IInv
<1> QED
  BY <1>1, Invariant, PTL

\* Every byte is accounted for at any point of a call (the assertions at
\* ringbuf.c:282 and 339), and a call that saw no overflow never runs into
\* its own tail, for every capacity.
THEOREM AccountingAlways == Spec => []Accounting
<1>1. IInv => Accounting
  BY DEF IInv
<1> QED
  BY <1>1, Invariant, PTL

\* A call that overflowed leaves its buffer full (the assertions at
\* ringbuf.c:197, 226 and 343), for every capacity.
THEOREM FullAlways == Spec => FullAfterOverflow
<1> DEFINE Full == \A b \in Buffers :
                     kind /= "idle" /\ overflow /\ b = dst /\ kind' = "idle" => Free(b)' = 0
<1>1. IInv /\ [Next]_vars => [Full]_vars
  <2> SUFFICES ASSUME IInv, [Next]_vars, NEW b \in Buffers,
                      kind /= "idle", overflow, b = dst, kind' = "idle"
               PROVE  Free(b)' = 0
    BY DEF Full
  <2>1. Return
    BY DEF Next, vars, Reset, MemcpyInto, Read, Memset, MemcpyFrom, Write, Copy,
           IntoChunk, FromChunk, CopyChunk
  <2>2. tail' = [tail EXCEPT ![b] = Nextp(b, head[b])] /\ head' = head
    BY <2>1 DEF Return
  <2>3. Capacity[b] \in Nat /\ head[b] \in 0..Capacity[b] /\ b \in DOMAIN tail
    BY PointerTypes DEF IInv, TypeOK
  <2>4. tail'[b] = WrapOf(Capacity[b], head[b] + 1)
    BY <2>2, <2>3, WrapIsWrapOf DEF Nextp
  <2>5. FreeOf(Capacity[b], head'[b], tail'[b]) = 0
    BY <2>2, <2>3, <2>4, FullBuffer
  <2> QED
    BY <2>5 DEF Free, FreeOf
<1> QED
  BY <1>1, Invariant, PTL DEF Spec, FullAfterOverflow
-----------------------------------------------------------------------------
(* Runs of slots, as values: c is the capacity and m the array.            *)

\* The slot of the i-th byte from slot p on.
Slot(c, p, i) == IF p + i - 1 < c + 1 THEN p + i - 1 ELSE p + i - 1 - (c + 1)
RunOf(c, m, p, n) == [i \in 1..n |-> m[Slot(c, p, i)]]
Stored(m, h, bytes) ==
  [i \in DOMAIN m |-> IF i - h + 1 \in 1..Len(bytes) THEN bytes[i - h + 1] ELSE m[i]]

LEMMA SlotInArray ==
  ASSUME NEW c \in Nat, NEW p \in 0..c, NEW i \in 1..(c + 1)
  PROVE  Slot(c, p, i) \in 0..c
  BY DEF Slot

LEMMA RunType ==
  ASSUME NEW c \in Nat, NEW m \in [0..c -> Byte], NEW p \in 0..c, NEW n \in 0..(c + 1)
  PROVE  RunOf(c, m, p, n) \in Seq(Byte) /\ Len(RunOf(c, m, p, n)) = n
<1>1. \A i \in 1..n : Slot(c, p, i) \in 0..c
  BY SlotInArray
<1>2. RunOf(c, m, p, n) \in [1..n -> Byte]
  BY <1>1 DEF RunOf
<1> QED
  BY <1>2

\* The first k bytes of a run, and the rest of it.
LEMMA RunFirst ==
  ASSUME NEW c \in Nat, NEW m \in [0..c -> Byte], NEW p \in 0..c, NEW n \in 0..(c + 1),
         NEW k \in 0..n
  PROVE  SubSeq(RunOf(c, m, p, n), 1, k) = RunOf(c, m, p, k)
<1>1. RunOf(c, m, p, n) \in Seq(Byte) /\ Len(RunOf(c, m, p, n)) = n
  BY RunType
<1>2. RunOf(c, m, p, k) \in Seq(Byte) /\ Len(RunOf(c, m, p, k)) = k
  BY RunType
<1>3. \A i \in 1..k : RunOf(c, m, p, n)[i] = RunOf(c, m, p, k)[i]
  BY DEF RunOf
<1> QED
  BY <1>1, <1>2, <1>3

LEMMA RunRest ==
  ASSUME NEW c \in Nat, NEW m \in [0..c -> Byte], NEW p \in 0..c, NEW n \in 0..(c + 1),
         NEW k \in 0..n, p + k <= c + 1
  PROVE  SubSeq(RunOf(c, m, p, n), k + 1, n) = RunOf(c, m, WrapOf(c, p + k), n - k)
<1> DEFINE q == WrapOf(c, p + k)
<1>1. RunOf(c, m, p, n) \in Seq(Byte) /\ Len(RunOf(c, m, p, n)) = n
  BY RunType
<1>2. q \in 0..c
  BY DEF WrapOf
<1>3. RunOf(c, m, q, n - k) \in Seq(Byte) /\ Len(RunOf(c, m, q, n - k)) = n - k
  <2>1. n - k \in 0..(c + 1)
    OBVIOUS
  <2> HIDE DEF q
  <2> QED
    BY <1>2, <2>1, RunType
<1>4. \A i \in 1..(n - k) : Slot(c, p, k + i) = Slot(c, q, i)
  BY DEF WrapOf, Slot
<1> HIDE DEF q
<1>5. \A i \in 1..(n - k) : RunOf(c, m, p, n)[k + i] = RunOf(c, m, q, n - k)[i]
  BY <1>4 DEF RunOf
<1>6. /\ SubSeq(RunOf(c, m, p, n), k + 1, n) \in Seq(Byte)
      /\ Len(SubSeq(RunOf(c, m, p, n), k + 1, n)) = n - k
      /\ \A i \in 1..(n - k) : SubSeq(RunOf(c, m, p, n), k + 1, n)[i] = RunOf(c, m, p, n)[k + i]
  BY <1>1
<1>7. SubSeq(RunOf(c, m, p, n), k + 1, n) = RunOf(c, m, q, n - k)
  BY <1>3, <1>5, <1>6
<1> QED
  BY <1>7 DEF q

LEMMA SameBytes ==
  ASSUME NEW n \in Nat, NEW x \in Seq(Byte), NEW y \in Seq(Byte), Len(x) = n, Len(y) = n,
         \A i \in 1..n : x[i] = y[i]
  PROVE  x = y
  OBVIOUS

LEMMA JoinType ==
  ASSUME NEW x \in Seq(Byte), NEW y \in Seq(Byte)
  PROVE  x \o y \in Seq(Byte) /\ Len(x \o y) = Len(x) + Len(y)
  OBVIOUS

LEMMA Joined ==
  ASSUME NEW x \in Seq(Byte), NEW y \in Seq(Byte), NEW z \in Seq(Byte),
         Len(x) = Len(y) + Len(z),
         \A i \in 1..Len(y) : x[i] = y[i],
         \A i \in 1..Len(z) : x[Len(y) + i] = z[i]
  PROVE  x = y \o z
<1>1. y \o z \in Seq(Byte) /\ Len(y \o z) = Len(x)
  OBVIOUS
<1>2. ASSUME NEW i \in 1..Len(x) PROVE x[i] = (y \o z)[i]
  <2>1. CASE i <= Len(y)
    BY <2>1
  <2>2. CASE i > Len(y)
    <3>1. i - Len(y) \in 1..Len(z) /\ i = Len(y) + (i - Len(y))
      BY <2>2
    <3>2. x[i] = z[i - Len(y)]
      BY <3>1
    <3>3. (y \o z)[i] = z[i - Len(y)]
      BY <2>2
    <3> QED
      BY <3>2, <3>3
  <2> QED
    BY <2>1, <2>2
<1> QED
  BY <1>1, <1>2

LEMMA SplitAt ==
  ASSUME NEW s \in Seq(Byte), NEW j \in 0..Len(s)
  PROVE  s = SubSeq(s, 1, j) \o SubSeq(s, j + 1, Len(s))
<1> DEFINE y == SubSeq(s, 1, j)
           z == SubSeq(s, j + 1, Len(s))
<1>1. y \in Seq(Byte) /\ Len(y) = j /\ z \in Seq(Byte) /\ Len(z) = Len(s) - j
  BY Part
<1>2. (\A i \in 1..j : s[i] = y[i]) /\ (\A i \in 1..(Len(s) - j) : s[j + i] = z[i])
  OBVIOUS
<1> HIDE DEF y, z
<1>3. s = y \o z
  <2>1. Len(s) = Len(y) + Len(z)
    BY <1>1
  <2>2. \A i \in 1..Len(y) : s[i] = y[i]
    BY <1>1, <1>2
  <2>3. \A i \in 1..Len(z) : s[Len(y) + i] = z[i]
    BY <1>1, <1>2
  <2> QED
    BY <1>1, <2>1, <2>2, <2>3, Joined
<1> QED
  BY <1>3 DEF y, z

LEMMA RunSplit ==
  ASSUME NEW c \in Nat, NEW m \in [0..c -> Byte], NEW p \in 0..c, NEW n \in 0..(c + 1),
         NEW k \in 0..n, p + k <= c + 1
  PROVE  RunOf(c, m, p, n) = RunOf(c, m, p, k) \o RunOf(c, m, WrapOf(c, p + k), n - k)
<1>1. RunOf(c, m, p, n) \in Seq(Byte) /\ Len(RunOf(c, m, p, n)) = n
  BY RunType
<1>2. /\ SubSeq(RunOf(c, m, p, n), 1, k) = RunOf(c, m, p, k)
      /\ SubSeq(RunOf(c, m, p, n), k + 1, n) = RunOf(c, m, WrapOf(c, p + k), n - k)
  BY RunFirst, RunRest
<1>3. RunOf(c, m, p, n) = SubSeq(RunOf(c, m, p, n), 1, k) \o SubSeq(RunOf(c, m, p, n), k + 1, n)
  BY <1>1, SplitAt
<1> QED
  BY <1>2, <1>3

\* Bytes stored at the head of a buffer that has room come after its contents.
LEMMA StoreAppends ==
  ASSUME NEW c \in Nat, NEW m \in [0..c -> Byte], NEW h \in 0..c, NEW t \in 0..c,
         NEW bytes \in Seq(Byte), h + Len(bytes) <= c + 1, Len(bytes) <= FreeOf(c, h, t)
  PROVE  RunOf(c, Stored(m, h, bytes), t, c - FreeOf(c, h, t) + Len(bytes))
           = RunOf(c, m, t, c - FreeOf(c, h, t)) \o bytes
<1> DEFINE u == c - FreeOf(c, h, t)
           n == Len(bytes)
           new == Stored(m, h, bytes)
<1>1. u \in 0..c /\ n \in Nat /\ u + n \in 0..c
  BY DEF FreeOf
<1>2. new \in [0..c -> Byte] /\ \A i \in 0..c :
        new[i] = IF i - h + 1 \in 1..n THEN bytes[i - h + 1] ELSE m[i]
  BY DEF Stored
<1>3. \A i \in 1..u : Slot(c, t, i) \in 0..c /\ Slot(c, t, i) - h + 1 \notin 1..n
  BY DEF Slot, FreeOf
<1>4. \A i \in 1..n : Slot(c, t, u + i) \in 0..c /\ Slot(c, t, u + i) - h + 1 = i
  BY DEF Slot, FreeOf
<1> HIDE DEF new, u, n
<1>5. \A i \in 1..u : new[Slot(c, t, i)] = m[Slot(c, t, i)]
  BY <1>2, <1>3
<1>6. \A i \in 1..n : new[Slot(c, t, u + i)] = bytes[i]
  BY <1>1, <1>2, <1>4
<1>0. u \in 0..(c + 1) /\ u + n \in 0..(c + 1)
  BY <1>1
<1>7. RunOf(c, new, t, u + n) \in Seq(Byte) /\ Len(RunOf(c, new, t, u + n)) = u + n
  BY <1>0, <1>2, RunType
<1>8. RunOf(c, m, t, u) \in Seq(Byte) /\ Len(RunOf(c, m, t, u)) = u
  BY <1>0, RunType
<1>9. \A i \in 1..u : RunOf(c, new, t, u + n)[i] = RunOf(c, m, t, u)[i]
  BY <1>1, <1>5 DEF RunOf
<1>10. \A i \in 1..n : RunOf(c, new, t, u + n)[u + i] = bytes[i]
  BY <1>1, <1>6 DEF RunOf
<1>11. RunOf(c, new, t, u + n) = RunOf(c, m, t, u) \o bytes
  <2>1. /\ Len(bytes) = n
        /\ Len(RunOf(c, new, t, u + n)) = Len(RunOf(c, m, t, u)) + Len(bytes)
    BY <1>7, <1>8 DEF n
  <2>2. \A i \in 1..Len(RunOf(c, m, t, u)) : RunOf(c, new, t, u + n)[i] = RunOf(c, m, t, u)[i]
    BY <1>8, <1>9
  <2>3. \A i \in 1..Len(bytes) : RunOf(c, new, t, u + n)[Len(RunOf(c, m, t, u)) + i] = bytes[i]
    BY <1>8, <1>10, <2>1
  <2> QED
    BY <1>7, <1>8, <2>1, <2>2, <2>3, Joined
<1> QED
  BY <1>11 DEF new, u, n

\* The last bytes of a sequence.
LEMMA LastIs ==
  ASSUME NEW n \in Nat, NEW s \in Seq(Byte), n <= Len(s)
  PROVE  /\ LastBytes(n, s) \in Seq(Byte) /\ Len(LastBytes(n, s)) = n
         /\ \A i \in 1..n : LastBytes(n, s)[i] = s[Len(s) - n + i]
<1>1. CASE Len(s) = n
  BY <1>1 DEF LastBytes
<1>2. CASE Len(s) > n
  <2>1. LastBytes(n, s) = SubSeq(s, Len(s) - n + 1, Len(s))
    BY <1>2 DEF LastBytes
  <2> QED
    BY <1>2, <2>1
<1> QED
  BY <1>1, <1>2

LEMMA LastIsAll ==
  ASSUME NEW n \in Nat, NEW s \in Seq(Byte), Len(s) <= n
  PROVE  LastBytes(n, s) = s
  BY DEF LastBytes

\* What precedes the last n bytes does not matter.
LEMMA LastOfRest ==
  ASSUME NEW n \in Nat, NEW x \in Seq(Byte), NEW y \in Seq(Byte), NEW k \in 0..Len(x),
         n <= Len(x) - k + Len(y)
  PROVE  LastBytes(n, SubSeq(x, k + 1, Len(x)) \o y) = LastBytes(n, x \o y)
<1> DEFINE r == SubSeq(x, k + 1, Len(x))
           z == r \o y
           w == x \o y
<1>1. r \in Seq(Byte) /\ Len(r) = Len(x) - k /\ \A j \in 1..Len(r) : r[j] = x[k + j]
  OBVIOUS
<1>2. w \in Seq(Byte) /\ Len(w) = Len(x) + Len(y)
  OBVIOUS
<1> HIDE DEF r
<1>3. z \in Seq(Byte) /\ Len(z) = Len(x) - k + Len(y)
  <2>1. r \in Seq(Byte) /\ Len(r) = Len(x) - k
    BY <1>1
  <2>2. z \in Seq(Byte) /\ Len(z) = Len(r) + Len(y)
    BY <2>1, JoinType
  <2> QED
    BY <2>1, <2>2
<1>4. ASSUME NEW j \in 1..Len(z) PROVE z[j] = w[k + j]
  <2>1. CASE j <= Len(r)
    BY <1>1, <2>1
  <2>2. CASE j > Len(r)
    <3>1. z[j] = y[j - Len(r)]
      BY <1>1, <1>3, <2>2
    <3>2. w[k + j] = y[k + j - Len(x)]
      BY <1>1, <1>3, <2>2
    <3>3. k + j - Len(x) = j - Len(r)
      BY <1>1
    <3> QED
      BY <3>1, <3>2, <3>3
  <2> QED
    BY <2>1, <2>2, <1>1
<1> HIDE DEF z, w
<1>5. /\ LastBytes(n, z) \in Seq(Byte) /\ Len(LastBytes(n, z)) = n
      /\ \A i \in 1..n : LastBytes(n, z)[i] = z[Len(z) - n + i]
  BY <1>3, LastIs
<1>6. /\ LastBytes(n, w) \in Seq(Byte) /\ Len(LastBytes(n, w)) = n
      /\ \A i \in 1..n : LastBytes(n, w)[i] = w[Len(w) - n + i]
  <2>1. n <= Len(w)
    BY <1>2
  <2> QED
    BY <1>2, <2>1, LastIs
<1>7. ASSUME NEW i \in 1..n PROVE LastBytes(n, z)[i] = LastBytes(n, w)[i]
  <2>1. Len(z) - n + i \in 1..Len(z) /\ k + (Len(z) - n + i) = Len(w) - n + i
    BY <1>2, <1>3
  <2>2. z[Len(z) - n + i] = w[k + (Len(z) - n + i)]
    BY <1>4, <2>1
  <2> QED
    BY <1>5, <1>6, <2>1, <2>2
<1>8. LastBytes(n, z) = LastBytes(n, w)
  BY <1>5, <1>6, <1>7
<1> QED
  BY <1>8 DEF z, w, r

LEMMA LastOfLast ==
  ASSUME NEW n \in Nat, NEW x \in Seq(Byte), NEW y \in Seq(Byte)
  PROVE  LastBytes(n, LastBytes(n, x) \o y) = LastBytes(n, x \o y)
<1>1. CASE Len(x) <= n
  BY <1>1 DEF LastBytes
<1>2. CASE Len(x) > n
  <2> DEFINE k == Len(x) - n
  <2>1. LastBytes(n, x) = SubSeq(x, k + 1, Len(x))
    BY <1>2 DEF LastBytes
  <2>2. k \in 0..Len(x) /\ n <= Len(x) - k + Len(y)
    BY <1>2
  <2> HIDE DEF k
  <2> QED
    BY <2>1, <2>2, LastOfRest
<1> QED
  BY <1>1, <1>2

\* Bytes stored at the head of a full buffer push out the oldest ones.
LEMMA StorePushes ==
  ASSUME NEW c \in Nat, NEW m \in [0..c -> Byte], NEW h \in 0..c,
         NEW bytes \in Seq(Byte), h + Len(bytes) <= c + 1
  PROVE  RunOf(c, Stored(m, h, bytes), WrapOf(c, WrapOf(c, h + Len(bytes)) + 1), c)
           = LastBytes(c, RunOf(c, m, WrapOf(c, h + 1), c) \o bytes)
<1> DEFINE n == Len(bytes)
           new == Stored(m, h, bytes)
           p == WrapOf(c, h + 1)
           q == WrapOf(c, WrapOf(c, h + n) + 1)
           old == RunOf(c, m, p, c)
<1>1. n \in Nat /\ p \in 0..c /\ q \in 0..c /\ c \in 0..(c + 1)
  BY DEF WrapOf
<1>2. new \in [0..c -> Byte] /\ \A i \in 0..c :
        new[i] = IF i - h + 1 \in 1..n THEN bytes[i - h + 1] ELSE m[i]
  BY DEF Stored
<1>5. Len(bytes) = n /\ h + n <= c + 1
  OBVIOUS
<1>p. c > 0 => /\ p = IF h = c THEN 0 ELSE h + 1
               /\ q = IF h + n >= c THEN h + n - c ELSE h + n + 1
  <2>1. c > 0 => p = IF h = c THEN 0 ELSE h + 1
    BY DEF WrapOf
  <2>2. CASE h + n < c
    <3>1. WrapOf(c, h + n) = h + n /\ WrapOf(c, h + n + 1) = h + n + 1
      BY <1>1, <2>2 DEF WrapOf
    <3> QED
      BY <1>1, <2>1, <2>2, <3>1
  <2>3. CASE h + n = c
    <3>1. WrapOf(c, h + n) = h + n /\ WrapOf(c, h + n + 1) = 0
      BY <1>1, <2>3 DEF WrapOf
    <3> QED
      BY <1>1, <2>1, <2>3, <3>1
  <2>4. CASE h + n = c + 1
    <3>1. WrapOf(c, h + n) = 0 /\ (c > 0 => WrapOf(c, 0 + 1) = 1)
      BY <1>1, <2>4 DEF WrapOf
    <3> QED
      BY <1>1, <2>1, <2>4, <3>1
  <2> QED
    BY <1>1, <1>5, <2>2, <2>3, <2>4
<1> HIDE DEF new, p, q, n
\* Seen from behind the head, a slot that is not written, and one that is.
<1>3. ASSUME NEW i \in 1..c, n + i <= c
      PROVE  /\ Slot(c, q, i) = Slot(c, p, n + i)
             /\ Slot(c, q, i) \in 0..c
             /\ ~(Slot(c, q, i) - h + 1 \in 1..n)
  <2>1. c > 0
    OBVIOUS
  <2>2. Slot(c, q, i) = IF h + n + i <= c THEN h + n + i ELSE h + n + i - (c + 1)
    BY <1>1, <1>3, <1>5, <1>p, <2>1 DEF Slot
  <2>3. Slot(c, p, n + i) = IF h + n + i <= c THEN h + n + i ELSE h + n + i - (c + 1)
    BY <1>1, <1>3, <1>5, <1>p, <2>1 DEF Slot
  <2>4. Slot(c, q, i) \in 0..c /\ ~(Slot(c, q, i) - h + 1 \in 1..n)
    BY <1>1, <1>3, <1>5, <2>2
  <2> QED
    BY <2>2, <2>3, <2>4
<1>4. ASSUME NEW i \in 1..c, n + i > c
      PROVE  /\ Slot(c, q, i) \in 0..c
             /\ Slot(c, q, i) - h + 1 = n + i - c
             /\ n + i - c \in 1..n
  <2>1. c > 0
    OBVIOUS
  <2>2. Slot(c, q, i) = h + n + i - (c + 1)
    BY <1>1, <1>4, <1>5, <1>p, <2>1 DEF Slot
  <2> QED
    BY <1>1, <1>4, <1>5, <2>2
<1>6. old \in Seq(Byte) /\ Len(old) = c /\ \A i \in 1..c : old[i] = m[Slot(c, p, i)]
  BY <1>1, RunType DEF RunOf
<1>7. /\ RunOf(c, new, q, c) \in Seq(Byte) /\ Len(RunOf(c, new, q, c)) = c
      /\ \A i \in 1..c : RunOf(c, new, q, c)[i] = new[Slot(c, q, i)]
  <2>1. new \in [0..c -> Byte]
    BY <1>2
  <2>2. RunOf(c, new, q, c) \in Seq(Byte) /\ Len(RunOf(c, new, q, c)) = c
    BY <1>1, <2>1, RunType
  <2>3. \A i \in 1..c : RunOf(c, new, q, c)[i] = new[Slot(c, q, i)]
    BY DEF RunOf
  <2> QED
    BY <2>2, <2>3
<1> HIDE DEF old
<1> DEFINE w == old \o bytes
<1>8. w \in Seq(Byte) /\ Len(w) = c + n
  BY <1>5, <1>6
<1>9. ASSUME NEW i \in 1..c PROVE new[Slot(c, q, i)] = w[n + i]
  <2>1. CASE n + i <= c
    <3>1. w[n + i] = m[Slot(c, p, n + i)]
      BY <1>1, <1>6, <2>1
    <3> QED
      BY <1>2, <1>3, <2>1, <3>1
  <2>2. CASE n + i > c
    <3>1. w[n + i] = bytes[n + i - c]
      BY <1>1, <1>5, <1>6, <2>2
    <3> QED
      BY <1>2, <1>4, <2>2, <3>1
  <2>3. n + i <= c \/ n + i > c
    BY <1>1
  <2> QED
    BY <2>1, <2>2, <2>3
<1> HIDE DEF w
<1>10. /\ LastBytes(c, w) \in Seq(Byte) /\ Len(LastBytes(c, w)) = c
       /\ \A i \in 1..c : LastBytes(c, w)[i] = w[n + i]
  <2>1. c <= Len(w) /\ \A i \in 1..c : Len(w) - c + i = n + i
    BY <1>1, <1>8
  <2> QED
    <3>1. /\ LastBytes(c, w) \in Seq(Byte) /\ Len(LastBytes(c, w)) = c
          /\ \A i \in 1..c : LastBytes(c, w)[i] = w[Len(w) - c + i]
      BY <1>8, <2>1, LastIs
    <3> QED
      BY <2>1, <3>1
<1>11. RunOf(c, new, q, c) = LastBytes(c, w)
  BY <1>7, <1>9, <1>10
<1> QED
  BY <1>11 DEF new, p, q, n, w, old

\* The contents are the last bytes of the array, seen from behind the head.
LEMMA ContentsAreLast ==
  ASSUME NEW c \in Nat, NEW m \in [0..c -> Byte], NEW h \in 0..c, NEW t \in 0..c
  PROVE  RunOf(c, m, t, c - FreeOf(c, h, t))
           = SubSeq(RunOf(c, m, WrapOf(c, h + 1), c), FreeOf(c, h, t) + 1, c)
<1> DEFINE f == FreeOf(c, h, t)
           p == WrapOf(c, h + 1)
           old == RunOf(c, m, p, c)
<1>1. f \in 0..c /\ p \in 0..c /\ c \in 0..(c + 1) /\ c - f \in 0..(c + 1)
  BY DEF FreeOf, WrapOf
<1>2. \A i \in 1..(c - f) : Slot(c, t, i) = Slot(c, p, f + i)
  BY DEF Slot, FreeOf, WrapOf
<1> HIDE DEF f, p
<1>3. old \in Seq(Byte) /\ Len(old) = c /\ \A i \in 1..c : old[i] = m[Slot(c, p, i)]
  BY <1>1, RunType DEF RunOf
<1>4. /\ RunOf(c, m, t, c - f) \in Seq(Byte) /\ Len(RunOf(c, m, t, c - f)) = c - f
      /\ \A i \in 1..(c - f) : RunOf(c, m, t, c - f)[i] = m[Slot(c, t, i)]
  BY <1>1, RunType DEF RunOf
<1> HIDE DEF old
<1>5. /\ SubSeq(old, f + 1, c) \in Seq(Byte) /\ Len(SubSeq(old, f + 1, c)) = c - f
      /\ \A i \in 1..(c - f) : SubSeq(old, f + 1, c)[i] = old[f + i]
  BY <1>1, <1>3
<1>6. \A i \in 1..(c - f) : old[f + i] = m[Slot(c, t, i)]
  BY <1>1, <1>2, <1>3
<1>7. RunOf(c, m, t, c - f) = SubSeq(old, f + 1, c)
  <2>1. c - f \in Nat
    BY <1>1
  <2>2. \A i \in 1..(c - f) : RunOf(c, m, t, c - f)[i] = SubSeq(old, f + 1, c)[i]
    BY <1>4, <1>5, <1>6
  <2> QED
    BY <1>4, <1>5, <2>1, <2>2, SameBytes
<1> QED
  BY <1>7 DEF f, p, old

\* A call that overflows need not look at where the contents begin.
LEMMA OverflowForgets ==
  ASSUME NEW c \in Nat, NEW m \in [0..c -> Byte], NEW h \in 0..c, NEW t \in 0..c,
         NEW bytes \in Seq(Byte), Len(bytes) >= FreeOf(c, h, t)
  PROVE  LastBytes(c, RunOf(c, m, t, c - FreeOf(c, h, t)) \o bytes)
           = LastBytes(c, RunOf(c, m, WrapOf(c, h + 1), c) \o bytes)
<1> DEFINE f == FreeOf(c, h, t)
           old == RunOf(c, m, WrapOf(c, h + 1), c)
<1>1. f \in 0..c /\ WrapOf(c, h + 1) \in 0..c /\ c \in 0..(c + 1) /\ Len(bytes) >= f
  BY DEF FreeOf, WrapOf
<1>2. old \in Seq(Byte) /\ Len(old) = c
  BY <1>1, RunType
<1>3. RunOf(c, m, t, c - f) = SubSeq(old, f + 1, Len(old))
  BY <1>2, ContentsAreLast
<1> HIDE DEF f, old
<1>4. f \in 0..Len(old) /\ c <= Len(old) - f + Len(bytes)
  BY <1>1, <1>2
<1>5. LastBytes(c, SubSeq(old, f + 1, Len(old)) \o bytes) = LastBytes(c, old \o bytes)
  BY <1>2, <1>4, LastOfRest
<1>6. LastBytes(c, RunOf(c, m, t, c - f) \o bytes) = LastBytes(c, old \o bytes)
  BY <1>3, <1>5
<1> QED
  BY <1>6 DEF f, old
-----------------------------------------------------------------------------
(* The same for the buffers of the state.                                  *)

LEMMA BytesIsRun ==
  ASSUME NEW b, NEW p, NEW n
  PROVE  Bytes(b, p, n) = RunOf(Capacity[b], mem[b], p, n)
  BY DEF Bytes, RunOf, Slot, Size

LEMMA StateRuns ==
  ASSUME NEW b
  PROVE  /\ Contents(b) = RunOf(Capacity[b], mem[b], tail[b],
                               Capacity[b] - FreeOf(Capacity[b], head[b], tail[b]))
         /\ Contents(b)' = RunOf(Capacity[b], mem'[b], tail'[b],
                                Capacity[b] - FreeOf(Capacity[b], head'[b], tail'[b]))
         /\ Before(b) = RunOf(Capacity[b], mem[b], WrapOf(Capacity[b], head[b] + 1), Capacity[b])
         /\ Before(b)' = RunOf(Capacity[b], mem'[b], WrapOf(Capacity[b], head'[b] + 1), Capacity[b])
  BY DEF Contents, Before, Bytes, RunOf, Slot, Size, Used, Free, FreeOf, Nextp, Wrap, WrapOf

LEMMA BufferTypes ==
  ASSUME TypeOK, NEW b \in Buffers
  PROVE  /\ Capacity[b] \in Nat /\ head[b] \in 0..Capacity[b] /\ tail[b] \in 0..Capacity[b]
         /\ mem[b] \in [0..Capacity[b] -> Byte]
         /\ FreeOf(Capacity[b], head[b], tail[b]) \in 0..Capacity[b]
         /\ Used(b) = Capacity[b] - FreeOf(Capacity[b], head[b], tail[b])
<1>1. Capacity[b] \in Nat /\ head[b] \in 0..Capacity[b] /\ tail[b] \in 0..Capacity[b]
  BY PointerTypes
<1>2. mem[b] \in [0..Capacity[b] -> Byte]
  BY DEF TypeOK
<1> QED
  BY <1>1, <1>2, FreeIsFreeOf, FreeBounds

LEMMA RunTypes ==
  ASSUME TypeOK, NEW b \in Buffers
  PROVE  /\ Contents(b) \in Seq(Byte) /\ Len(Contents(b)) = Used(b)
         /\ Before(b) \in Seq(Byte) /\ Len(Before(b)) = Capacity[b]
<1> DEFINE c == Capacity[b]
           u == Capacity[b] - FreeOf(Capacity[b], head[b], tail[b])
           p == WrapOf(c, head[b] + 1)
<1>1. /\ c \in Nat /\ head[b] \in 0..c /\ tail[b] \in 0..c /\ mem[b] \in [0..c -> Byte]
      /\ u \in 0..(c + 1) /\ c \in 0..(c + 1) /\ Used(b) = u
  BY BufferTypes
<1>2. p \in 0..c
  BY <1>1 DEF WrapOf
<1>3. Contents(b) = RunOf(c, mem[b], tail[b], u) /\ Before(b) = RunOf(c, mem[b], p, c)
  BY StateRuns
<1> HIDE DEF c, u, p
<1>4. RunOf(c, mem[b], tail[b], u) \in Seq(Byte) /\ Len(RunOf(c, mem[b], tail[b], u)) = u
  BY <1>1, RunType
<1>5. RunOf(c, mem[b], p, c) \in Seq(Byte) /\ Len(RunOf(c, mem[b], p, c)) = c
  BY <1>1, <1>2, RunType
<1> QED
  BY <1>1, <1>3, <1>4, <1>5 DEF c

LEMMA JoinAgain ==
  ASSUME NEW x \in Seq(Byte), NEW y \in Seq(Byte), NEW z \in Seq(Byte)
  PROVE  (x \o y) \o z = x \o (y \o z)
  OBVIOUS

LEMMA SameBuffer ==
  ASSUME NEW b, mem'[b] = mem[b], head'[b] = head[b], tail'[b] = tail[b]
  PROVE  Contents(b)' = Contents(b) /\ Before(b)' = Before(b) /\ Used(b)' = Used(b)
  BY StateRuns DEF Used, Free

\* Writing a part of the bytes, with the rest to come.
LEMMA StoreEffect ==
  ASSUME TypeOK, NEW b \in Buffers, NEW bytes \in Seq(Byte),
         Len(bytes) <= ToEnd(b, head[b]), Store(b, bytes)
  PROVE  /\ \A a \in Buffers : a /= b => mem'[a] = mem[a] /\ head'[a] = head[a]
         /\ Before(b)' = LastBytes(Capacity[b], Before(b) \o bytes)
         /\ tail'[b] = tail[b] /\ Len(bytes) <= Free(b) => Contents(b)' = Contents(b) \o bytes
<1> DEFINE c == Capacity[b]
           f == FreeOf(c, head[b], tail[b])
<1>1. /\ c \in Nat /\ head[b] \in 0..c /\ tail[b] \in 0..c /\ mem[b] \in [0..c -> Byte]
      /\ f \in 0..c
  BY BufferTypes
<1>s. head[b] + Len(bytes) <= c + 1 /\ Len(bytes) \in Nat
  BY <1>1 DEF ToEnd, Size
<1>2. mem' = [mem EXCEPT ![b] = Stored(mem[b], head[b], bytes)]
  BY DEF Store, Stored
<1>3. head' = [head EXCEPT ![b] = WrapOf(c, head[b] + Len(bytes))]
  BY StoreMoves
<1>4. /\ mem'[b] = Stored(mem[b], head[b], bytes) /\ head'[b] = WrapOf(c, head[b] + Len(bytes))
      /\ \A a \in Buffers : a /= b => mem'[a] = mem[a] /\ head'[a] = head[a]
  BY <1>2, <1>3 DEF TypeOK
<1>5. Before(b)' = LastBytes(c, Before(b) \o bytes)
  <2>1. RunOf(c, Stored(mem[b], head[b], bytes), WrapOf(c, WrapOf(c, head[b] + Len(bytes)) + 1), c)
          = LastBytes(c, RunOf(c, mem[b], WrapOf(c, head[b] + 1), c) \o bytes)
    BY <1>1, <1>s, StorePushes
  <2>2. Before(b) = RunOf(c, mem[b], WrapOf(c, head[b] + 1), c)
        /\ Before(b)' = RunOf(c, mem'[b], WrapOf(c, head'[b] + 1), c)
    BY StateRuns
  <2> QED
    BY <1>4, <2>1, <2>2
<1>6. ASSUME tail'[b] = tail[b], Len(bytes) <= Free(b)
      PROVE  Contents(b)' = Contents(b) \o bytes
  <2>1. Len(bytes) <= f
    BY <1>6, FreeIsFreeOf
  <2>2. FreeOf(c, WrapOf(c, head[b] + Len(bytes)), tail[b]) = f - Len(bytes)
    BY <1>1, <1>s, <2>1, HeadMoves
  <2>3. c - FreeOf(c, head'[b], tail'[b]) = c - f + Len(bytes)
    BY <1>1, <1>4, <1>6, <1>s, <2>2
  <2>4. RunOf(c, Stored(mem[b], head[b], bytes), tail[b], c - f + Len(bytes))
          = RunOf(c, mem[b], tail[b], c - f) \o bytes
    BY <1>1, <1>s, <2>1, StoreAppends
  <2>5. Contents(b)' = RunOf(c, mem'[b], tail'[b], c - FreeOf(c, head'[b], tail'[b]))
        /\ Contents(b) = RunOf(c, mem[b], tail[b], c - f)
    BY StateRuns
  <2> QED
    BY <1>4, <1>6, <2>3, <2>4, <2>5
<1> QED
  BY <1>4, <1>5, <1>6

LEMMA WritingGoesOn ==
  ASSUME TypeOK, NEW b \in Buffers, NEW bytes \in Seq(Byte), NEW rest \in Seq(Byte),
         Len(bytes) <= ToEnd(b, head[b]), Store(b, bytes), tail'[b] = tail[b]
  PROVE  /\ LastBytes(Capacity[b], Before(b)' \o rest)
               = LastBytes(Capacity[b], Before(b) \o (bytes \o rest))
         /\ Len(bytes) <= Free(b) =>
               LastBytes(Capacity[b], Contents(b)' \o rest)
                 = LastBytes(Capacity[b], Contents(b) \o (bytes \o rest))
<1>1. Contents(b) \in Seq(Byte) /\ Before(b) \in Seq(Byte) /\ Capacity[b] \in Nat
  BY RunTypes, PointerTypes
<1>2. /\ Before(b)' = LastBytes(Capacity[b], Before(b) \o bytes)
      /\ Len(bytes) <= Free(b) => Contents(b)' = Contents(b) \o bytes
  BY StoreEffect
<1>3. /\ Before(b) \o bytes \in Seq(Byte)
      /\ (Before(b) \o bytes) \o rest = Before(b) \o (bytes \o rest)
      /\ (Contents(b) \o bytes) \o rest = Contents(b) \o (bytes \o rest)
  <2>1. \A x \in Seq(Byte) : x \o bytes \in Seq(Byte) /\ (x \o bytes) \o rest = x \o (bytes \o rest)
    BY JoinType, JoinAgain
  <2> QED
    BY <1>1, <2>1
<1>4. LastBytes(Capacity[b], LastBytes(Capacity[b], Before(b) \o bytes) \o rest)
        = LastBytes(Capacity[b], (Before(b) \o bytes) \o rest)
  BY <1>1, <1>3, LastOfLast
<1> QED
  BY <1>2, <1>3, <1>4

\* Reading: what is read and what is left were the contents.
LEMMA ConsumeEffect ==
  ASSUME TypeOK, NEW b \in Buffers, NEW n \in Nat, n <= ToEnd(b, tail[b]), n <= Used(b),
         Consume(b, n), mem'[b] = mem[b], head'[b] = head[b]
  PROVE  /\ \A a \in Buffers : a /= b => tail'[a] = tail[a]
         /\ Used(b)' = Used(b) - n
         /\ Contents(b)' = SubSeq(Contents(b), n + 1, Used(b))
         /\ \A k \in n..Used(b) :
               RunOf(Capacity[b], mem[b], tail[b], k)
                 = RunOf(Capacity[b], mem[b], tail[b], n)
                     \o RunOf(Capacity[b], mem'[b], tail'[b], k - n)
<1> DEFINE c == Capacity[b]
           f == FreeOf(c, head[b], tail[b])
<1>0. /\ c \in Nat /\ head[b] \in 0..c /\ tail[b] \in 0..c /\ mem[b] \in [0..c -> Byte]
      /\ f \in 0..c /\ Used(b) = c - f
  BY BufferTypes
<1>1. /\ c \in Nat /\ head[b] \in 0..c /\ tail[b] \in 0..c /\ mem[b] \in [0..c -> Byte]
      /\ tail[b] + n <= c + 1 /\ f \in 0..c /\ Used(b) = c - f /\ Used(b) \in 0..c
  BY <1>0 DEF ToEnd, Size
<1>2. tail' = [tail EXCEPT ![b] = WrapOf(c, tail[b] + n)]
  BY ConsumeMoves
<1>3. /\ tail'[b] = WrapOf(c, tail[b] + n)
      /\ \A a \in Buffers : a /= b => tail'[a] = tail[a]
  BY <1>2 DEF TypeOK
<1>4. Used(b)' = Used(b) - n
  BY <1>2, TailRoom
<1>5. FreeOf(c, head'[b], tail'[b]) = f + n
  <2>1. n <= c - f => FreeOf(c, head[b], WrapOf(c, tail[b] + n)) = f + n
    BY <1>1, TailMoves
  <2> QED
    BY <1>1, <1>3, <2>1
<1>6. Contents(b)' = SubSeq(Contents(b), n + 1, Used(b))
  <2>1. Contents(b) = RunOf(c, mem[b], tail[b], c - f)
        /\ Contents(b)' = RunOf(c, mem'[b], tail'[b], c - FreeOf(c, head'[b], tail'[b]))
    BY StateRuns
  <2>2. c - FreeOf(c, head'[b], tail'[b]) = (c - f) - n
    BY <1>1, <1>5
  <2>3. c - f \in 0..(c + 1) /\ n \in 0..(c - f)
    BY <1>1
  <2> HIDE DEF c, f
  <2>4. SubSeq(RunOf(c, mem[b], tail[b], c - f), n + 1, c - f)
          = RunOf(c, mem[b], WrapOf(c, tail[b] + n), (c - f) - n)
    BY <1>1, <2>3, RunRest
  <2> QED
    BY <1>1, <1>3, <2>1, <2>2, <2>4
<1>7. ASSUME NEW k \in n..Used(b)
      PROVE  RunOf(c, mem[b], tail[b], k) = RunOf(c, mem[b], tail[b], n) \o RunOf(c, mem'[b], tail'[b], k - n)
  <2>1. k \in 0..(c + 1) /\ n \in 0..k
    BY <1>1
  <2> HIDE DEF c
  <2>2. RunOf(c, mem[b], tail[b], k)
          = RunOf(c, mem[b], tail[b], n) \o RunOf(c, mem[b], WrapOf(c, tail[b] + n), k - n)
    BY <1>1, <2>1, RunSplit
  <2> QED
    BY <1>3, <2>2
<1> QED
  BY <1>3, <1>4, <1>6, <1>7
-----------------------------------------------------------------------------
(* The queue of the specification.                                         *)

\* The local overflow of a call is forgotten when the call returns.
Forgotten == kind \in {"idle", "from"} => ~overflow

LEMMA ForgottenStep == Forgotten /\ [Next]_vars => Forgotten'
  BY DEF Forgotten, Next, vars, call, Reset, MemcpyInto, Read, Memset, MemcpyFrom, Write, Copy,
         IntoChunk, FromChunk, CopyChunk, Return

LEMMA ForgottenAlways == Spec => []Forgotten
<1>1. Init => Forgotten
  BY DEF Init, Forgotten
<1> QED
  BY <1>1, ForgottenStep, PTL DEF Spec

LEMMA FifoSame ==
  ASSUME \A b \in Buffers : Queue(b)' = Queue(b), Given' = Given
  PROVE  UNCHANGED Fifo!vars
  BY DEF Fifo!vars, Queues

LEMMA FifoEmpty ==
  ASSUME NEW b \in Buffers, Queue(b)' = <<>>,
         \A a \in Buffers : a /= b => Queue(a)' = Queue(a), Given' = <<>>
  PROVE  Fifo!Empty(b)
  BY DEF Fifo!Empty, Queues

LEMMA FifoPut ==
  ASSUME NEW b \in Buffers, NEW bytes,
         Queue(b)' = LastBytes(Capacity[b], Queue(b) \o bytes),
         \A a \in Buffers : a /= b => Queue(a)' = Queue(a), Given' = <<>>
  PROVE  Fifo!Put(b, bytes)
  BY DEF Fifo!Put, Queues, Fifo!LastBytes, LastBytes

LEMMA FifoTake ==
  ASSUME NEW b \in Buffers, NEW n \in Nat, n <= Len(Queue(b)),
         Queue(b)' = SubSeq(Queue(b), n + 1, Len(Queue(b))),
         \A a \in Buffers : a /= b => Queue(a)' = Queue(a), Given' = SubSeq(Queue(b), 1, n)
  PROVE  Fifo!Take(b, n)
  BY DEF Fifo!Take, Queues

LEMMA FifoMove ==
  ASSUME NEW d \in Buffers, NEW s \in Buffers, d /= s, NEW n \in Nat, n <= Len(Queue(s)),
         Queue(s)' = SubSeq(Queue(s), n + 1, Len(Queue(s))),
         Queue(d)' = LastBytes(Capacity[d], Queue(d) \o SubSeq(Queue(s), 1, n)),
         \A a \in Buffers : a /= d /\ a /= s => Queue(a)' = Queue(a), Given' = <<>>
  PROVE  Fifo!Move(d, s, n)
  BY DEF Fifo!Move, Queues, Fifo!LastBytes, LastBytes

\* Between calls the queue is what the array holds.
LEMMA IdleQueues ==
  /\ kind = "idle" => (\A b \in Buffers : Queue(b) = Contents(b)) /\ Given = given
  /\ kind' = "idle" => (\A b \in Buffers : Queue(b)' = Contents(b)') /\ Given' = given'
  BY DEF Queue, Given

LEMMA OverflowOrNot ==
  ASSUME TypeOK, NEW b \in Buffers, NEW bytes \in Seq(Byte)
  PROVE  LastBytes(Capacity[b], (IF Len(bytes) > Free(b) THEN Before(b) ELSE Contents(b)) \o bytes)
           = LastBytes(Capacity[b], Contents(b) \o bytes)
<1>1. CASE Len(bytes) > Free(b)
  <2> DEFINE c == Capacity[b]
             f == FreeOf(c, head[b], tail[b])
  <2>1. /\ c \in Nat /\ head[b] \in 0..c /\ tail[b] \in 0..c /\ mem[b] \in [0..c -> Byte]
        /\ f \in 0..c
    BY BufferTypes
  <2>2. Len(bytes) >= f
    BY <1>1, <2>1, FreeIsFreeOf
  <2>3. LastBytes(c, RunOf(c, mem[b], tail[b], c - f) \o bytes)
          = LastBytes(c, RunOf(c, mem[b], WrapOf(c, head[b] + 1), c) \o bytes)
    BY <2>1, <2>2, OverflowForgets
  <2>4. /\ Contents(b) = RunOf(c, mem[b], tail[b], c - f)
        /\ Before(b) = RunOf(c, mem[b], WrapOf(c, head[b] + 1), c)
    BY StateRuns
  <2> QED
    BY <1>1, <2>3, <2>4
<1>2. CASE ~(Len(bytes) > Free(b))
  BY <1>2
<1> QED
  BY <1>1, <1>2

LEMMA FirstBytes ==
  ASSUME TypeOK, NEW b \in Buffers, NEW n \in Nat, n <= Used(b)
  PROVE  SubSeq(Contents(b), 1, n) = RunOf(Capacity[b], mem[b], tail[b], n)
<1> DEFINE c == Capacity[b]
           u == Capacity[b] - FreeOf(Capacity[b], head[b], tail[b])
<1>1. /\ c \in Nat /\ tail[b] \in 0..c /\ mem[b] \in [0..c -> Byte]
      /\ u \in 0..(c + 1) /\ Used(b) = u
  BY BufferTypes
<1>2. Contents(b) = RunOf(c, mem[b], tail[b], u)
  BY StateRuns
<1> HIDE DEF c, u
<1>3. n \in 0..u
  BY <1>1
<1>4. SubSeq(RunOf(c, mem[b], tail[b], u), 1, n) = RunOf(c, mem[b], tail[b], n)
  BY <1>1, <1>3, RunFirst
<1> QED
  BY <1>2, <1>4 DEF c

LEMMA NothingYet ==
  ASSUME NEW s \in Seq(Byte)
  PROVE  <<>> \o s = s /\ s \o <<>> = s /\ SubSeq(s, 1, Len(s)) = s
  OBVIOUS

\* ringbuf_reset.
LEMMA ResetRefines ==
  ASSUME IInv, NEW b \in Buffers, Reset(b)
  PROVE  Fifo!Empty(b)
<1>1. /\ kind = "idle" /\ kind' = "idle" /\ given' = <<>> /\ mem' = mem
      /\ head' = [head EXCEPT ![b] = 0] /\ tail' = [tail EXCEPT ![b] = 0]
  BY DEF Reset, call
<1>2. /\ head'[b] = 0 /\ tail'[b] = 0 /\ Capacity[b] \in Nat
      /\ \A a \in Buffers : a /= b => head'[a] = head[a] /\ tail'[a] = tail[a]
  BY <1>1, PointerTypes DEF IInv, TypeOK
<1>3. Contents(b)' = <<>>
  <2>1. Used(b)' = 0
    BY <1>2 DEF Used, Free
  <2> QED
    BY <2>1 DEF Contents, Bytes
<1>4. \A a \in Buffers : a /= b => Contents(a)' = Contents(a)
  BY <1>1, <1>2, SameBuffer
<1> QED
  BY <1>1, <1>3, <1>4, IdleQueues, FifoEmpty

\* ringbuf_memset and ringbuf_memcpy_into begin.
LEMMA IntoRefines ==
  ASSUME IInv, NEW b \in Buffers, NEW bytes \in Seq(Byte), MemcpyInto(b, bytes)
  PROVE  Fifo!Put(b, bytes)
<1>1. /\ kind = "idle" /\ kind' = "into" /\ dst' = b /\ data' = bytes
      /\ overflow' = (Len(bytes) > Free(b)) /\ given' = <<>>
      /\ mem' = mem /\ head' = head /\ tail' = tail
  BY DEF MemcpyInto, buffers
<1>2. \A a \in Buffers : Contents(a)' = Contents(a) /\ Before(a)' = Before(a)
  BY <1>1, SameBuffer
<1>3. Coming' = bytes
  BY <1>1 DEF Coming
<1>4. Queue(b)' = LastBytes(Capacity[b], (IF overflow' THEN Before(b)' ELSE Contents(b)') \o Coming')
  BY <1>1 DEF Queue
<1>5. Queue(b)' = LastBytes(Capacity[b], (IF Len(bytes) > Free(b) THEN Before(b) ELSE Contents(b)) \o bytes)
  BY <1>1, <1>2, <1>3, <1>4
<1>6. Queue(b)' = LastBytes(Capacity[b], Queue(b) \o bytes)
  BY <1>1, <1>5, OverflowOrNot, IdleQueues DEF IInv
<1>7. \A a \in Buffers : a /= b => Queue(a)' = Queue(a)
  BY <1>1, <1>2, IdleQueues DEF Queue
<1>8. Given' = <<>>
  BY <1>1 DEF Given
<1> QED
  BY <1>6, <1>7, <1>8, FifoPut

\* ringbuf_memcpy_from begins.
LEMMA FromRefines ==
  ASSUME IInv, NEW b \in Buffers, NEW n \in Nat, MemcpyFrom(b, n)
  PROVE  Fifo!Take(b, n)
<1>1. /\ kind = "idle" /\ kind' = "from" /\ src' = b /\ n <= Used(b) /\ todo' = n
      /\ given' = <<>> /\ mem' = mem /\ head' = head /\ tail' = tail
  BY DEF MemcpyFrom, buffers
<1>2. \A a \in Buffers : Contents(a)' = Contents(a) /\ Used(a)' = Used(a)
  BY <1>1, SameBuffer
<1>3. Queue(b) = Contents(b) /\ Contents(b) \in Seq(Byte) /\ Len(Contents(b)) = Used(b)
  BY <1>1, RunTypes, IdleQueues DEF IInv
<1>4. Queue(b)' = SubSeq(Queue(b), n + 1, Len(Queue(b)))
  BY <1>1, <1>2, <1>3 DEF Queue
<1>5. \A a \in Buffers : a /= b => Queue(a)' = Queue(a)
  BY <1>1, <1>2, IdleQueues DEF Queue
<1>6. Given' = SubSeq(Queue(b), 1, n)
  <2>1. Given' = <<>> \o RunOf(Capacity[b], mem[b], tail[b], n)
    BY <1>1 DEF Given, Bytes, RunOf, Slot, Size
  <2>2. SubSeq(Contents(b), 1, n) = RunOf(Capacity[b], mem[b], tail[b], n)
    BY <1>1, FirstBytes DEF IInv
  <2>3. SubSeq(Contents(b), 1, n) \in Seq(Byte)
    <3>1. n \in 0..Len(Contents(b))
      BY <1>1, <1>3, BufferTypes DEF IInv
    <3> QED
      BY <1>3, <3>1, Part
  <2> QED
    BY <1>3, <2>1, <2>2, <2>3, NothingYet
<1> QED
  BY <1>1, <1>3, <1>4, <1>5, <1>6, FifoTake

\* ringbuf_copy begins.
LEMMA CopyRefines ==
  ASSUME IInv, NEW d \in Buffers, NEW s \in Buffers, NEW n \in Nat, d /= s, Copy(d, s, n)
  PROVE  Fifo!Move(d, s, n)
<1>1. /\ kind = "idle" /\ kind' = "copy" /\ dst' = d /\ src' = s /\ n <= Used(s) /\ todo' = n
      /\ overflow' = (n > Free(d)) /\ given' = <<>> /\ mem' = mem /\ head' = head /\ tail' = tail
  BY DEF Copy, buffers
<1>2. \A a \in Buffers : /\ Contents(a)' = Contents(a) /\ Before(a)' = Before(a)
                         /\ Used(a)' = Used(a)
  BY <1>1, SameBuffer
<1>3. Queue(s) = Contents(s) /\ Contents(s) \in Seq(Byte) /\ Len(Contents(s)) = Used(s)
  BY <1>1, RunTypes, IdleQueues DEF IInv
<1>4. Queue(s)' = SubSeq(Queue(s), n + 1, Len(Queue(s)))
  BY <1>1, <1>2, <1>3 DEF Queue
<1> DEFINE bytes == SubSeq(Contents(s), 1, n)
<1>5. bytes \in Seq(Byte) /\ Len(bytes) = n
  <2>1. n \in 0..Len(Contents(s))
    BY <1>1, <1>3, BufferTypes DEF IInv
  <2> QED
    BY <1>3, <2>1, Part
<1>6. Coming' = bytes
  <2>1. Coming' = RunOf(Capacity[s], mem[s], tail[s], n)
    BY <1>1 DEF Coming, Bytes, RunOf, Slot, Size
  <2> QED
    BY <1>1, <2>1, FirstBytes DEF IInv
<1> HIDE DEF bytes
<1>7. Queue(d)' = LastBytes(Capacity[d], (IF overflow' THEN Before(d)' ELSE Contents(d)') \o Coming')
  BY <1>1 DEF Queue
<1>8. Queue(d)' = LastBytes(Capacity[d], (IF Len(bytes) > Free(d) THEN Before(d) ELSE Contents(d)) \o bytes)
  BY <1>1, <1>2, <1>5, <1>6, <1>7
<1>9. Queue(d)' = LastBytes(Capacity[d], Queue(d) \o bytes)
  BY <1>1, <1>5, <1>8, OverflowOrNot, IdleQueues DEF IInv
<1>10. \A a \in Buffers : a /= d /\ a /= s => Queue(a)' = Queue(a)
  BY <1>1, <1>2, IdleQueues DEF Queue
<1>11. Given' = <<>>
  BY <1>1 DEF Given
<1>12. bytes = SubSeq(Queue(s), 1, n) /\ n <= Len(Queue(s))
  BY <1>1, <1>3 DEF bytes
<1> QED
  BY <1>4, <1>9, <1>10, <1>11, <1>12, FifoMove

\* ringbuf_read.
LEMMA ReadRefines ==
  ASSUME IInv, NEW b \in Buffers, NEW bytes \in Seq(Byte), Read(b, bytes)
  PROVE  Fifo!Put(b, bytes)
<1>0. TypeOK
  BY DEF IInv
<1>1. /\ kind = "idle" /\ kind' = "idle" /\ Len(bytes) <= ToEnd(b, head[b]) /\ Store(b, bytes)
      /\ given' = <<>>
      /\ tail' = IF Len(bytes) > Free(b)
                 THEN [tail EXCEPT ![b] = Nextp(b, Wrap(b, head[b] + Len(bytes)))] ELSE tail
  <2>1. ToEnd(b, head[b]) \in Nat
    BY <1>0, EndIsAhead
  <2> QED
    BY <2>1 DEF Read, call
<1>2. /\ \A a \in Buffers : a /= b => mem'[a] = mem[a] /\ head'[a] = head[a]
      /\ Before(b)' = LastBytes(Capacity[b], Before(b) \o bytes)
      /\ tail'[b] = tail[b] /\ Len(bytes) <= Free(b) => Contents(b)' = Contents(b) \o bytes
  BY <1>0, <1>1, StoreEffect
<1>3. \A a \in Buffers : a /= b => Contents(a)' = Contents(a)
  <2>1. \A a \in Buffers : a /= b => tail'[a] = tail[a]
    BY <1>0, <1>1 DEF TypeOK
  <2> QED
    BY <1>2, <2>1, SameBuffer
<1>4. /\ Capacity[b] \in Nat /\ Free(b) \in Nat /\ Used(b) = Capacity[b] - Free(b)
      /\ Contents(b) \in Seq(Byte) /\ Len(Contents(b)) = Used(b)
  BY <1>0, RunTypes, PointerTypes
<1>5. Contents(b)' = LastBytes(Capacity[b], Contents(b) \o bytes)
  <2>1. CASE Len(bytes) > Free(b)
    <3> DEFINE c == Capacity[b]
    <3>1. head'[b] \in 0..c /\ head'[b] = WrapOf(c, head[b] + Len(bytes))
      <4>1. /\ head' = [head EXCEPT ![b] = WrapOf(Capacity[b], head[b] + Len(bytes))]
            /\ head'[b] \in 0..Capacity[b]
        BY <1>0, <1>1, StoreMoves
      <4> QED
        BY <1>0, <4>1 DEF TypeOK
    <3>2. tail'[b] = WrapOf(c, head'[b] + 1)
      <4>1. tail'[b] = Nextp(b, Wrap(b, head[b] + Len(bytes)))
        BY <1>0, <1>1, <2>1 DEF TypeOK
      <4> QED
        BY <3>1, <4>1, WrapIsWrapOf DEF Nextp
    <3>3. FreeOf(c, head'[b], WrapOf(c, head'[b] + 1)) = 0
      BY <1>4, <3>1, FullBuffer
    <3>4. Contents(b)' = Before(b)'
      BY <1>4, <3>2, <3>3, StateRuns
    <3>5. LastBytes(c, Before(b) \o bytes) = LastBytes(c, Contents(b) \o bytes)
      BY <1>0, <2>1, OverflowOrNot
    <3> QED
      BY <1>2, <3>4, <3>5
  <2>2. CASE ~(Len(bytes) > Free(b))
    <3>1. Contents(b)' = Contents(b) \o bytes
      BY <1>1, <1>2, <1>4, <2>2
    <3>2. Contents(b) \o bytes \in Seq(Byte) /\ Len(Contents(b) \o bytes) <= Capacity[b]
      <4>1. Contents(b) \o bytes \in Seq(Byte) /\ Len(Contents(b) \o bytes) = Used(b) + Len(bytes)
        BY <1>4, JoinType
      <4> QED
        BY <1>4, <2>2, <4>1
    <3> QED
      BY <1>4, <3>1, <3>2, LastIsAll
  <2> QED
    BY <2>1, <2>2
<1> QED
  BY <1>1, <1>3, <1>5, IdleQueues, FifoPut

\* ringbuf_write.
LEMMA WriteRefines ==
  ASSUME IInv, NEW b \in Buffers, NEW n \in Nat, Write(b, n)
  PROVE  Fifo!Take(b, n)
<1>0. TypeOK /\ ToEnd(b, tail[b]) \in Nat /\ Used(b) \in Nat
  BY EndIsAhead, PointerTypes DEF IInv
<1>1. /\ kind = "idle" /\ kind' = "idle" /\ n <= ToEnd(b, tail[b]) /\ n <= Used(b)
      /\ Consume(b, n) /\ given' = Bytes(b, tail[b], n) /\ mem' = mem /\ head' = head
  <2>1. n \in 1..Lesser(ToEnd(b, tail[b]), Used(b))
    BY DEF Write
  <2>2. n <= ToEnd(b, tail[b]) /\ n <= Used(b)
    BY <1>0, <2>1, LesserIsLess
  <2> QED
    BY <2>2 DEF Write, call
<1>2. /\ \A a \in Buffers : a /= b => tail'[a] = tail[a]
      /\ Contents(b)' = SubSeq(Contents(b), n + 1, Used(b))
  BY <1>0, <1>1, ConsumeEffect
<1>3. \A a \in Buffers : a /= b => Contents(a)' = Contents(a)
  BY <1>1, <1>2, SameBuffer
<1>4. given' = SubSeq(Contents(b), 1, n) /\ Len(Contents(b)) = Used(b)
  BY <1>0, <1>1, FirstBytes, BytesIsRun, RunTypes
<1> QED
  BY <1>1, <1>2, <1>3, <1>4, IdleQueues, FifoTake

\* What the running call has yet to take out of a buffer.
LEMMA RestOfRest ==
  ASSUME NEW x \in Seq(Byte), NEW u \in Nat, u = Len(x), NEW n \in Nat, NEW k \in n..u
  PROVE  SubSeq(SubSeq(x, n + 1, u), k - n + 1, u - n) = SubSeq(x, k + 1, u)
<1> DEFINE y == SubSeq(x, n + 1, u)
<1>1. y \in Seq(Byte) /\ Len(y) = u - n /\ \A i \in 1..(u - n) : y[i] = x[n + i]
  OBVIOUS
<1> HIDE DEF y
<1>2. /\ SubSeq(y, k - n + 1, u - n) \in Seq(Byte) /\ Len(SubSeq(y, k - n + 1, u - n)) = u - k
      /\ \A i \in 1..(u - k) : SubSeq(y, k - n + 1, u - n)[i] = y[k - n + i]
  BY <1>1
<1>3. /\ SubSeq(x, k + 1, u) \in Seq(Byte) /\ Len(SubSeq(x, k + 1, u)) = u - k
      /\ \A i \in 1..(u - k) : SubSeq(x, k + 1, u)[i] = x[k + i]
  OBVIOUS
<1>4. \A i \in 1..(u - k) : y[k - n + i] = x[k + i]
  BY <1>1
<1>5. u - k \in Nat
  OBVIOUS
<1>s. ASSUME NEW i \in 1..(u - k) PROVE SubSeq(y, k - n + 1, u - n)[i] = SubSeq(x, k + 1, u)[i]
  <2>1. SubSeq(y, k - n + 1, u - n)[i] = y[k - n + i]
    BY <1>2
  <2>2. SubSeq(x, k + 1, u)[i] = x[k + i]
    BY <1>3
  <2> QED
    BY <1>4, <2>1, <2>2
<1>6. SubSeq(y, k - n + 1, u - n) = SubSeq(x, k + 1, u)
  BY <1>2, <1>3, <1>5, <1>s, SameBytes
<1> QED
  BY <1>6 DEF y

\* One iteration of ringbuf_memset or ringbuf_memcpy_into.
LEMMA IntoChunkStutters == ASSUME IInv, IntoChunk PROVE UNCHANGED Fifo!vars
<1>0. TypeOK /\ dst \in Buffers /\ data \in Seq(Byte)
  BY DEF IInv, TypeOK
<1>d. PICK d \in Buffers : d = dst
  BY <1>0
<1> DEFINE n == Lesser(ToEnd(dst, head[dst]), todo)
           part == SubSeq(data, 1, n)
<1>1. /\ kind = "into" /\ Store(dst, part) /\ data' = SubSeq(data, n + 1, Len(data))
      /\ todo' = todo - n /\ kind' = kind /\ dst' = dst /\ overflow' = overflow
      /\ tail' = tail /\ given' = given
  BY DEF IntoChunk
<1>2. n \in 0..Len(data) /\ n <= ToEnd(dst, head[dst]) /\ Len(data) = todo /\ n <= todo
  <2>1. Len(data) = todo /\ todo \in Nat /\ ToEnd(dst, head[dst]) \in Nat
    BY <1>1, EndIsAhead DEF IInv, Running, TypeOK
  <2> QED
    BY <2>1, LesserIsLess
<1> HIDE DEF n
<1>3. /\ part \in Seq(Byte) /\ Len(part) = n /\ data' \in Seq(Byte) /\ data = part \o data'
  <2>1. data = part \o SubSeq(data, n + 1, Len(data))
    BY <1>0, <1>2, SplitAt
  <2> QED
    BY <1>0, <1>1, <1>2, <2>1, Part
<1> HIDE DEF part
<1>4. /\ Store(d, part) /\ Len(part) <= ToEnd(d, head[d]) /\ tail'[d] = tail[d]
  BY <1>d, <1>1, <1>2, <1>3
<1>5. \A a \in Buffers : a /= d => Contents(a)' = Contents(a)
  <2>1. \A a \in Buffers : a /= d => mem'[a] = mem[a] /\ head'[a] = head[a]
    BY <1>0, <1>3, <1>4, StoreEffect
  <2> QED
    BY <1>1, <2>1, SameBuffer
<1>6. ~overflow => Len(part) <= Free(d)
  <2>1. ~overflow => todo <= Free(d)
    BY <1>1, <1>d DEF IInv, Accounting
  <2>2. Free(d) \in Nat /\ todo \in Nat /\ Len(part) \in Nat /\ Len(part) <= todo
    BY <1>0, <1>2, <1>3, PointerTypes
  <2> QED
    BY <2>1, <2>2
<1>7. LastBytes(Capacity[d], (IF overflow THEN Before(d)' ELSE Contents(d)') \o data')
        = LastBytes(Capacity[d], (IF overflow THEN Before(d) ELSE Contents(d)) \o data)
  <2>1. /\ LastBytes(Capacity[d], Before(d)' \o data')
              = LastBytes(Capacity[d], Before(d) \o (part \o data'))
        /\ Len(part) <= Free(d) =>
              LastBytes(Capacity[d], Contents(d)' \o data')
                = LastBytes(Capacity[d], Contents(d) \o (part \o data'))
    BY <1>0, <1>3, <1>4, WritingGoesOn
  <2> QED
    BY <1>3, <1>6, <2>1
<1>8. Queue(d)' = Queue(d)
  <2>1. Queue(d) = LastBytes(Capacity[d], (IF overflow THEN Before(d) ELSE Contents(d)) \o data)
    BY <1>1, <1>d DEF Queue, Coming
  <2>2. Queue(d)' = LastBytes(Capacity[d], (IF overflow' THEN Before(d)' ELSE Contents(d)') \o data')
    BY <1>1, <1>d DEF Queue, Coming
  <2> QED
    BY <1>1, <1>7, <2>1, <2>2
<1>9. \A a \in Buffers : a /= d => Queue(a)' = Queue(a)
  BY <1>1, <1>d, <1>5 DEF Queue
<1>10. Given' = Given
  BY <1>1 DEF Given
<1> QED
  BY <1>8, <1>9, <1>10, FifoSame

\* One iteration of ringbuf_memcpy_from.
LEMMA FromChunkStutters == ASSUME IInv, FromChunk PROVE UNCHANGED Fifo!vars
<1>0. TypeOK /\ src \in Buffers /\ given \in Seq(Byte)
  BY DEF IInv, TypeOK
<1>d. PICK s \in Buffers : s = src
  BY <1>0
<1> DEFINE n == Lesser(ToEnd(src, tail[src]), todo)
           c == Capacity[s]
<1>1. /\ kind = "from" /\ given' = given \o Bytes(src, tail[src], n) /\ Consume(src, n)
      /\ todo' = todo - n /\ kind' = kind /\ src' = src /\ mem' = mem /\ head' = head
  BY DEF FromChunk
<1>2. n \in Nat /\ n <= ToEnd(src, tail[src]) /\ n <= todo /\ todo \in Nat /\ todo - n \in Nat
  <2>1. todo \in Nat /\ ToEnd(src, tail[src]) \in Nat
    BY <1>0, EndIsAhead DEF TypeOK
  <2> QED
    BY <2>1, LesserIsLess
<1> HIDE DEF n
<1>3. todo <= Used(s) /\ Used(s) \in Nat
  BY <1>0, <1>1, <1>d, PointerTypes DEF IInv, Accounting
<1>4. n <= Used(s) /\ todo \in n..Used(s)
  BY <1>2, <1>3
<1>5. /\ \A a \in Buffers : a /= s => tail'[a] = tail[a]
      /\ Used(s)' = Used(s) - n
      /\ Contents(s)' = SubSeq(Contents(s), n + 1, Used(s))
      /\ \A k \in n..Used(s) :
            RunOf(c, mem[s], tail[s], k) = RunOf(c, mem[s], tail[s], n) \o RunOf(c, mem'[s], tail'[s], k - n)
  BY <1>0, <1>1, <1>2, <1>4, <1>d, ConsumeEffect
<1>6. Queue(s)' = Queue(s)
  <2>1. Queue(s) = SubSeq(Contents(s), todo + 1, Used(s))
        /\ Queue(s)' = SubSeq(Contents(s)', todo' + 1, Used(s)')
    BY <1>1, <1>d DEF Queue
  <2>2. Contents(s) \in Seq(Byte) /\ Len(Contents(s)) = Used(s)
    BY <1>0, RunTypes
  <2>3. SubSeq(SubSeq(Contents(s), n + 1, Used(s)), todo - n + 1, Used(s) - n)
          = SubSeq(Contents(s), todo + 1, Used(s))
    BY <1>2, <1>3, <1>4, <2>2, RestOfRest
  <2> QED
    BY <1>1, <1>5, <2>1, <2>3
<1>7. \A a \in Buffers : a /= s => Queue(a)' = Queue(a)
  <2>1. \A a \in Buffers : a /= s => Contents(a)' = Contents(a)
    BY <1>1, <1>5, SameBuffer
  <2> QED
    BY <1>1, <1>d, <2>1 DEF Queue
<1>8. Given' = Given
  <2>1. Given = given \o RunOf(c, mem[s], tail[s], todo)
    BY <1>1, <1>d, BytesIsRun DEF Given
  <2>2. Given' = given' \o RunOf(c, mem'[s], tail'[s], todo')
    BY <1>1, <1>d DEF Given, Bytes, RunOf, Slot, Size
  <2>3. given' = given \o RunOf(c, mem[s], tail[s], n)
    BY <1>1, <1>d, BytesIsRun
  <2>4. RunOf(c, mem[s], tail[s], todo)
          = RunOf(c, mem[s], tail[s], n) \o RunOf(c, mem'[s], tail'[s], todo')
    BY <1>1, <1>4, <1>5
  <2>5. RunOf(c, mem[s], tail[s], n) \in Seq(Byte) /\ RunOf(c, mem'[s], tail'[s], todo') \in Seq(Byte)
    <3>1. /\ c \in Nat /\ tail[s] \in 0..c /\ mem[s] \in [0..c -> Byte] /\ Used(s) \in 0..c
          /\ tail'[s] \in 0..c
      <4>1. IInv'
        BY FromChunkInv
      <4>2. tail'[s] \in Nat /\ tail'[s] < Size(s)
        BY <4>1 DEF IInv, TypeOK
      <4> QED
        BY <1>0, <4>2, BufferTypes, PointerTypes DEF Size
    <3>2. n \in 0..(c + 1) /\ todo' \in 0..(c + 1)
      BY <1>1, <1>2, <1>3, <3>1
    <3> HIDE DEF c
    <3> QED
      BY <1>1, <3>1, <3>2, RunType
  <2> QED
    BY <1>0, <2>1, <2>2, <2>3, <2>4, <2>5, JoinAgain
<1> QED
  BY <1>6, <1>7, <1>8, FifoSame

\* One iteration of ringbuf_copy.
LEMMA CopyChunkStutters == ASSUME IInv, CopyChunk PROVE UNCHANGED Fifo!vars
<1>0. TypeOK /\ src \in Buffers /\ dst \in Buffers
  BY DEF IInv, TypeOK
<1>d. PICK d \in Buffers : d = dst
  BY <1>0
<1>s. PICK s \in Buffers : s = src
  BY <1>0
<1> DEFINE n == Lesser(ToEnd(dst, head[dst]), Lesser(ToEnd(src, tail[src]), todo))
           part == Bytes(src, tail[src], n)
           c == Capacity[s]
           left == RunOf(Capacity[s], mem'[s], tail'[s], todo')
<1>1. /\ kind = "copy" /\ Store(dst, part) /\ Consume(src, n) /\ todo' = todo - n
      /\ kind' = kind /\ dst' = dst /\ src' = src /\ overflow' = overflow /\ given' = given
  BY DEF CopyChunk
<1>2. /\ n \in Nat /\ n <= ToEnd(dst, head[dst]) /\ n <= ToEnd(src, tail[src])
      /\ n <= todo /\ todo - n \in Nat /\ n \in 0..ToEnd(src, tail[src]) /\ todo \in Nat
  <2>1. todo \in Nat /\ ToEnd(dst, head[dst]) \in Nat /\ ToEnd(src, tail[src]) \in Nat
    BY <1>0, EndIsAhead DEF TypeOK
  <2>2. LET l == Lesser(ToEnd(src, tail[src]), todo)
        IN  l \in Nat /\ l <= ToEnd(src, tail[src]) /\ l <= todo
    BY <2>1, LesserIsLess
  <2> QED
    BY <2>1, <2>2, LesserIsLess
<1> HIDE DEF n
<1>3. /\ part \in Seq(Byte) /\ Len(part) = n /\ part = RunOf(c, mem[s], tail[s], n)
  BY <1>0, <1>2, <1>s, BytesAreBytes, BytesIsRun
<1> HIDE DEF part
<1>4. d /= s
  BY <1>1, <1>d, <1>s DEF IInv, Running
<1>5. /\ Store(d, part) /\ Len(part) <= ToEnd(d, head[d]) /\ Consume(s, n) /\ n <= ToEnd(s, tail[s])
  BY <1>d, <1>s, <1>1, <1>2, <1>3
<1>6. \A a \in Buffers : a /= d => mem'[a] = mem[a] /\ head'[a] = head[a]
  BY <1>0, <1>3, <1>5, StoreEffect
<1>7. todo <= Used(s) /\ Used(s) \in Nat /\ n <= Used(s) /\ todo \in n..Used(s)
  <2>1. todo <= Used(s) /\ Used(s) \in Nat
    BY <1>0, <1>1, <1>s, PointerTypes DEF IInv, Accounting
  <2> QED
    BY <1>2, <2>1
<1>8. /\ \A a \in Buffers : a /= s => tail'[a] = tail[a]
      /\ Used(s)' = Used(s) - n
      /\ Contents(s)' = SubSeq(Contents(s), n + 1, Used(s))
      /\ \A k \in n..Used(s) :
            RunOf(c, mem[s], tail[s], k) = RunOf(c, mem[s], tail[s], n) \o RunOf(c, mem'[s], tail'[s], k - n)
  BY <1>0, <1>2, <1>4, <1>5, <1>6, <1>7, ConsumeEffect
<1>9. Queue(s)' = Queue(s)
  <2>1. Queue(s) = SubSeq(Contents(s), todo + 1, Used(s))
        /\ Queue(s)' = SubSeq(Contents(s)', todo' + 1, Used(s)')
    BY <1>1, <1>d, <1>s, <1>4 DEF Queue
  <2>2. Contents(s) \in Seq(Byte) /\ Len(Contents(s)) = Used(s)
    BY <1>0, RunTypes
  <2>3. SubSeq(SubSeq(Contents(s), n + 1, Used(s)), todo - n + 1, Used(s) - n)
          = SubSeq(Contents(s), todo + 1, Used(s))
    BY <1>2, <1>7, <2>2, RestOfRest
  <2> QED
    BY <1>1, <1>8, <2>1, <2>3
<1>10. Coming = part \o left /\ Coming' = left
  <2>1. Coming = RunOf(c, mem[s], tail[s], todo)
    BY <1>1, <1>s, BytesIsRun DEF Coming
  <2>2. Coming' = left
    BY <1>1, <1>s DEF Coming, Bytes, RunOf, Slot, Size
  <2>3. RunOf(c, mem[s], tail[s], todo) = RunOf(c, mem[s], tail[s], n) \o left
    BY <1>1, <1>7, <1>8
  <2> QED
    BY <1>3, <2>1, <2>2, <2>3
<1>11. left \in Seq(Byte)
  <2>1. /\ c \in Nat /\ mem'[s] \in [0..c -> Byte] /\ Used(s) \in 0..c /\ tail'[s] \in 0..c
    <3>1. IInv'
      BY CopyChunkInv
    <3>2. tail'[s] \in Nat /\ tail'[s] < Size(s)
      BY <3>1 DEF IInv, TypeOK
    <3> QED
      <4>1. c \in Nat /\ mem[s] \in [0..c -> Byte] /\ Used(s) \in 0..c
        BY <1>0, BufferTypes, PointerTypes
      <4>2. mem'[s] = mem[s]
        BY <1>4, <1>6
      <4>3. tail'[s] \in 0..c
        BY <3>2, <4>1 DEF Size
      <4> QED
        BY <4>1, <4>2, <4>3
  <2>2. todo' \in 0..(c + 1)
    BY <1>1, <1>2, <1>7, <2>1
  <2> HIDE DEF c
  <2>3. RunOf(c, mem'[s], tail'[s], todo') \in Seq(Byte)
    BY <2>1, <2>2, RunType
  <2> QED
    BY <2>3 DEF c
<1> HIDE DEF left
<1>12. ~overflow => Len(part) <= Free(d)
  <2>1. ~overflow => todo <= Free(d)
    BY <1>1, <1>d DEF IInv, Accounting
  <2>2. Free(d) \in Nat /\ todo \in Nat /\ Len(part) \in Nat /\ Len(part) <= todo
    BY <1>0, <1>2, <1>3, PointerTypes
  <2> QED
    BY <2>1, <2>2
<1>13. Queue(d)' = Queue(d)
  <2>1. Queue(d) = LastBytes(Capacity[d], (IF overflow THEN Before(d) ELSE Contents(d)) \o Coming)
    BY <1>1, <1>d DEF Queue
  <2>2. Queue(d)' = LastBytes(Capacity[d], (IF overflow' THEN Before(d)' ELSE Contents(d)') \o Coming')
    BY <1>1, <1>d DEF Queue
  <2>3. /\ LastBytes(Capacity[d], Before(d)' \o left)
              = LastBytes(Capacity[d], Before(d) \o (part \o left))
        /\ Len(part) <= Free(d) =>
              LastBytes(Capacity[d], Contents(d)' \o left)
                = LastBytes(Capacity[d], Contents(d) \o (part \o left))
    BY <1>0, <1>3, <1>4, <1>5, <1>8, <1>11, WritingGoesOn
  <2> QED
    BY <1>1, <1>10, <1>12, <2>1, <2>2, <2>3
<1>14. \A a \in Buffers : a /= d /\ a /= s => Queue(a)' = Queue(a)
  <2>1. \A a \in Buffers : a /= d /\ a /= s => Contents(a)' = Contents(a)
    BY <1>6, <1>8, SameBuffer
  <2> QED
    BY <1>1, <1>d, <1>s, <2>1 DEF Queue
<1>15. Given' = Given
  BY <1>1 DEF Given
<1> QED
  BY <1>9, <1>13, <1>14, <1>15, FifoSame

LEMMA NothingMore ==
  ASSUME NEW b, NEW p PROVE Bytes(b, p, 0) = <<>>
  BY DEF Bytes

\* The end of a call: the array holds what the queue was to be.
LEMMA ReturnStutters == ASSUME IInv, Forgotten, Return PROVE UNCHANGED Fifo!vars
<1>0. TypeOK /\ src \in Buffers /\ dst \in Buffers /\ data \in Seq(Byte) /\ given \in Seq(Byte)
  BY DEF IInv, TypeOK
<1>1. /\ kind /= "idle" /\ todo = 0 /\ kind' = "idle" /\ given' = given
      /\ mem' = mem /\ head' = head
      /\ tail' = IF overflow THEN [tail EXCEPT ![dst] = Nextp(dst, head[dst])] ELSE tail
  BY DEF Return
<1>2. kind \in {"into", "from", "copy"} /\ (kind = "copy" => dst /= src)
  BY <1>1 DEF IInv, TypeOK, Running
<1>3. kind \in {"into", "copy"} => Coming = <<>>
  <2>1. kind = "into" => data = <<>>
    BY <1>0, <1>1 DEF IInv, Running
  <2>2. kind = "copy" => Coming = Bytes(src, tail[src], 0)
    BY <1>1 DEF Coming
  <2>3. kind = "copy" => Coming = <<>>
    BY <2>2, NothingMore
  <2>4. kind = "into" => Coming = data
    BY DEF Coming
  <2> QED
    BY <2>1, <2>3, <2>4
<1>4. ASSUME NEW a \in Buffers, ~(kind \in {"into", "copy"} /\ a = dst)
      PROVE  Queue(a)' = Queue(a)
  <2>1. tail'[a] = tail[a]
    BY <1>0, <1>1, <1>2, <1>4 DEF Forgotten, TypeOK
  <2>2. Contents(a)' = Contents(a)
    BY <1>1, <2>1, SameBuffer
  <2>3. Contents(a) \in Seq(Byte) /\ Len(Contents(a)) = Used(a)
    BY <1>0, RunTypes
  <2>4. Queue(a) = Contents(a)
    <3>1. Queue(a) = Contents(a) \/ Queue(a) = SubSeq(Contents(a), todo + 1, Used(a))
      BY <1>4 DEF Queue
    <3>2. todo + 1 = 1
      BY <1>1
    <3> QED
      BY <2>3, <3>1, <3>2, NothingYet
  <2> QED
    BY <1>1, <2>2, <2>4, IdleQueues
<1>5. ASSUME NEW d \in Buffers, kind \in {"into", "copy"}, d = dst
      PROVE  Queue(d)' = Queue(d)
  <2>1. /\ Contents(d) \in Seq(Byte) /\ Len(Contents(d)) = Used(d) /\ Used(d) \in 0..Capacity[d]
        /\ Before(d) \in Seq(Byte) /\ Len(Before(d)) = Capacity[d] /\ Capacity[d] \in Nat
        /\ head[d] \in 0..Capacity[d]
    BY <1>0, RunTypes, PointerTypes
  <2>2. Queue(d) = LastBytes(Capacity[d], (IF overflow THEN Before(d) ELSE Contents(d)) \o <<>>)
    BY <1>3, <1>5 DEF Queue
  <2>3. Queue(d) = IF overflow THEN Before(d) ELSE Contents(d)
    <3>1. /\ Before(d) \o <<>> = Before(d) /\ Contents(d) \o <<>> = Contents(d)
      BY <2>1, NothingYet
    <3>2. /\ LastBytes(Capacity[d], Before(d)) = Before(d)
          /\ LastBytes(Capacity[d], Contents(d)) = Contents(d)
      BY <2>1, LastIsAll
    <3> QED
      BY <2>2, <3>1, <3>2
  <2>4. CASE overflow
    <3> DEFINE c == Capacity[d]
    <3>1. tail'[d] = WrapOf(c, head[d] + 1)
      BY <1>0, <1>1, <1>5, <2>4, WrapIsWrapOf DEF Nextp, TypeOK
    <3>2. FreeOf(c, head[d], WrapOf(c, head[d] + 1)) = 0
      BY <2>1, FullBuffer
    <3>3. /\ Contents(d)' = RunOf(c, mem'[d], tail'[d], c - FreeOf(c, head'[d], tail'[d]))
          /\ Before(d) = RunOf(c, mem[d], WrapOf(c, head[d] + 1), c)
      BY StateRuns
    <3>4. Contents(d)' = Before(d)
      BY <1>1, <2>1, <3>1, <3>2, <3>3
    <3> QED
      BY <1>1, <2>3, <2>4, <3>4, IdleQueues
  <2>5. CASE ~overflow
    <3>1. Contents(d)' = Contents(d)
      BY <1>1, <2>5, SameBuffer
    <3> QED
      BY <1>1, <2>3, <2>5, <3>1, IdleQueues
  <2> QED
    BY <2>4, <2>5
<1>6. Given' = Given
  <2>1. kind = "from" => Given = given \o Bytes(src, tail[src], 0)
    BY <1>1 DEF Given
  <2>2. kind = "from" => Given = given
    BY <1>0, <2>1, NothingMore, NothingYet
  <2>3. Given = given
    BY <2>2 DEF Given
  <2> QED
    BY <1>1, <2>3 DEF Given
<1> QED
  BY <1>4, <1>5, <1>6, FifoSame

LEMMA FifoInit == Init => Fifo!Init
<1> SUFFICES ASSUME Init PROVE Fifo!Init
  OBVIOUS
<1>1. /\ kind = "idle" /\ given = <<>>
      /\ \A b \in Buffers : head[b] = 0 /\ tail[b] = 0 /\ Capacity[b] \in Nat
  BY CapacityAssumption DEF Init, CapacityAssumption
<1>2. ASSUME NEW b \in Buffers PROVE Contents(b) = <<>>
  <2>1. Used(b) = 0
    BY <1>1 DEF Used, Free
  <2> QED
    BY <2>1 DEF Contents, Bytes
<1> QED
  BY <1>1, <1>2, IdleQueues DEF Fifo!Init, Queues

LEMMA FifoStep == IInv /\ Forgotten /\ [Next]_vars => [Fifo!Next]_(Fifo!vars)
<1> SUFFICES ASSUME IInv, Forgotten, [Next]_vars PROVE [Fifo!Next]_(Fifo!vars)
  OBVIOUS
<1>m. MaxCount \in Nat
  BY CapacityAssumption DEF CapacityAssumption
<1>1. ASSUME NEW b \in Buffers, Reset(b) PROVE Fifo!Next
  BY <1>1, ResetRefines DEF Fifo!Next
<1>2. ASSUME NEW b \in Buffers, NEW bytes \in Data, MemcpyInto(b, bytes) \/ Read(b, bytes)
      PROVE  Fifo!Next
  <2>1. bytes \in Seq(Byte) /\ bytes \in Fifo!Data
    BY DataIsBytes DEF Fifo!Data, Data
  <2>2. Fifo!Put(b, bytes)
    BY <1>2, <2>1, IntoRefines, ReadRefines
  <2> QED
    BY <2>1, <2>2 DEF Fifo!Next
<1>3. ASSUME NEW b \in Buffers, NEW c \in Byte, NEW len \in 0..MaxCount, Memset(b, c, len)
      PROVE  Fifo!Next
  <2> DEFINE k == Lesser(len, Size(b))
             bytes == [i \in 1..k |-> c]
  <2>1. k \in 0..MaxCount
    <3>1. Size(b) \in Nat /\ len \in Nat
      BY <1>m, PointerTypes DEF IInv, Size
    <3> QED
      BY <1>m, <3>1, LesserIsLess
  <2>2. MemcpyInto(b, bytes)
    BY <1>3 DEF Memset
  <2> HIDE DEF k
  <2>3. bytes \in [1..k -> Byte]
    OBVIOUS
  <2>4. bytes \in Seq(Byte) /\ bytes \in Fifo!Data
    BY <1>m, <2>1, <2>3 DEF Fifo!Data
  <2> HIDE DEF bytes
  <2>5. Fifo!Put(b, bytes)
    BY <2>2, <2>4, IntoRefines
  <2> QED
    BY <2>4, <2>5 DEF Fifo!Next
<1>4. ASSUME NEW b \in Buffers, NEW n \in 0..MaxCount, MemcpyFrom(b, n) \/ Write(b, n)
      PROVE  Fifo!Next
  <2>1. n \in Nat
    BY <1>m
  <2>2. Fifo!Take(b, n)
    BY <1>4, <2>1, FromRefines, WriteRefines
  <2> QED
    BY <2>2 DEF Fifo!Next
<1>5. ASSUME NEW d \in Buffers, NEW s \in Buffers, NEW n \in 0..MaxCount, d /= s, Copy(d, s, n)
      PROVE  Fifo!Next
  <2>1. n \in Nat
    BY <1>m
  <2>2. Fifo!Move(d, s, n)
    BY <1>5, <2>1, CopyRefines
  <2> QED
    BY <1>5, <2>2 DEF Fifo!Next
<1>6. CASE IntoChunk
  BY <1>6, IntoChunkStutters
<1>7. CASE FromChunk
  BY <1>7, FromChunkStutters
<1>8. CASE CopyChunk
  BY <1>8, CopyChunkStutters
<1>9. CASE Return
  BY <1>9, ReturnStutters
<1>10. CASE UNCHANGED vars
  BY <1>10
     DEF vars, Fifo!vars, Queues, Queue, Given, Coming, Contents, Before, Bytes, Used, Free, Nextp, Wrap
<1> QED
  BY <1>1, <1>2, <1>3, <1>4, <1>5, <1>6, <1>7, <1>8, <1>9, <1>10 DEF Next

\* The ring buffer is the queue that ringbuf.h promises: it keeps the last
\* Capacity bytes put into it, and hands them out in the order they came in,
\* for every number and capacity of buffers, every content and every length
\* of a call, wherever the chunks of a call wrap.
THEOREM RingBufIsFifo == Spec => ImplementsFifo
  BY FifoInit, FifoStep, Invariant, ForgottenAlways, PTL DEF Spec, ImplementsFifo, Fifo!Spec
-----------------------------------------------------------------------------
(* The search.  A call of ringbuf_findchr looks at one stretch of slots   *)
(* that does not cross the end of the array, and calls itself for the      *)
(* rest; so there are two stretches at most, and no induction is needed.   *)

\* The slot a call of ringbuf_findchr begins at, how many slots it looks at,
\* and what memchr tells it.
Start(b, o) == (tail[b] + o) % Size(b)
Stretch(b, o) == Lesser(Size(b) - Start(b, o), Used(b) - o)
Here(b, c, o) == Memchr(b, c, Start(b, o), Stretch(b, o))

\* f is what the calls of ringbuf_findchr return, for each offset.
Searched(b, c, f) ==
  f = [o \in 0..Size(b) |->
         IF o >= Used(b) THEN Used(b)
         ELSE IF Here(b, c, o) < Stretch(b, o) THEN o + Here(b, c, o) ELSE f[o + Stretch(b, o)]]

LEMMA FindchrIs ==
  ASSUME NEW b, NEW c, NEW from
  PROVE  Findchr(b, c, from) = IF from >= Used(b) THEN Used(b)
                               ELSE (CHOOSE f : Searched(b, c, f))[from]
  BY Zenon DEF Findchr, Searched, Here, Stretch, Start

\* A set of numbers has a least element.
Less == {ss \in Nat \X Nat : ss[1] < ss[2]}

LEMMA LessWF == IsWellFoundedOn(Less, Nat)
  BY Zenon, NatLessThanWellFounded DEF OpToRel, Less

LEMMA Least ==
  ASSUME NEW T, T \subseteq Nat, T /= {}
  PROVE  \E x \in T : \A y \in T : x <= y
<1>1. PICK x \in T : \A y \in T : ~ (<<y, x>> \in Less)
  BY LessWF, WFMin
<1>2. \A y \in T : ~(y < x)
  BY <1>1 DEF Less
<1> QED
  BY <1>2

\* The least of T, or d if there is none: how memchr and ringbuf_findchr
\* report what they find.
Earliest(T, d) == IF T = {} THEN d ELSE CHOOSE i \in T : \A j \in T : i <= j

LEMMA EarliestIs ==
  ASSUME NEW d \in Nat, NEW T \in SUBSET (0..(d - 1))
  PROVE  /\ T = {} => Earliest(T, d) = d
         /\ T /= {} => /\ Earliest(T, d) \in T /\ Earliest(T, d) < d
                       /\ \A j \in T : Earliest(T, d) <= j
<1>1. ASSUME T /= {}
      PROVE  Earliest(T, d) \in T /\ \A j \in T : Earliest(T, d) <= j
  <2>1. T \subseteq Nat
    OBVIOUS
  <2>2. \E x \in T : \A y \in T : x <= y
    BY <1>1, <2>1, Least
  <2> QED
    BY <1>1, <2>2 DEF Earliest
<1>2. T = {} => Earliest(T, d) = d
  BY DEF Earliest
<1>3. \A x \in T : x < d
  OBVIOUS
<1>4. T /= {} => Earliest(T, d) < d
  BY <1>1, <1>3
<1> QED
  BY <1>1, <1>2, <1>4

\* There is only one.
LEMMA EarliestOnly ==
  ASSUME NEW d \in Nat, NEW T \in SUBSET (0..(d - 1)), NEW x \in T, \A j \in T : x <= j
  PROVE  Earliest(T, d) = x
<1>1. Earliest(T, d) \in T /\ Earliest(T, d) <= x
  BY EarliestIs
<1>2. x <= Earliest(T, d)
  BY <1>1
<1>3. \A y \in T : y \in 0..(d - 1)
  OBVIOUS
<1>4. x \in 0..(d - 1) /\ Earliest(T, d) \in 0..(d - 1)
  BY Zenon, <1>1, <1>3
<1> QED
  BY <1>1, <1>2, <1>4

\* The places of H from o on.
From(H, o) == {i \in H : o <= i}

\* Which of the n places from o on are in H, counted from o.
Among(H, o, n) == {i \in 0..(n - 1) : o + i \in H}

\* A search may look at the next n places first, and go on behind them.
LEMMA SearchSplits ==
  ASSUME NEW u \in Nat, NEW H \in SUBSET (0..(u - 1)), NEW o \in Nat, NEW n \in Nat,
         o + n <= u
  PROVE  Earliest(From(H, o), u) =
           IF Earliest(Among(H, o, n), n) < n THEN o + Earliest(Among(H, o, n), n)
                                              ELSE Earliest(From(H, o + n), u)
<1> DEFINE G == Among(H, o, n)
           hit == Earliest(G, n)
<1>1. G \in SUBSET (0..(n - 1))
  BY DEF Among
<1>2. From(H, o) \in SUBSET (0..(u - 1))
  BY DEF From
<1>3. CASE G = {}
  <2>1. hit = n
    BY <1>1, <1>3, EarliestIs
  <2>2. ASSUME NEW i \in H, o <= i PROVE o + n <= i
    <3>1. i \in Int
      OBVIOUS
    <3>2. o + (i - o) = i
      BY <3>1
    <3>3. i - o \notin 0..(n - 1)
      BY <1>3, <3>2 DEF Among
    <3> QED
      BY <2>2, <3>1, <3>3
  <2>3. \A i \in H : o + n <= i => o <= i
    OBVIOUS
  <2>4. From(H, o) = From(H, o + n)
    BY <2>2, <2>3 DEF From
  <2> QED
    BY <2>1, <2>4
<1>4. CASE G /= {}
  <2>1. hit \in G /\ hit < n /\ \A j \in G : hit <= j
    BY <1>1, <1>4, EarliestIs
  <2>2. hit \in 0..(n - 1) /\ o + hit \in H
    BY <2>1 DEF Among
  <2> HIDE DEF hit
  <2>3. o + hit \in From(H, o)
    BY <2>2 DEF From
  <2>4. ASSUME NEW j \in From(H, o) PROVE o + hit <= j
    <3>1. j \in H /\ o <= j /\ j \in Int
      BY DEF From
    <3>2. o + (j - o) = j
      BY <3>1
    <3>3. CASE j - o \in 0..(n - 1)
      <4>1. j - o \in G
        BY <3>1, <3>2, <3>3 DEF Among
      <4>2. hit <= j - o
        BY <4>1, <2>1
      <4> QED
        BY <4>2, <3>1, <2>2
    <3>4. CASE j - o \notin 0..(n - 1)
      BY <3>1, <3>4, <2>2
    <3> QED
      BY <3>3, <3>4
  <2>5. Earliest(From(H, o), u) = o + hit
    BY <1>2, <2>3, <2>4, EarliestOnly
  <2> QED
    BY <2>1, <2>5 DEF hit
<1> QED
  BY <1>3, <1>4

\* The remainder of what is less than twice the divisor.
LEMMA Once ==
  ASSUME NEW s \in Nat, NEW a \in Nat, a < s + s
  PROVE  (a < s => a % s = a) /\ (~(a < s) => a % s = a - s)
  OBVIOUS

\* Where byte c is in the contents of buffer b.
Occurs(b, c) == {i \in 0..(Used(b) - 1) : Contents(b)[i + 1] = c}

\* The stretch that ringbuf_findchr looks at is not empty, ends with the
\* contents or with the array, and memchr finds in it what the contents have
\* there; behind the end of the array the search starts at slot 0.
LEMMA StretchIs ==
  ASSUME TypeOK, NEW b \in Buffers, NEW c, NEW o \in Nat, o < Used(b)
  PROVE  /\ Stretch(b, o) \in 1..(Used(b) - o)
         /\ Here(b, c, o) = Earliest(Among(Occurs(b, c), o, Stretch(b, o)), Stretch(b, o))
         /\ o + Stretch(b, o) < Used(b) => Start(b, o + Stretch(b, o)) = 0
<1> DEFINE z == Capacity[b]
           s == Size(b)
           t == tail[b]
           u == Used(b)
           a == Start(b, o)
           n == Stretch(b, o)
<1>1. z \in Nat /\ t \in 0..z /\ u \in 0..z /\ s = z + 1
  BY PointerTypes DEF Size
<1>2. Start(b, o) = (t + o) % s /\ n = Lesser(s - a, u - o)
  BY DEF Start, Stretch
<1>3. Contents(b) = [i \in 1..u |-> mem[b][IF t + i - 1 < s THEN t + i - 1 ELSE t + i - 1 - s]]
  BY DEF Contents, Bytes
<1>4. Here(b, c, o) = Memchr(b, c, a, n)
  BY DEF Here
<1>5. Start(b, o + n) = (t + (o + n)) % s
  BY DEF Start
<1> HIDE DEF z, s, t, u, a, n
<1>6. a = IF t + o < s THEN t + o ELSE t + o - s
  <2>1. PICK p \in Nat : p = t + o
    BY <1>1
  <2>2. p < s + s /\ s \in Nat
    BY <1>1, <2>1 DEF u
  <2>3. a = p % s
    BY <1>2, <2>1 DEF a
  <2>4. (p < s => p % s = p) /\ (~(p < s) => p % s = p - s)
    BY <2>2, Once
  <2>5. a = IF p < s THEN p ELSE p - s
    BY <2>2, <2>3, <2>4
  <2> QED
    BY <1>1, <2>1, <2>2, <2>5
<1>7. a \in 0..z
  BY <1>1, <1>6 DEF u
<1>8. n \in 1..(u - o) /\ n <= s - a /\ (n = s - a \/ n = u - o)
  BY <1>1, <1>2, <1>7 DEF Lesser, u
<1>9. ASSUME NEW i \in 0..(n - 1)
      PROVE  o + i \in Occurs(b, c) <=> mem[b][a + i] = c
  <2>1. o + i \in 0..(u - 1) /\ o + i + 1 \in 1..u
    BY <1>1, <1>8
  <2>2. (IF t + (o + i + 1) - 1 < s THEN t + (o + i + 1) - 1 ELSE t + (o + i + 1) - 1 - s) = a + i
    BY <1>1, <1>6, <1>7, <1>8
  <2>3. Contents(b)[o + i + 1] = mem[b][a + i]
    BY <1>3, <2>1, <2>2
  <2> QED
    BY <2>1, <2>3 DEF Occurs, u
<1>10. Among(Occurs(b, c), o, n) = {i \in 0..(n - 1) : mem[b][a + i] = c}
  BY <1>9 DEF Among
<1>11. Memchr(b, c, a, n) = Earliest(Among(Occurs(b, c), o, n), n)
  BY <1>10 DEF Memchr, Earliest
<1>12. ASSUME o + n < u PROVE Start(b, o + n) = 0
  <2>1. n = s - a
    BY <1>1, <1>8, <1>12
  <2>2. t + (o + n) = s
    BY <1>1, <1>6, <1>8, <1>12, <2>1
  <2>3. s \in Nat /\ s < s + s /\ s - s = 0 /\ ~(s < s)
    BY <1>1
  <2>4. s % s = 0
    BY <2>3, Once
  <2> QED
    BY <1>5, <2>2, <2>4
<1> QED
  BY <1>4, <1>8, <1>11, <1>12 DEF n, u

\* What the search should return from offset o on.
Answer(b, c, o) == Earliest(From(Occurs(b, c), o), Used(b))

LEMMA AnswerAtEnd ==
  ASSUME TypeOK, NEW b \in Buffers, NEW c, NEW o \in Nat, o >= Used(b)
  PROVE  Answer(b, c, o) = Used(b)
<1>1. Used(b) \in Nat
  BY PointerTypes
<1>2. From(Occurs(b, c), o) = {}
  BY <1>1 DEF From, Occurs
<1> QED
  BY <1>2 DEF Answer, Earliest

\* One call looks at one stretch and leaves the rest to the next call.
LEMMA AnswerSplits ==
  ASSUME TypeOK, NEW b \in Buffers, NEW c, NEW o \in Nat, o < Used(b)
  PROVE  Answer(b, c, o) = IF Here(b, c, o) < Stretch(b, o) THEN o + Here(b, c, o)
                           ELSE Answer(b, c, o + Stretch(b, o))
<1>1. Used(b) \in Nat
  BY PointerTypes
<1>2. Stretch(b, o) \in 1..(Used(b) - o)
  BY StretchIs
<1>3. Stretch(b, o) \in Nat /\ o + Stretch(b, o) <= Used(b)
  BY <1>1, <1>2
<1>4. Occurs(b, c) \in SUBSET (0..(Used(b) - 1))
  BY DEF Occurs
<1>5. Here(b, c, o) = Earliest(Among(Occurs(b, c), o, Stretch(b, o)), Stretch(b, o))
  BY StretchIs
<1> QED
  BY <1>1, <1>3, <1>4, <1>5, SearchSplits DEF Answer

\* The calls of ringbuf_findchr have one answer for each offset, the right one.
LEMMA AnswersAreSearched ==
  ASSUME TypeOK, NEW b \in Buffers, NEW c
  PROVE  Searched(b, c, [o \in 0..Size(b) |-> Answer(b, c, o)])
<1> DEFINE g == [o \in 0..Size(b) |-> Answer(b, c, o)]
           body(o) == IF o >= Used(b) THEN Used(b)
                      ELSE IF Here(b, c, o) < Stretch(b, o) THEN o + Here(b, c, o)
                      ELSE g[o + Stretch(b, o)]
<1>1. Used(b) \in Nat /\ Used(b) < Size(b) /\ Size(b) \in Nat
  BY PointerTypes DEF Size
<1>2. ASSUME NEW o \in 0..Size(b) PROVE Answer(b, c, o) = body(o)
  <2>0. o \in Nat
    BY <1>1
  <2>1. CASE o >= Used(b)
    BY <2>0, <2>1, AnswerAtEnd
  <2>2. CASE o < Used(b)
    <3>1. Stretch(b, o) \in 1..(Used(b) - o)
      BY <2>0, <2>2, StretchIs
    <3>2. o + Stretch(b, o) \in 0..Size(b)
      BY <1>1, <2>0, <3>1
    <3>3. g[o + Stretch(b, o)] = Answer(b, c, o + Stretch(b, o))
      BY <3>2
    <3>4. ~(o >= Used(b))
      BY <1>1, <2>0, <2>2
    <3> HIDE DEF g
    <3> QED
      BY <2>0, <2>2, <3>3, <3>4, AnswerSplits
  <2> QED
    BY <1>1, <2>0, <2>1, <2>2
<1>3. g = [o \in 0..Size(b) |-> body(o)]
  BY <1>2
<1> QED
  BY <1>3 DEF Searched

LEMMA SearchedAnswers ==
  ASSUME TypeOK, NEW b \in Buffers, NEW c, NEW f, Searched(b, c, f), NEW o \in 0..Size(b)
  PROVE  f[o] = Answer(b, c, o)
<1> DEFINE u == Used(b)
           body(k) == IF k >= u THEN u
                      ELSE IF Here(b, c, k) < Stretch(b, k) THEN k + Here(b, c, k)
                      ELSE f[k + Stretch(b, k)]
<1>1. u \in Nat /\ u < Size(b) /\ Size(b) \in Nat
  BY PointerTypes DEF Size
<1>2. \A k \in 0..Size(b) : f[k] = body(k)
  BY DEF Searched
<1> HIDE DEF u
<1>3. ASSUME NEW k \in 0..Size(b), k >= u PROVE f[k] = Answer(b, c, k)
  <2>1. f[k] = u
    BY <1>2, <1>3
  <2>2. k \in Nat
    BY <1>1
  <2> QED
    BY <1>3, <2>1, <2>2, AnswerAtEnd DEF u
\* The last stretch: what it does not find is not there.
<1>4. ASSUME NEW k \in 0..Size(b), k < u, k + Stretch(b, k) = u PROVE f[k] = Answer(b, c, k)
  <2>1. k \in Nat /\ u \in 0..Size(b) /\ u >= u /\ ~(k >= u)
    BY <1>1, <1>4
  <2>2. f[u] = Answer(b, c, u)
    BY <1>3, <2>1
  <2>3. f[k] = body(k)
    BY <1>2
  <2>4. Answer(b, c, k) = IF Here(b, c, k) < Stretch(b, k) THEN k + Here(b, c, k)
                          ELSE Answer(b, c, k + Stretch(b, k))
    BY <1>4, <2>1, AnswerSplits DEF u
  <2> QED
    BY <1>4, <2>1, <2>2, <2>3, <2>4
\* The stretch before the end of the array is followed by the last one.
<1>5. ASSUME o < u, o + Stretch(b, o) < u PROVE f[o] = Answer(b, c, o)
  <2> DEFINE k == o + Stretch(b, o)
  <2>1. o \in Nat /\ ~(o >= u)
    BY <1>1, <1>5
  <2>2. Stretch(b, o) \in 1..(u - o) /\ Start(b, k) = 0
    BY <1>5, <2>1, StretchIs DEF u
  <2>3. k \in 0..Size(b) /\ k < u /\ k \in Nat
    BY <1>1, <1>5, <2>1, <2>2
  <2>4. f[o] = body(o)
    BY <1>2
  <2>5. Answer(b, c, o) = IF Here(b, c, o) < Stretch(b, o) THEN o + Here(b, c, o)
                          ELSE Answer(b, c, k)
    BY <1>5, <2>1, AnswerSplits DEF u
  <2>6. Stretch(b, k) = Lesser(Size(b) - Start(b, k), u - k)
    BY DEF Stretch, u
  <2> HIDE DEF k
  <2>7. k + Stretch(b, k) = u
    BY <1>1, <2>2, <2>3, <2>6 DEF Lesser
  <2>8. f[k] = Answer(b, c, k)
    BY <1>4, <2>3, <2>7
  <2> QED
    BY <2>1, <2>4, <2>5, <2>8 DEF k
<1>6. o < u => Stretch(b, o) \in 1..(u - o)
  <2>1. o \in Nat
    BY <1>1
  <2> QED
    BY <2>1, StretchIs DEF u
<1>7. o >= u \/ (o < u /\ o + Stretch(b, o) = u) \/ (o < u /\ o + Stretch(b, o) < u)
  BY <1>1, <1>6
<1> QED
  BY <1>3, <1>4, <1>5, <1>7

LEMMA FindchrIsAnswer ==
  ASSUME TypeOK, NEW b \in Buffers, NEW c, NEW o \in 0..Size(b)
  PROVE  Findchr(b, c, o) = Answer(b, c, o)
<1>1. o \in Nat
  BY PointerTypes DEF Size
<1>2. CASE o >= Used(b)
  BY <1>1, <1>2, AnswerAtEnd, FindchrIs
<1>3. CASE ~(o >= Used(b))
  <2> DEFINE f == CHOOSE g : Searched(b, c, g)
  <2>1. Searched(b, c, f)
    BY AnswersAreSearched
  <2> HIDE DEF f
  <2>2. f[o] = Answer(b, c, o)
    BY <2>1, SearchedAnswers
  <2> QED
    BY <1>3, <2>2, FindchrIs DEF f
<1> QED
  BY <1>2, <1>3

LEMMA FindsFirst == TypeOK => FindchrFindsFirst
<1> SUFFICES ASSUME TypeOK, NEW b \in Buffers, NEW c \in Byte, NEW o \in 0..Size(b)
             PROVE  LET hits == {i \in o..(Used(b) - 1) : Contents(b)[i + 1] = c}
                    IN  Findchr(b, c, o) = IF hits = {} THEN Used(b)
                                           ELSE CHOOSE i \in hits : \A j \in hits : i <= j
  BY DEF FindchrFindsFirst
<1>1. Used(b) \in Nat /\ o \in Nat
  BY PointerTypes DEF Size
<1>2. {i \in o..(Used(b) - 1) : Contents(b)[i + 1] = c} = From(Occurs(b, c), o)
  BY <1>1 DEF From, Occurs
<1> QED
  BY <1>2, FindchrIsAnswer DEF Answer, Earliest

\* ringbuf_findchr, whose tail call looks behind the wrap, finds the first c
\* at or after any offset, for every buffer, content and state of the pointers.
THEOREM FindchrFindsFirstAlways == Spec => []FindchrFindsFirst
<1>1. Spec => []TypeOK
  BY TypeOKAlways
<1> QED
  BY <1>1, FindsFirst, PTL
=============================================================================
