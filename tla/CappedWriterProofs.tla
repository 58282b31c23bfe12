-------------------------- MODULE CappedWriterProofs --------------------------
(* Proofs about CappedWriter: for every capacity, every content and every  *)
(* way to cut the output into writes, the ring is the tail of the stream.  *)
EXTENDS CappedWriter, SequenceTheorems, TLAPS

(* Remainders in the range the indices reach. *)
LEMMA Modulus ==
    ASSUME NEW c \in Nat \ {0}, NEW x \in 0 .. 2 * c - 1
    PROVE  x % c = IF x < c THEN x ELSE x - c
<1>1. CASE x < c
  BY <1>1, SMTT(20)
<1>2. CASE x >= c
  BY <1>2, SMTT(20)
<1> QED
  BY <1>1, <1>2

(* What is written is a sequence of bytes. *)
LEMMA WritesAreSequences ==
    ASSUME NEW p \in Writes
    PROVE  p \in Seq(Byte) /\ Len(p) \in Nat /\ \A i \in 1 .. Len(p) : p[i] \in Byte
<1>1. PICK k \in 0 .. MaxWrite : p \in [1 .. k -> Byte]
  BY DEF Writes
<1>2. k \in Nat
  BY <1>1, WriterAssumption
<1>3. p \in Seq(Byte)
  BY <1>1, <1>2, SeqDef
<1> QED
  BY <1>3, LenProperties, ElementOfSeq

(* Bytes holds the n places of the ring from start on. *)
RingContents == /\ Bytes \in Seq(Byte)
                /\ Len(Bytes) = n
                /\ \A i \in 1 .. n : Bytes[i] = buf[(start + i - 1) % capBytes]

(* Both pieces of Bytes together are those places. *)
LEMMA BytesAt == TypeOK => RingContents
<1> SUFFICES ASSUME TypeOK
             PROVE  /\ Bytes \in Seq(Byte)
                    /\ Len(Bytes) = n
                    /\ \A i \in 1 .. n : Bytes[i] = buf[(start + i - 1) % capBytes]
  BY DEF RingContents
<1>1. /\ capBytes \in Nat \ {0} /\ start \in 0 .. capBytes - 1 /\ n \in 0 .. capBytes
      /\ buf \in [0 .. capBytes - 1 -> Byte]
  BY WriterAssumption DEF TypeOK
<1>2. ASSUME NEW i \in 1 .. n
      PROVE  (start + i - 1) % capBytes =
                IF start + i - 1 < capBytes THEN start + i - 1
                                            ELSE start + i - 1 - capBytes
  <2> DEFINE x == start + i - 1
  <2>1. x \in 0 .. 2 * capBytes - 1
    BY <1>1, SMT
  <2> HIDE DEF x
  <2>2. x % capBytes = IF x < capBytes THEN x ELSE x - capBytes
    BY <1>1, <2>1, Modulus
  <2> QED
    BY <1>1, <2>2, SMT DEF x
<1>3. CASE start + n <= capBytes
  <2> DEFINE piece == [i \in 1 .. n |-> buf[start + i - 1]]
  <2>1. n \in Nat /\ \A i \in 1 .. n : buf[start + i - 1] \in Byte
    BY <1>1, <1>3, SMT
  <2>2. piece \in Seq(Byte) /\ Len(piece) = n
    BY <2>1, SMT
  <2>3. \A i \in 1 .. n : piece[i] = buf[(start + i - 1) % capBytes]
    BY <1>1, <1>2, <1>3, SMT
  <2> QED
    BY <1>3, <2>2, <2>3 DEF Bytes
<1>4. CASE start + n > capBytes
  <2> DEFINE a == capBytes - start
             b == n - (capBytes - start)
             first == [i \in 1 .. a |-> buf[start + i - 1]]
             second == [i \in 1 .. b |-> buf[i - 1]]
  <2>1. /\ a \in Nat /\ b \in Nat /\ a + b = n
        /\ \A i \in 1 .. a : buf[start + i - 1] \in Byte
        /\ \A i \in 1 .. b : buf[i - 1] \in Byte
    BY <1>1, <1>4, SMT
  <2>2. /\ \A i \in 1 .. a : first[i] = buf[start + i - 1]
        /\ \A i \in 1 .. b : second[i] = buf[i - 1]
    OBVIOUS
  <2>3. first \in Seq(Byte) /\ Len(first) = a /\ second \in Seq(Byte) /\ Len(second) = b
    <3> HIDE DEF a, b
    <3> QED
      BY <2>1, SMT
  <2>4. Bytes = first \o second
    BY <1>1, <1>4, SMT DEF Bytes
  <2> HIDE DEF first, second
  <2>5. /\ first \o second \in Seq(Byte)
        /\ Len(first \o second) = a + b
        /\ \A i \in 1 .. a + b : (first \o second)[i] =
              IF i <= a THEN first[i] ELSE second[i - a]
    BY <2>3, ConcatProperties
  <2>6. ASSUME NEW i \in 1 .. n
        PROVE  (first \o second)[i] = buf[(start + i - 1) % capBytes]
    <3>1. CASE i <= a
      <4>1. (start + i - 1) % capBytes = start + i - 1
        BY <1>1, <1>2, <3>1, SMT
      <4> QED
        BY <2>1, <2>2, <2>5, <3>1, <4>1, SMT
    <3>2. CASE i > a
      <4>1. (start + i - 1) % capBytes = i - a - 1 /\ i - a \in 1 .. b
        BY <1>1, <1>2, <2>1, <3>2, SMT
      <4>2. (first \o second)[i] = second[i - a]
        BY <1>1, <2>1, <2>5, <3>2, SMT
      <4> QED
        BY <2>2, <4>1, <4>2
    <3> QED
      BY <1>1, <3>1, <3>2, SMT
  <2> QED
    BY <2>1, <2>4, <2>5, <2>6
<1> QED
  BY <1>1, <1>3, <1>4, SMT

(* make fills a buffer of the clamped size with zero bytes. *)
LEMMA InitTypeOK == Init => TypeOK
<1> SUFFICES ASSUME Init PROVE TypeOK
  OBVIOUS
<1>1. capBytes \in MinCap .. MaxCap /\ capBytes \in Nat \ {0}
  BY WriterAssumption, SMT DEF Init, Clamped
<1>2. buf \in [0 .. capBytes - 1 -> Byte]
  BY WriterAssumption DEF Init
<1>3. << >> \in Seq(Byte)
  OBVIOUS
<1> QED
  BY <1>1, <1>2, <1>3, SMT DEF Init, TypeOK

(* The places of the buffer that Copied fills with p are those up to       *)
(* Len(p) after end, counted around the ring.                              *)
LEMMA OffsetInRing ==
    ASSUME NEW c \in Nat \ {0}, NEW i \in 0 .. c - 1, NEW end \in 0 .. c - 1
    PROVE  /\ (i - end + c) % c = IF i >= end THEN i - end ELSE i - end + c
           /\ (i - end + c) % c \in 0 .. c - 1
<1> DEFINE x == i - end + c
<1>1. x \in 0 .. 2 * c - 1
  BY SMT
<1> HIDE DEF x
<1>2. x % c = IF x < c THEN x ELSE x - c
  BY <1>1, Modulus
<1> QED
  BY <1>2, SMT DEF x

(* Copying bytes into the buffer leaves a buffer of bytes. *)
LEMMA CopiedType ==
    ASSUME TypeOK, NEW p \in Writes, NEW end \in 0 .. capBytes - 1
    PROVE  Copied(p, end) \in [0 .. capBytes - 1 -> Byte]
<1>1. /\ capBytes \in Nat \ {0} /\ buf \in [0 .. capBytes - 1 -> Byte]
  BY WriterAssumption DEF TypeOK
<1>2. /\ Len(p) \in Nat /\ \A i \in 1 .. Len(p) : p[i] \in Byte
  BY WritesAreSequences
<1> DEFINE offset(i) == (i - end + capBytes) % capBytes
<1>3. \A i \in 0 .. capBytes - 1 : offset(i) \in 0 .. capBytes - 1
  BY <1>1, OffsetInRing
<1> HIDE DEF offset
<1>4. ASSUME NEW i \in 0 .. capBytes - 1
      PROVE  (IF offset(i) < Len(p) THEN p[offset(i) + 1] ELSE buf[i]) \in Byte
  <2>1. CASE offset(i) < Len(p)
    <3>1. offset(i) + 1 \in 1 .. Len(p)
      BY <1>1, <1>2, <1>3, <2>1, SMTT(60)
    <3> QED
      BY <1>2, <2>1, <3>1
  <2>2. CASE ~(offset(i) < Len(p))
    BY <1>1, <2>2
  <2> QED
    BY <2>1, <2>2
<1>5. [i \in 0 .. capBytes - 1 |->
          IF offset(i) < Len(p) THEN p[offset(i) + 1] ELSE buf[i]]
         \in [0 .. capBytes - 1 -> Byte]
  BY <1>4
<1> QED
  BY <1>5 DEF Copied, offset

(* Moving around the ring in two steps is moving by their sum. *)
LEMMA RingAdd ==
    ASSUME NEW c \in Nat \ {0}, NEW a \in 0 .. c - 1,
           NEW x \in 0 .. c, NEW y \in 0 .. c, x + y <= c
    PROVE  /\ (a + x) % c \in 0 .. c - 1
           /\ (((a + x) % c) + y) % c = (a + x + y) % c
<1> DEFINE one == a + x
           all == a + x + y
           rest == (one % c) + y
<1>1. one \in 0 .. 2 * c - 1 /\ all \in 0 .. 2 * c - 1 /\ all = one + y
  BY SMT
<1> HIDE DEF one, all
<1>2. one % c = IF one < c THEN one ELSE one - c
  BY <1>1, Modulus
<1>3. all % c = IF all < c THEN all ELSE all - c
  BY <1>1, Modulus
<1>4. rest \in 0 .. 2 * c - 1 /\ rest = IF one < c THEN all ELSE all - c
  BY <1>1, <1>2, SMT
<1> HIDE DEF rest
<1>5. rest % c = IF rest < c THEN rest ELSE rest - c
  BY <1>4, Modulus
<1>6. one % c \in 0 .. c - 1 /\ rest % c = all % c
  BY <1>1, <1>2, <1>3, <1>4, <1>5, SMT
<1> QED
  BY <1>6 DEF one, all, rest

(* How far place b + q lies behind place b + m on the ring. *)
LEMMA RingOffset ==
    ASSUME NEW c \in Nat \ {0}, NEW b \in 0 .. c - 1,
           NEW m \in 0 .. c, NEW q \in 0 .. c - 1
    PROVE  (((b + q) % c) - ((b + m) % c) + c) % c = IF q >= m THEN q - m ELSE q - m + c
<1> DEFINE here == b + q
           there == b + m
           i == here % c
           end == there % c
<1>1. here \in 0 .. 2 * c - 1 /\ there \in 0 .. 2 * c - 1
  BY SMT
<1> HIDE DEF here, there
<1>2. i = IF here < c THEN here ELSE here - c
  BY <1>1, Modulus
<1>3. end = IF there < c THEN there ELSE there - c
  BY <1>1, Modulus
<1>4. i \in 0 .. c - 1 /\ end \in 0 .. c - 1
  BY <1>1, <1>2, <1>3, SMT
<1> HIDE DEF i, end
<1>5. (i - end + c) % c = IF i >= end THEN i - end ELSE i - end + c
  BY <1>4, OffsetInRing
<1>6. (i - end + c) % c = IF q >= m THEN q - m ELSE q - m + c
  BY <1>2, <1>3, <1>5, SMT DEF here, there
<1> QED
  BY <1>6 DEF i, end, here, there

-------------------------------------------------------------------------------
(* A write that does not fill the buffer drops from the front just enough  *)
(* to make room.                                                           *)
LEMMA DroppedMakesRoom ==
    ASSUME TypeOK, NEW p \in Writes, Len(p) < capBytes
    PROVE  /\ Dropped(p) \in 0 .. n
           /\ n - Dropped(p) + Len(p) \in 0 .. capBytes
           /\ n - Dropped(p) + Len(p) =
                 IF n + Len(p) > capBytes THEN capBytes ELSE n + Len(p)
<1>1. /\ capBytes \in Nat \ {0} /\ n \in 0 .. capBytes
  BY WriterAssumption DEF TypeOK
<1>2. Len(p) \in Nat
  BY WritesAreSequences
<1> QED
  BY <1>1, <1>2, SMT DEF Dropped

(* Every write keeps the types, and the indices inside the buffer.         *)
LEMMA WriteTyped ==
    ASSUME TypeOK, NEW p \in Writes, input' = p, Write(p)
    PROVE  TypeOK'
<1>1. /\ capBytes \in MinCap .. MaxCap /\ capBytes \in Nat \ {0}
      /\ start \in 0 .. capBytes - 1 /\ n \in 0 .. capBytes
      /\ total \in Nat /\ truncated \in BOOLEAN
  BY WriterAssumption DEF TypeOK
<1>2. /\ p \in Seq(Byte) /\ Len(p) \in Nat /\ \A i \in 1 .. Len(p) : p[i] \in Byte
  BY WritesAreSequences
<1>3. CASE WriteAll(p)
  <2>1. /\ Len(p) >= capBytes /\ total' = total + Len(p) /\ start' = 0
        /\ n' = capBytes /\ truncated' = TRUE /\ capBytes' = capBytes
        /\ buf' = [i \in 0 .. capBytes - 1 |-> p[Len(p) - capBytes + i + 1]]
    BY <1>3 DEF WriteAll
  <2>2. \A i \in 0 .. capBytes - 1 : Len(p) - capBytes + i + 1 \in 1 .. Len(p)
    BY <1>1, <1>2, <2>1, SMT
  <2>3. buf' \in [0 .. capBytes - 1 -> Byte]
    BY <1>2, <2>1, <2>2
  <2>4. total' \in Nat /\ start' \in 0 .. capBytes - 1 /\ n' \in 0 .. capBytes
    BY <1>1, <1>2, <2>1, SMT
  <2> QED
    BY <1>1, <1>2, <2>1, <2>3, <2>4 DEF TypeOK
<1>4. CASE WriteSome(p)
  <2> DEFINE begin == (start + Dropped(p)) % capBytes
             kept == n - Dropped(p)
             end == (begin + kept) % capBytes
  <2>1. /\ Len(p) < capBytes /\ total' = total + Len(p) /\ start' = begin
        /\ n' = kept + Len(p) /\ capBytes' = capBytes
        /\ buf' = Copied(p, end)
        /\ truncated' = (truncated \/ Dropped(p) > 0)
    BY <1>4 DEF WriteSome, Place
  <2>2. Dropped(p) \in 0 .. n /\ kept + Len(p) \in 0 .. capBytes
    BY <2>1, DroppedMakesRoom
  <2>3. Dropped(p) \in 0 .. capBytes /\ kept \in 0 .. capBytes
    BY <1>1, <2>2, SMT
  <2>4. begin \in 0 .. capBytes - 1
    <3>1. 0 \in 0 .. capBytes /\ Dropped(p) + 0 <= capBytes
      BY <1>1, <2>3, SMT
    <3> QED
      BY <1>1, <2>3, <3>1, RingAdd
  <2>5. end \in 0 .. capBytes - 1
    <3>1. 0 \in 0 .. capBytes /\ kept + 0 <= capBytes
      BY <1>1, <2>3, SMT
    <3> HIDE DEF begin, kept
    <3> QED
      BY <1>1, <2>3, <2>4, <3>1, RingAdd
  <2>6. buf' \in [0 .. capBytes - 1 -> Byte]
    <3> HIDE DEF end
    <3> QED
      BY <2>1, <2>5, CopiedType
  <2> HIDE DEF begin, kept, end
  <2>7. total' \in Nat
    BY <1>1, <1>2, <2>1, SMT
  <2> QED
    BY <1>1, <1>2, <2>1, <2>2, <2>4, <2>6, <2>7 DEF TypeOK
<1> QED
  BY <1>3, <1>4 DEF Write

(* A step of the writer is a Write of one of the allowed inputs.           *)
LEMMA NextWrites ==
    Next => \E p \in Writes : input' = p /\ Write(p)
BY DEF Next

(* The types hold in every state, for every capacity and every input: no   *)
(* index ever leaves the buffer.                                           *)
THEOREM WriterTypeCorrect == Spec => []TypeOK
<1>1. TypeOK /\ [Next]_vars => TypeOK'
  <2> SUFFICES ASSUME TypeOK, [Next]_vars PROVE TypeOK'
    OBVIOUS
  <2>1. CASE Next
    <3>1. PICK p \in Writes : input' = p /\ Write(p)
      BY <2>1, NextWrites
    <3> QED
      BY <3>1, WriteTyped
  <2>2. CASE UNCHANGED vars
    BY <2>2 DEF vars, TypeOK
  <2> QED
    BY <2>1, <2>2
<1> QED
  BY InitTypeOK, <1>1, PTL DEF Spec

(* Whatever is missing from the result is announced by the truncated flag. *)
THEOREM LossIsAnnouncedHolds == Spec => []LossIsAnnounced
<1>1. Init => LossIsAnnounced
  BY DEF Init, LossIsAnnounced
<1>2. TypeOK /\ LossIsAnnounced /\ [Next]_vars => LossIsAnnounced'
  <2> SUFFICES ASSUME TypeOK, LossIsAnnounced, [Next]_vars PROVE LossIsAnnounced'
    OBVIOUS
  <2>1. /\ capBytes \in Nat /\ n \in 0 .. capBytes /\ total \in Nat
        /\ truncated \in BOOLEAN
    BY WriterAssumption DEF TypeOK
  <2>2. CASE Next
    <3>1. PICK p \in Writes : input' = p /\ Write(p)
      BY <2>2, NextWrites
    <3>2. Len(p) \in Nat
      BY WritesAreSequences
    <3>3. CASE WriteAll(p)
      BY <3>3 DEF WriteAll, LossIsAnnounced
    <3>4. CASE WriteSome(p)
      <4>1. /\ Len(p) < capBytes /\ total' = total + Len(p)
            /\ n' = n - Dropped(p) + Len(p)
            /\ truncated' = (truncated \/ Dropped(p) > 0)
        BY <3>4 DEF WriteSome, Place
      <4>2. Dropped(p) \in 0 .. n
        BY <4>1, DroppedMakesRoom
      <4>3. CASE Dropped(p) = 0
        <5>1. total' > n' => total > n
          BY <2>1, <3>2, <4>1, <4>3, SMT
        <5> QED
          BY <4>1, <5>1 DEF LossIsAnnounced
      <4>4. CASE Dropped(p) # 0
        <5>1. Dropped(p) > 0
          BY <2>1, <4>2, <4>4, SMT
        <5> QED
          BY <4>1, <5>1 DEF LossIsAnnounced
      <4> QED
        BY <4>3, <4>4
    <3> QED
      BY <3>1, <3>3, <3>4 DEF Write
  <2>3. CASE UNCHANGED vars
    BY <2>3 DEF vars, LossIsAnnounced
  <2> QED
    BY <2>2, <2>3
<1> QED
  BY WriterTypeCorrect, <1>1, <1>2, PTL DEF Spec

-------------------------------------------------------------------------------
(* What place i of the new contents holds: place n + Len(p) - n' + i of    *)
(* the old contents followed by the write.                                 *)
Shifted(p) ==
    LET whole == Bytes \o p
    IN  \A i \in 1 .. n' : Bytes'[i] = whole[((n + Len(p)) - n') + i]

(* A write that replaces the contents leaves the end of the write. *)
LEMMA WriteAllShifts ==
    ASSUME TypeOK, RingContents, RingContents', NEW p \in Writes, WriteAll(p)
    PROVE  Shifted(p)
<1>1. /\ capBytes \in Nat \ {0} /\ n \in 0 .. capBytes
  BY WriterAssumption DEF TypeOK
<1>2. p \in Seq(Byte) /\ Len(p) \in Nat
  BY WritesAreSequences
<1>3. /\ Len(p) >= capBytes /\ start' = 0 /\ n' = capBytes /\ capBytes' = capBytes
      /\ buf' = [i \in 0 .. capBytes - 1 |-> p[Len(p) - capBytes + i + 1]]
  BY DEF WriteAll
<1>4. Bytes \in Seq(Byte) /\ Len(Bytes) = n
  BY DEF RingContents
<1> DEFINE whole == Bytes \o p
<1>5. \A j \in 1 .. n + Len(p) : whole[j] = IF j <= n THEN Bytes[j] ELSE p[j - n]
  BY <1>2, <1>4, ConcatProperties
<1> SUFFICES ASSUME NEW i \in 1 .. capBytes
             PROVE  Bytes'[i] = whole[((n + Len(p)) - capBytes) + i]
  BY <1>3 DEF Shifted
<1> HIDE DEF whole
<1>6. Bytes'[i] = buf'[(0 + i - 1) % capBytes]
  BY <1>3 DEF RingContents
<1>7. (0 + i - 1) % capBytes = i - 1 /\ i - 1 \in 0 .. capBytes - 1
  BY <1>1, SMTT(20)
<1>8. buf'[i - 1] = p[Len(p) - capBytes + (i - 1) + 1]
  BY <1>3, <1>7
<1> DEFINE j == ((n + Len(p)) - capBytes) + i
<1>9. /\ j \in 1 .. n + Len(p) /\ ~(j <= n)
      /\ j - n = Len(p) - capBytes + (i - 1) + 1
  BY <1>1, <1>2, <1>3, SMT
<1> HIDE DEF j
<1>10. whole[j] = p[j - n]
  BY <1>5, <1>9
<1> QED
  BY <1>6, <1>7, <1>8, <1>9, <1>10 DEF j

(* A shorter write leaves what was not dropped, followed by the write: the *)
(* places it fills are those the kept bytes do not use.                    *)
LEMMA WriteSomeShifts ==
    ASSUME TypeOK, RingContents, RingContents', NEW p \in Writes, WriteSome(p)
    PROVE  Shifted(p)
<1> DEFINE D == Dropped(p)
           kept == n - D
           begin == (start + D) % capBytes
           end == (begin + kept) % capBytes
<1>1. /\ capBytes \in Nat \ {0} /\ n \in 0 .. capBytes
      /\ start \in 0 .. capBytes - 1
  BY WriterAssumption DEF TypeOK
<1>2. p \in Seq(Byte) /\ Len(p) \in Nat
  BY WritesAreSequences
<1>3. /\ Len(p) < capBytes /\ start' = begin /\ n' = kept + Len(p)
      /\ capBytes' = capBytes /\ buf' = Copied(p, end)
  BY DEF WriteSome, Place
<1>4. /\ D \in 0 .. n /\ kept + Len(p) \in 0 .. capBytes
  BY <1>3, DroppedMakesRoom
<1> HIDE DEF D
<1>5. /\ D \in 0 .. capBytes /\ kept \in 0 .. capBytes /\ D + kept = n
      /\ 0 \in 0 .. capBytes /\ D + 0 <= capBytes
      /\ (n + Len(p)) - n' = D
  BY <1>1, <1>2, <1>3, <1>4, SMT
<1> HIDE DEF kept
<1>6. begin \in 0 .. capBytes - 1
  BY <1>1, <1>5, RingAdd
<1>7. Bytes \in Seq(Byte) /\ Len(Bytes) = n
  BY DEF RingContents
<1> DEFINE whole == Bytes \o p
<1>8. \A j \in 1 .. n + Len(p) : whole[j] = IF j <= n THEN Bytes[j] ELSE p[j - n]
  BY <1>2, <1>7, ConcatProperties
<1> SUFFICES ASSUME NEW i \in 1 .. n' PROVE Bytes'[i] = whole[D + i]
  BY <1>5 DEF Shifted
<1> HIDE DEF whole
<1> DEFINE q == i - 1
           place == (begin + q) % capBytes
           offset == (place - end + capBytes) % capBytes
<1>9. /\ q \in 0 .. capBytes - 1 /\ q \in 0 .. capBytes /\ i = q + 1 /\ q < kept + Len(p)
      /\ D + i \in 1 .. n + Len(p)
  BY <1>1, <1>2, <1>3, <1>4, <1>5, SMT
<1>10. Bytes'[i] = buf'[place]
  <2>1. start' + i - 1 = begin + q
    <3> HIDE DEF begin
    <3> QED
      BY <1>1, <1>3, <1>6, SMT
  <2>2. Bytes'[i] = buf'[(start' + i - 1) % capBytes]
    BY <1>3 DEF RingContents
  <2> QED
    BY <2>1, <2>2
<1> HIDE DEF q, begin
<1>11. offset = IF q >= kept THEN q - kept ELSE q - kept + capBytes
  <2>1. (((begin + q) % capBytes) - ((begin + kept) % capBytes) + capBytes) % capBytes
          = IF q >= kept THEN q - kept ELSE q - kept + capBytes
    BY <1>1, <1>5, <1>6, <1>9, RingOffset, Zenon
  <2> QED
    BY <2>1 DEF offset, place, end
<1>12. place \in 0 .. capBytes - 1
  <2>1. 0 \in 0 .. capBytes /\ q + 0 <= capBytes
    BY <1>1, <1>9, SMT
  <2> QED
    BY <1>1, <1>6, <1>9, <2>1, RingAdd
<1>13. buf'[place] = IF offset < Len(p) THEN p[offset + 1] ELSE buf[place]
  <2> HIDE DEF place, end
  <2> QED
    BY <1>3, <1>12 DEF Copied
<1> HIDE DEF offset, end
<1>14. CASE q >= kept
  <2>1. /\ offset < Len(p) /\ offset + 1 = (D + i) - n /\ ~(D + i <= n)
    BY <1>1, <1>2, <1>5, <1>9, <1>11, <1>14, SMT
  <2>2. whole[D + i] = p[(D + i) - n]
    <3> DEFINE j == D + i
    <3>1. j \in 1 .. n + Len(p) /\ ~(j <= n)
      BY <1>9, <2>1
    <3> HIDE DEF j
    <3>2. whole[j] = p[j - n]
      BY <1>8, <3>1
    <3> QED
      BY <3>2, Zenon DEF j
  <2>3. buf'[place] = p[offset + 1]
    BY <1>13, <2>1
  <2> QED
    BY <1>10, <2>1, <2>2, <2>3, Zenon
<1>15. CASE ~(q >= kept)
  <2>1. /\ ~(offset < Len(p)) /\ D + i <= n /\ D + i \in 1 .. n
        /\ D + q <= capBytes /\ start + (D + i) - 1 = start + D + q
    BY <1>1, <1>2, <1>3, <1>4, <1>5, <1>9, <1>11, <1>15, SMT DEF kept
  <2>2. Bytes'[i] = buf[place]
    BY <1>10, <1>13, <2>1
  <2>3. place = (start + D + q) % capBytes
    BY <1>1, <1>5, <1>9, <2>1, RingAdd DEF begin
  <2>4. Bytes[D + i] = buf[(start + D + q) % capBytes]
    BY <2>1 DEF RingContents
  <2> QED
    BY <1>8, <1>9, <2>1, <2>2, <2>3, <2>4
<1> QED
  BY <1>14, <1>15

(* After a write the contents are the tail of what they were followed by   *)
(* the write.                                                              *)
LEMMA WriteKeepsTail ==
    ASSUME TypeOK, RingContents, RingContents', NEW p \in Writes,
           input' = p, Write(p)
    PROVE  Stream!Accept(p)
<1>1. /\ capBytes \in Nat \ {0} /\ n \in 0 .. capBytes
  BY WriterAssumption DEF TypeOK
<1>2. p \in Seq(Byte) /\ Len(p) \in Nat
  BY WritesAreSequences
<1>3. /\ capBytes' = capBytes /\ total' = total + Len(p)
      /\ n' = IF n + Len(p) > capBytes THEN capBytes ELSE n + Len(p)
  <2>1. CASE WriteAll(p)
    <3>1. /\ Len(p) >= capBytes /\ n' = capBytes /\ capBytes' = capBytes
          /\ total' = total + Len(p)
      BY <2>1 DEF WriteAll
    <3>2. n' = IF n + Len(p) > capBytes THEN capBytes ELSE n + Len(p)
      BY <1>1, <1>2, <3>1, SMT
    <3> QED
      BY <3>1, <3>2
  <2>2. CASE WriteSome(p)
    <3>1. /\ Len(p) < capBytes /\ n' = n - Dropped(p) + Len(p)
          /\ capBytes' = capBytes /\ total' = total + Len(p)
      BY <2>2 DEF WriteSome, Place
    <3> QED
      BY <3>1, DroppedMakesRoom
  <2> QED
    BY <2>1, <2>2 DEF Write
<1>4. Shifted(p)
  BY WriteAllShifts, WriteSomeShifts DEF Write
<1>5. /\ Bytes \in Seq(Byte) /\ Len(Bytes) = n
      /\ Bytes' \in Seq(Byte) /\ Len(Bytes') = n'
  BY DEF RingContents
<1> DEFINE whole == Bytes \o p
           L == n + Len(p)
           tail == SubSeq(whole, (L - n') + 1, L)
<1>6. /\ whole \in Seq(Byte) /\ Len(whole) = L
      /\ \A j \in 1 .. L : whole[j] \in Byte
  <2>1. whole \in Seq(Byte) /\ Len(whole) = L
    BY <1>2, <1>5, ConcatProperties
  <2> QED
    BY <2>1, ElementOfSeq
<1>7. /\ L \in Nat /\ n' \in 0 .. L
  BY <1>1, <1>2, <1>3, SMT
<1>8. \A i \in 1 .. n' : Bytes'[i] = whole[(L - n') + i]
  BY <1>4 DEF Shifted, whole, L
<1> HIDE DEF whole, L
<1>9. /\ tail \in Seq(Byte) /\ Len(tail) = n'
      /\ \A i \in 1 .. n' : tail[i] = whole[(L - n') + i]
  <2> DEFINE m == L - n' + 1
  <2> DEFINE size == n'
  <2>0. L \in Nat /\ size \in 0 .. L /\ m = L - size + 1
    BY <1>7
  <2> HIDE DEF m, size
  <2>1. /\ m \in Int /\ L \in Int /\ L - m + 1 = size
        /\ \A j \in m .. L : j \in 1 .. L
        /\ (IF m <= L THEN L - m + 1 ELSE 0) = size
        /\ \A i \in 1 .. size : m + i - 1 = L - size + i
    BY <2>0, SMT
  <2>2. \A j \in m .. L : whole[j] \in Byte
    BY <1>6, <2>1
  <2>3. /\ SubSeq(whole, m, L) \in Seq(Byte)
        /\ Len(SubSeq(whole, m, L)) = IF m <= L THEN L - m + 1 ELSE 0
        /\ \A i \in 1 .. L - m + 1 : SubSeq(whole, m, L)[i] = whole[m + i - 1]
    BY <2>1, <2>2, SubSeqProperties
  <2>4. /\ SubSeq(whole, m, L) \in Seq(Byte)
        /\ Len(SubSeq(whole, m, L)) = n'
        /\ \A i \in 1 .. n' : SubSeq(whole, m, L)[i] = whole[(L - n') + i]
    BY <2>1, <2>3, Zenon DEF size
  <2> QED
    BY <2>4 DEF m
<1> HIDE DEF tail
<1>10. Bytes' = tail
  BY <1>5, <1>8, <1>9, SeqEqual
<1>11. Stream!Least(Len(Bytes) + Len(p), capBytes) = n'
  BY <1>1, <1>2, <1>3, <1>5, SMT DEF Stream!Least
<1>12. Bytes' = Stream!LastOf(Bytes \o p, Stream!Least(Len(Bytes) + Len(p), capBytes))
  BY <1>6, <1>10, <1>11, Zenon DEF Stream!LastOf, tail, whole, L
<1> QED
  BY <1>3, <1>12, Zenon DEF Stream!Accept

(* "Keep the last capBytes bytes written across all writes": for every     *)
(* capacity, every content and every way to cut the output into writes,    *)
(* the ring is the plain tail of the stream.                               *)
THEOREM RingKeepsTheTail == Spec => KeepsTheTail
<1>1. Init => Stream!TailInit
  <2> SUFFICES ASSUME Init PROVE Stream!TailInit
    OBVIOUS
  <2>1. Len(Bytes) = 0 /\ Bytes \in Seq(Byte)
    BY InitTypeOK, BytesAt DEF RingContents, Init
  <2>2. Bytes = << >>
    BY <2>1, EmptySeq
  <2> QED
    BY <2>2 DEF Init, Stream!TailInit
<1>2. TypeOK /\ RingContents /\ RingContents' /\ [Next]_vars
      => [\E p \in Writes : Stream!Accept(p)]_<<input, capBytes, Bytes, total>>
  <2>1. ASSUME TypeOK, RingContents, RingContents', Next
        PROVE  \E p \in Writes : Stream!Accept(p)
    <3>1. PICK p \in Writes : input' = p /\ Write(p)
      BY <2>1, NextWrites
    <3> QED
      BY <2>1, <3>1, WriteKeepsTail
  <2>2. ASSUME UNCHANGED vars
        PROVE  UNCHANGED <<input, capBytes, Bytes, total>>
    BY <2>2 DEF vars, Bytes
  <2> QED
    BY <2>1, <2>2
<1> QED
  BY WriterTypeCorrect, BytesAt, <1>1, <1>2, PTL DEF Spec, KeepsTheTail, Stream!TailSpec
===============================================================================
