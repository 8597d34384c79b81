--------------------------- MODULE CircleBuf_proofs ---------------------------
(***************************************************************************)
(* Proofs about CircleBuf for every size of the ring and of the blocks:    *)
(* what is read lies in the ring, a run that was accepted fits when it is  *)
(* written, cells are not overwritten while the resampler uses them, and   *)
(* the ring implements the FIFO of samples.                                *)
(***************************************************************************)
EXTENDS CircleBuf, SequenceTheorems, TLAPS

\* How many cells are filled, without the remainder.
Filled == IF readPos <= writePos THEN writePos - readPos ELSE writePos - readPos + Total

\* The producer fills the ring in place only short of its end, and nothing of a
\* run in _tmp is in the ring.
InPlace ==
    /\ wpc = "fill" /\ ~inTmp => writePos + Len(data) < Total
    /\ inTmp => wpc = "fill" /\ copied = 0

\* What the consumer uses: with ReadBegin the oldest cells, until they are given
\* back; with Read a block that starts at a multiple of its size.
Lending ==
    /\ rpc = "idle" => lent = Nothing
    /\ ~byBlocks /\ rpc # "idle" =>
          /\ rpc = "using" /\ lent.first = readPos
          /\ lent.len <= Filled
    /\ byBlocks =>
          /\ readPos % ReadSize = 0
          /\ rpc = "advance" => /\ lent.first = readPos /\ lent.len = ReadSize
                                /\ ReadSize <= Filled
                                /\ readPos + ReadSize <= Total

IInv == TypeOK /\ LentInBuf /\ AcceptedRunFits /\ InPlace /\ Lending
-----------------------------------------------------------------------------
LEMMA ModFacts ==
    ASSUME NEW x \in Int, -Total <= x, x <= Total
    PROVE  /\ x >= 0 /\ x < Total => x % Total = x
           /\ x < 0 => x % Total = x + Total
           /\ x = Total => x % Total = 0
<1>1. Total \in Nat /\ Total > 0
  BY BufAssumption
<1> QED
  BY <1>1, Z3

LEMMA TimesMonotone ==
    ASSUME NEW r \in Nat, NEW x \in Int, NEW y \in Int, x <= y
    PROVE  r * x <= r * y
<1>1. r * y = r * x + r * (y - x)
  OBVIOUS
<1>2. r * (y - x) >= 0
  BY Z3
<1> QED
  BY <1>1, <1>2

LEMMA NextMultiple ==
    ASSUME NEW a \in Nat, NEW b \in Nat, NEW r \in Nat, r > 0,
           a % r = 0, b % r = 0, a < b
    PROVE  a + r <= b /\ (a + r) % r = 0
<1> DEFINE k == a \div r
           m == b \div r
<1>1. k \in Int /\ m \in Int /\ a = r * k /\ b = r * m
  OBVIOUS
<1>2. k < m
  <2> SUFFICES ASSUME m <= k PROVE FALSE
    BY <1>1
  <2> HIDE DEF k, m
  <2>1. r * m <= r * k
    BY <1>1, TimesMonotone
  <2> QED
    BY <1>1, <2>1
<1>3. r * (k + 1) <= r * m
  <2> HIDE DEF k, m
  <2> QED
    BY <1>1, <1>2, TimesMonotone
<1>4. r * (k + 1) = a + r
  BY <1>1
<1>5. (r * (k + 1)) % r = 0
  <2> HIDE DEF k, m
  <2> QED
    BY <1>1, Z3
<1> QED
  BY <1>1, <1>3, <1>4, <1>5

LEMMA ConstantFacts ==
    /\ Total \in Nat /\ Total > 0 /\ MaxRun \in Nat /\ MaxRun > 0
    /\ ReadSize \in Nat /\ ReadSize > 0 /\ ReadSize < Total /\ Total % ReadSize = 0
BY BufAssumption

LEMMA SizeFacts ==
    ASSUME readPos \in Positions, writePos \in Positions
    PROVE  /\ Filled \in 0 .. Total - 1
           /\ AvailableSize = Filled
           /\ FreeSize = Total - 1 - Filled
<1>1. readPos \in Nat /\ writePos \in Nat /\ readPos < Total /\ writePos < Total
  BY ConstantFacts DEF Positions
<1>2. Filled \in 0 .. Total - 1
  BY <1>1, ConstantFacts DEF Filled
<1>3. AvailableSize = Filled
  <2>1. writePos - readPos \in Int /\ -Total <= writePos - readPos /\ writePos - readPos < Total
    BY <1>1, ConstantFacts
  <2> QED
    BY <1>1, <2>1, ModFacts, ConstantFacts DEF AvailableSize, Filled
<1>4. FreeSize = Total - 1 - Filled
  <2>1. readPos - writePos - 1 \in Int /\ -Total <= readPos - writePos - 1 /\ readPos - writePos - 1 < Total
    BY <1>1, ConstantFacts
  <2> QED
    BY <1>1, <2>1, ModFacts, ConstantFacts DEF FreeSize, Filled
<1> QED
  BY <1>2, <1>3, <1>4

LEMMA RunFacts ==
    ASSUME NEW run \in Runs \cup {<<>>}
    PROVE  /\ run \in Seq(Sample) /\ Len(run) \in 0 .. MaxRun
           /\ \A i \in 1 .. Len(run) : run[i] \in Sample
           /\ \A n \in 0 .. Len(run) : SubSeq(run, 1, n) \in Runs \cup {<<>>} /\ Len(SubSeq(run, 1, n)) = n
<1>1. CASE run = <<>>
  <2>1. run \in Seq(Sample) /\ Len(run) = 0
    BY <1>1
  <2>2. SubSeq(run, 1, 0) = <<>>
    BY <2>1
  <2> QED
    BY <2>1, <2>2, ConstantFacts
<1>2. CASE run \in Runs
  <2>1. PICK m \in 1 .. MaxRun : run \in [1 .. m -> Sample]
    BY <1>2 DEF Runs
  <2>2. run \in Seq(Sample) /\ Len(run) = m
    BY <2>1, ConstantFacts
  <2>3. ASSUME NEW n \in 0 .. m
        PROVE  SubSeq(run, 1, n) \in Runs \cup {<<>>} /\ Len(SubSeq(run, 1, n)) = n
    <3>1. SubSeq(run, 1, n) \in Seq(Sample) /\ Len(SubSeq(run, 1, n)) = n
      BY <2>2, <2>3
    <3>2. CASE n = 0
      BY <3>1, <3>2
    <3>3. CASE n # 0
      <4>1. SubSeq(run, 1, n) \in [1 .. n -> Sample]
        <5>1. SubSeq(run, 1, n) = [i \in 1 .. n |-> run[i]]
          BY <2>2, <2>3
        <5>2. \A i \in 1 .. n : run[i] \in Sample
          BY <2>1, <2>3, ConstantFacts
        <5> QED
          BY <5>1, <5>2
      <4>2. n \in 1 .. MaxRun
        BY <2>3, <3>3, ConstantFacts
      <4> QED
        BY <3>1, <4>1, <4>2 DEF Runs
    <3> QED
      BY <3>2, <3>3
  <2> QED
    BY <2>1, <2>2, <2>3
<1> QED
  BY <1>1, <1>2
-----------------------------------------------------------------------------
LEMMA InitIInv == Init => IInv
<1> SUFFICES ASSUME Init PROVE IInv
  OBVIOUS
<1>1. 0 \in Positions /\ 0 \in 0 .. Total
  BY ConstantFacts DEF Positions
<1>2. lent \in [first : Positions, len : 0 .. Total] /\ lent.first + lent.len = 0
  BY <1>1 DEF Init, Nothing
<1>3. data \in Runs \cup {<<>>} /\ Len(data) = 0 /\ copied \in 0 .. Len(data)
  BY DEF Init
<1>4. TypeOK
  BY <1>1, <1>2, <1>3 DEF Init, TypeOK
<1>5. LentInBuf /\ AcceptedRunFits /\ InPlace
  BY <1>2, ConstantFacts DEF Init, LentInBuf, AcceptedRunFits, InPlace
<1>6. 0 % ReadSize = 0
  BY ConstantFacts
<1>7. Lending
  BY <1>6 DEF Init, Lending
<1> QED
  BY <1>4, <1>5, <1>7 DEF IInv

\* Steps that leave the positions alone leave what is lent alone.
LEMMA ProducerStays ==
    ASSUME IInv, UNCHANGED <<readPos, writePos, rpc, lent, byBlocks>>
    PROVE  LentInBuf' /\ Lending' /\ FreeSize' = FreeSize /\ Filled' = Filled
BY DEF IInv, LentInBuf, Lending, FreeSize, Filled

LEMMA WriteIInv ==
    ASSUME IInv, NEW run \in Runs, Write(run) \/ WriteBegin(run) PROVE IInv'
<1>1. /\ wpc' \in {"fill", "copy"} /\ data' = run /\ copied' = 0
      /\ Len(run) <= FreeSize
      /\ UNCHANGED <<buf, readPos, writePos, rpc, lent, byBlocks>>
  BY DEF Write, WriteBegin, consumer
<1>2. Len(run) \in Nat
  BY RunFacts
<1>3. inTmp' \in BOOLEAN
  <2>1. CASE Write(run)
    BY <2>1 DEF Write
  <2>2. CASE WriteBegin(run)
    <3>1. inTmp' = (writePos + Len(run) >= Total)
      BY <2>2 DEF WriteBegin
    <3>2. (writePos + Len(run) >= Total) \in BOOLEAN
      OBVIOUS
    <3> QED
      BY <3>1, <3>2, Zenon
  <2> QED
    BY <2>1, <2>2
<1>4. inTmp' => wpc' = "fill"
  BY DEF Write, WriteBegin
<1>5. wpc' = "fill" /\ ~inTmp' => ~(writePos + Len(run) >= Total)
  BY DEF Write, WriteBegin
<1>6. TypeOK'
  <2>1. copied' \in 0 .. Len(data')
    BY <1>1, <1>2
  <2> QED
    BY <1>1, <1>3, <2>1 DEF IInv, TypeOK
<1>7. AcceptedRunFits'
  BY <1>1, ProducerStays DEF AcceptedRunFits
<1>8. InPlace'
  <2>1. writePos \in Nat
    BY ConstantFacts DEF IInv, TypeOK, Positions
  <2> QED
    BY <1>1, <1>2, <1>4, <1>5, <2>1, ConstantFacts DEF InPlace
<1> QED
  BY <1>1, <1>6, <1>7, <1>8, ProducerStays DEF IInv

\* The cell a run's next sample goes to: it is free.
LEMMA CellFacts ==
    ASSUME IInv, wpc # "idle", copied < Len(data)
    PROVE  /\ WriteCell(copied) \in Positions
           /\ \A d \in 0 .. Filled - 1 : readPos + d # WriteCell(copied) /\ readPos + d # WriteCell(copied) + Total
<1>1. /\ readPos \in Nat /\ readPos < Total /\ writePos \in Nat /\ writePos < Total
      /\ copied \in Nat /\ Filled \in Nat /\ copied < Total - 1 - Filled
  BY SizeFacts, RunFacts, ConstantFacts DEF IInv, TypeOK, Positions, AcceptedRunFits
<1>2. WriteCell(copied) \in Positions
  BY <1>1, ConstantFacts DEF WriteCell, Positions
<1>3. ASSUME NEW d \in 0 .. Filled - 1
      PROVE  readPos + d # WriteCell(copied) /\ readPos + d # WriteCell(copied) + Total
  BY <1>1, <1>3, ConstantFacts DEF WriteCell, Filled
<1> QED
  BY <1>2, <1>3

LEMMA CopyCellIInv == ASSUME IInv, CopyCell PROVE IInv'
<1>1. /\ wpc # "idle" /\ copied < Len(data) /\ copied' = copied + 1
      /\ buf' = [buf EXCEPT ![WriteCell(copied)] = data[copied + 1]]
      /\ UNCHANGED <<readPos, writePos, wpc, data, inTmp, rpc, lent, byBlocks>>
  BY DEF CopyCell, consumer
<1>2. copied + 1 \in 1 .. Len(data) /\ data[copied + 1] \in Sample
  BY <1>1, RunFacts DEF IInv, TypeOK
<1>3. buf' \in [Positions -> Sample]
  BY <1>1, <1>2, CellFacts DEF IInv, TypeOK
<1>4. TypeOK'
  BY <1>1, <1>2, <1>3 DEF IInv, TypeOK
<1>5. AcceptedRunFits'
  BY <1>1, ProducerStays DEF IInv, AcceptedRunFits
<1>6. InPlace'
  <2>1. ~inTmp
    BY <1>1 DEF CopyCell, IInv, InPlace
  <2> QED
    BY <1>1, <2>1 DEF IInv, InPlace
<1> QED
  BY <1>1, <1>4, <1>5, <1>6, ProducerStays DEF IInv

\* n more cells are filled when the write position moves on by n.
LEMMA WritePosMoves ==
    ASSUME IInv, NEW n \in Nat, n <= FreeSize,
           UNCHANGED <<readPos, rpc, lent, byBlocks>>,
           \/ writePos + n < Total /\ writePos' = writePos + n
           \/ writePos + n >= Total /\ writePos' = n - (Total - writePos)
    PROVE  writePos' \in Positions /\ Filled' = Filled + n /\ LentInBuf' /\ Lending'
<1>1. /\ readPos \in Nat /\ readPos < Total /\ writePos \in Nat /\ writePos < Total
      /\ Filled \in Nat /\ n <= Total - 1 - Filled
  BY SizeFacts, ConstantFacts DEF IInv, TypeOK, Positions
<1>2. writePos' \in Nat /\ writePos' < Total
  BY <1>1, ConstantFacts
<1>3. Filled' = Filled + n
  <2>1. CASE writePos + n < Total /\ writePos' = writePos + n
    BY <1>1, <2>1, ConstantFacts DEF Filled
  <2>2. CASE writePos + n >= Total /\ writePos' = n - (Total - writePos)
    BY <1>1, <2>2, ConstantFacts DEF Filled
  <2> QED
    BY <2>1, <2>2
<1>4. LentInBuf'
  BY DEF IInv, LentInBuf
<1>5. lent.len \in Nat
  BY ConstantFacts DEF IInv, TypeOK
<1>6. Lending'
  <2>1. ~byBlocks /\ rpc # "idle" => lent.len <= Filled'
    BY <1>1, <1>3, <1>5 DEF IInv, Lending
  <2>2. byBlocks /\ rpc = "advance" => ReadSize <= Filled'
    BY <1>1, <1>3, ConstantFacts DEF IInv, Lending
  <2> QED
    BY <2>1, <2>2 DEF IInv, Lending
<1> QED
  BY <1>2, <1>3, <1>4, <1>6, ConstantFacts DEF Positions

LEMMA WriteEndIInv == ASSUME IInv, NEW n \in 0 .. MaxRun, WriteEnd(n) PROVE IInv'
<1>1. /\ wpc = "fill" /\ inTmp' = FALSE
      /\ UNCHANGED <<buf, readPos, rpc, lent, byBlocks>>
  BY DEF WriteEnd, consumer
<1> inTmp' \in BOOLEAN
  BY <1>1, Zenon
<1>2. CASE inTmp /\ n <= FreeSize
  <2>1. /\ n <= Len(data) /\ wpc' = "copy" /\ data' = SubSeq(data, 1, n)
        /\ UNCHANGED <<writePos, copied>> /\ copied = 0
    BY <1>2 DEF WriteEnd, IInv, InPlace
  <2>2. Len(data) \in Nat /\ n \in 0 .. Len(data)
    BY <2>1, RunFacts, ConstantFacts DEF IInv, TypeOK
  <2>3. data' \in Runs \cup {<<>>} /\ Len(data') = n
    BY <2>1, <2>2, RunFacts DEF IInv, TypeOK
  <2>4. TypeOK'
    BY <1>1, <2>1, <2>2, <2>3 DEF IInv, TypeOK
  <2>5. AcceptedRunFits' /\ InPlace'
    BY <1>1, <1>2, <2>1, <2>3, ProducerStays DEF AcceptedRunFits, InPlace
  <2> QED
    BY <1>1, <2>1, <2>4, <2>5, ProducerStays DEF IInv
<1>3. CASE inTmp /\ ~(n <= FreeSize)
  <2>1. /\ wpc' = "idle" /\ data' = <<>>
        /\ UNCHANGED <<writePos, copied>> /\ copied = 0
    BY <1>3 DEF WriteEnd, IInv, InPlace
  <2>2. TypeOK'
    BY <1>1, <2>1 DEF IInv, TypeOK
  <2>3. AcceptedRunFits' /\ InPlace'
    BY <1>1, <2>1 DEF AcceptedRunFits, InPlace
  <2> QED
    BY <1>1, <2>1, <2>2, <2>3, ProducerStays DEF IInv
<1>4. CASE ~inTmp
  <2>1. /\ n = copied /\ writePos' = writePos + n
        /\ wpc' = "idle" /\ data' = <<>> /\ copied' = 0
    BY <1>4 DEF WriteEnd
  <2>2. /\ n \in Nat /\ n <= Len(data) /\ Len(data) \in Nat
        /\ Len(data) <= FreeSize /\ writePos + Len(data) < Total
    BY <1>1, <1>4, <2>1, RunFacts DEF IInv, TypeOK, AcceptedRunFits, InPlace
  <2>3. FreeSize \in Int /\ writePos \in Nat /\ Total \in Nat
    BY SizeFacts, ConstantFacts DEF IInv, TypeOK, Positions
  <2>4. n <= FreeSize /\ writePos + n < Total
    BY <2>2, <2>3
  <2>5. writePos' \in Positions /\ LentInBuf' /\ Lending'
    BY <1>1, <2>1, <2>2, <2>4, WritePosMoves
  <2>6. TypeOK'
    BY <1>1, <2>1, <2>5 DEF IInv, TypeOK
  <2> QED
    BY <1>1, <2>1, <2>5, <2>6 DEF IInv, AcceptedRunFits, InPlace
<1> QED
  BY <1>2, <1>3, <1>4

LEMMA PublishIInv == ASSUME IInv, Publish PROVE IInv'
<1>1. /\ wpc = "copy" /\ copied = Len(data) /\ writePos' = WriteAfter(copied)
      /\ wpc' = "idle" /\ data' = <<>> /\ copied' = 0
      /\ UNCHANGED <<buf, readPos, inTmp, rpc, lent, byBlocks>>
  BY DEF Publish, consumer
<1>2. copied \in Nat /\ copied <= FreeSize /\ writePos \in Nat /\ Total \in Nat
  BY <1>1, RunFacts, ConstantFacts DEF IInv, TypeOK, AcceptedRunFits, Positions
<1>3. writePos' \in Positions /\ LentInBuf' /\ Lending'
  BY <1>1, <1>2, WritePosMoves DEF WriteAfter
<1>4. TypeOK'
  BY <1>1, <1>3 DEF IInv, TypeOK
<1>5. InPlace'
  BY <1>1 DEF IInv, InPlace
<1> QED
  BY <1>1, <1>3, <1>4, <1>5 DEF IInv, AcceptedRunFits
-----------------------------------------------------------------------------
LEMMA PositionFacts ==
    ASSUME IInv
    PROVE  /\ readPos \in Nat /\ readPos < Total /\ writePos \in Nat /\ writePos < Total
           /\ Filled \in Nat /\ Filled < Total
           /\ lent.first \in Nat /\ lent.len \in Nat
BY SizeFacts, ConstantFacts DEF IInv, TypeOK, Positions

\* As long as the read position stays, the producer's room does.
LEMMA ConsumerTakes ==
    ASSUME IInv, UNCHANGED <<buf, readPos, writePos, wpc, data, copied, inTmp>>
    PROVE  AcceptedRunFits' /\ InPlace' /\ FreeSize' = FreeSize /\ Filled' = Filled
BY DEF IInv, AcceptedRunFits, InPlace, FreeSize, Filled

LEMMA ReadBeginIInv == ASSUME IInv, ReadBegin PROVE IInv'
<1> DEFINE n == IF readPos < writePos THEN writePos - readPos ELSE Total - readPos
<1>1. /\ ~byBlocks /\ readPos # writePos /\ rpc' = "using"
      /\ lent' = [first |-> readPos, len |-> n]
      /\ UNCHANGED <<buf, readPos, writePos, wpc, data, copied, inTmp, byBlocks>>
  BY DEF ReadBegin, producer
<1>2. n \in 0 .. Total /\ readPos + n <= Total /\ n <= Filled
  BY <1>1, PositionFacts, ConstantFacts DEF Filled
<1> HIDE DEF n
<1>3. lent' \in [first : Positions, len : 0 .. Total]
  BY <1>1, <1>2 DEF IInv, TypeOK
<1>4. TypeOK'
  BY <1>1, <1>3 DEF IInv, TypeOK
<1>5. LentInBuf' /\ Lending'
  BY <1>1, <1>2, ConsumerTakes DEF LentInBuf, Lending
<1> QED
  BY <1>1, <1>4, <1>5, ConsumerTakes DEF IInv

\* n cells fewer are filled when the read position moves on by n.
LEMMA ReadPosMoves ==
    ASSUME IInv, NEW n \in Nat, n <= Filled, readPos + n <= Total,
           UNCHANGED <<writePos, wpc, data, copied, inTmp>>,
           readPos' = IF readPos + n = Total THEN 0 ELSE readPos + n
    PROVE  readPos' \in Positions /\ Filled' = Filled - n /\ AcceptedRunFits' /\ InPlace'
<1>1. readPos' \in Nat /\ readPos' < Total
  BY PositionFacts, ConstantFacts
<1>2. Filled' = Filled - n
  <2>1. CASE readPos + n = Total
    BY <2>1, PositionFacts, ConstantFacts DEF Filled
  <2>2. CASE readPos + n # Total
    BY <2>2, PositionFacts, ConstantFacts DEF Filled
  <2> QED
    BY <2>1, <2>2
<1>3. readPos' \in Positions /\ writePos' \in Positions
  BY <1>1, ConstantFacts DEF IInv, TypeOK, Positions
<1>4. FreeSize' = Total - 1 - Filled'
  <2>1. (readPos \in Positions /\ writePos \in Positions)' => (FreeSize = Total - 1 - Filled)'
    BY SizeFacts, PTL
  <2> QED
    BY <1>3, <2>1
<1>5. AcceptedRunFits'
  <2>1. FreeSize = Total - 1 - Filled /\ Filled \in Nat
    BY SizeFacts, PositionFacts DEF IInv, TypeOK
  <2>2. Len(data) \in Nat
    BY RunFacts DEF IInv, TypeOK
  <2>3. FreeSize' >= FreeSize /\ FreeSize' \in Int /\ FreeSize \in Int
    BY <1>2, <1>4, <2>1, ConstantFacts
  <2> QED
    BY <2>2, <2>3 DEF IInv, AcceptedRunFits
<1>6. InPlace'
  BY DEF IInv, InPlace
<1> QED
  BY <1>2, <1>3, <1>5, <1>6

LEMMA ReadEndIInv == ASSUME IInv, ReadEnd PROVE IInv'
<1>1. /\ ~byBlocks /\ rpc = "using" /\ rpc' = "idle" /\ lent' = Nothing
      /\ readPos' = (readPos + lent.len) % Total
      /\ UNCHANGED <<buf, writePos, wpc, data, copied, inTmp, byBlocks>>
  BY DEF ReadEnd, producer
<1>2. lent.len <= Filled /\ readPos + lent.len <= Total
  BY <1>1 DEF IInv, Lending, LentInBuf
<1>3. readPos' = IF readPos + lent.len = Total THEN 0 ELSE readPos + lent.len
  <2>1. readPos + lent.len \in Int /\ readPos + lent.len >= 0 /\ -Total <= readPos + lent.len
    BY PositionFacts, ConstantFacts
  <2> QED
    BY <1>1, <1>2, <2>1, ModFacts, ConstantFacts
<1>4. readPos' \in Positions /\ AcceptedRunFits' /\ InPlace'
  BY <1>1, <1>2, <1>3, PositionFacts, ReadPosMoves
<1>5. lent' \in [first : Positions, len : 0 .. Total] /\ LentInBuf'
  BY <1>1, ConstantFacts DEF Nothing, Positions, LentInBuf
<1>6. TypeOK'
  BY <1>1, <1>4, <1>5 DEF IInv, TypeOK
<1>7. Lending'
  BY <1>1 DEF Lending
<1> QED
  BY <1>4, <1>5, <1>6, <1>7 DEF IInv

LEMMA ReadIInv == ASSUME IInv, Read PROVE IInv'
<1>1. /\ byBlocks /\ rpc' = "advance" /\ AvailableSize >= ReadSize
      /\ lent' = [first |-> readPos, len |-> ReadSize]
      /\ UNCHANGED <<buf, readPos, writePos, wpc, data, copied, inTmp, byBlocks>>
  BY DEF Read, producer
<1>2. ReadSize <= Filled
  BY <1>1, SizeFacts DEF IInv, TypeOK
<1>3. readPos % ReadSize = 0
  BY <1>1 DEF IInv, Lending
<1>4. readPos + ReadSize <= Total
  BY <1>3, PositionFacts, ConstantFacts, NextMultiple
<1>5. lent' \in [first : Positions, len : 0 .. Total]
  BY <1>1, ConstantFacts DEF IInv, TypeOK
<1>6. TypeOK'
  BY <1>1, <1>5 DEF IInv, TypeOK
<1>7. LentInBuf' /\ Lending'
  BY <1>1, <1>2, <1>3, <1>4, ConsumerTakes DEF LentInBuf, Lending
<1> QED
  BY <1>1, <1>6, <1>7, ConsumerTakes DEF IInv

LEMMA AdvanceIInv == ASSUME IInv, Advance PROVE IInv'
<1>1. byBlocks
  BY DEF Advance, IInv, Lending
<1>2. /\ rpc = "advance" /\ rpc' = "using"
      /\ readPos' = IF readPos + ReadSize >= Total THEN 0 ELSE readPos + ReadSize
      /\ UNCHANGED <<buf, writePos, wpc, data, copied, inTmp, lent, byBlocks>>
  BY DEF Advance, producer
<1>3. ReadSize <= Filled /\ readPos + ReadSize <= Total /\ readPos % ReadSize = 0
  BY <1>1, <1>2 DEF IInv, Lending
<1>4. readPos' = IF readPos + ReadSize = Total THEN 0 ELSE readPos + ReadSize
  BY <1>2, <1>3, PositionFacts, ConstantFacts
<1>5. readPos' \in Positions /\ AcceptedRunFits' /\ InPlace'
  BY <1>2, <1>3, <1>4, ConstantFacts, ReadPosMoves
<1>6. readPos' % ReadSize = 0
  <2>1. (readPos + ReadSize) % ReadSize = 0
    BY <1>3, PositionFacts, ConstantFacts, NextMultiple
  <2>2. 0 % ReadSize = 0
    BY ConstantFacts
  <2> QED
    BY <1>4, <2>1, <2>2
<1>7. TypeOK'
  BY <1>2, <1>5 DEF IInv, TypeOK
<1>8. LentInBuf' /\ Lending'
  BY <1>1, <1>2, <1>6 DEF IInv, LentInBuf, Lending
<1> QED
  BY <1>5, <1>7, <1>8 DEF IInv

LEMMA UsedIInv == ASSUME IInv, Used PROVE IInv'
<1>1. /\ byBlocks /\ rpc' = "idle" /\ lent' = Nothing
      /\ UNCHANGED <<buf, readPos, writePos, wpc, data, copied, inTmp, byBlocks>>
  BY DEF Used, producer
<1>2. lent' \in [first : Positions, len : 0 .. Total] /\ LentInBuf'
  BY <1>1, ConstantFacts DEF Nothing, Positions, LentInBuf
<1>3. TypeOK'
  BY <1>1, <1>2 DEF IInv, TypeOK
<1>4. Lending'
  BY <1>1 DEF IInv, Lending
<1> QED
  BY <1>1, <1>2, <1>3, <1>4, ConsumerTakes DEF IInv

LEMMA NextIInv == IInv /\ [Next]_vars => IInv'
<1> SUFFICES ASSUME IInv, [Next]_vars PROVE IInv'
  OBVIOUS
<1>1. CASE Producer
  BY <1>1, WriteIInv, CopyCellIInv, WriteEndIInv, PublishIInv DEF Producer
<1>2. CASE Consumer
  BY <1>2, ReadBeginIInv, ReadEndIInv, ReadIInv, AdvanceIInv, UsedIInv DEF Consumer
<1>3. CASE UNCHANGED vars
  <2>1. UNCHANGED <<buf, readPos, writePos, wpc, data, copied, inTmp, rpc, lent, byBlocks>>
    BY <1>3 DEF vars
  <2>2. TypeOK'
    BY <2>1 DEF IInv, TypeOK
  <2> QED
    BY <2>1, <2>2, ProducerStays, ConsumerTakes DEF IInv
<1> QED
  BY <1>1, <1>2, <1>3 DEF Next

LEMMA SpecIInv == Spec => []IInv
BY InitIInv, NextIInv, PTL DEF Spec
-----------------------------------------------------------------------------
\* Read need not look at the end of the ring: blocks of one size that divides
\* the ring's never cross it, and ReadBegin stops there.
THEOREM ReadsStayInBuf == Spec => []LentInBuf
<1>1. IInv => LentInBuf
  BY DEF IInv
<1> QED
  BY <1>1, SpecIInv, PTL

\* FreeSize is checked before a run is written and used after: the consumer, at
\* work in between, can only have made more room.
THEOREM AcceptedRunsFit == Spec => []AcceptedRunFits
<1>1. IInv => AcceptedRunFits
  BY DEF IInv
<1> QED
  BY <1>1, SpecIInv, PTL

LEMMA StepKeepsBorrowed ==
    IInv /\ [Next]_vars => (~byBlocks => LentKept)
<1> SUFFICES ASSUME IInv, [Next]_vars, ~byBlocks, lent' = lent,
                    NEW i \in lent.first .. lent.first + lent.len - 1
             PROVE  buf'[i] = buf[i]
  BY DEF LentKept
<1>1. CASE CopyCell
  <2>1. wpc # "idle" /\ copied < Len(data)
    BY <1>1 DEF CopyCell
  <2>2. rpc # "idle"
    <3> SUFFICES ASSUME rpc = "idle" PROVE FALSE
      OBVIOUS
    <3>1. lent.first = 0 /\ lent.len = 0
      BY DEF IInv, Lending, Nothing
    <3> QED
      BY <3>1
  <2>3. lent.first = readPos /\ lent.len <= Filled
    BY <2>2 DEF IInv, Lending
  <2>4. i - readPos \in 0 .. Filled - 1 /\ i = readPos + (i - readPos)
    BY <2>3, PositionFacts
  <2>5. i # WriteCell(copied)
    BY <2>1, <2>4, CellFacts
  <2>6. buf' = [buf EXCEPT ![WriteCell(copied)] = data[copied + 1]]
    BY <1>1 DEF CopyCell
  <2> QED
    BY <2>5, <2>6 DEF IInv, TypeOK
<1>2. CASE ~CopyCell
  <2>1. buf' = buf
    BY <1>2 DEF Next, Producer, Consumer, Write, WriteBegin, WriteEnd, Publish,
                ReadBegin, ReadEnd, Read, Advance, Used, vars
  <2> QED
    BY <2>1
<1> QED
  BY <1>1, <1>2

\* However full the ring is, the resampler's cells stay as they are until it
\* gives them back.
THEOREM BorrowedCellsAreKept == Spec => BorrowedCellsKept
<1>1. IInv /\ [Next]_vars => [~byBlocks => LentKept]_vars
  BY StepKeepsBorrowed
<1> QED
  BY <1>1, SpecIInv, PTL DEF Spec, BorrowedCellsKept
-----------------------------------------------------------------------------
\* For the refinement: the cells of the run that are already copied hold it, and
\* ReadBegin has lent something.
Copied ==
    /\ wpc # "idle" /\ ~inTmp =>
          \A k \in 0 .. copied - 1 : buf[WriteCell(k)] = data[k + 1]
    /\ ~byBlocks /\ rpc = "using" => lent.len >= 1

LEMMA InitCopied == Init => Copied
BY DEF Init, Copied

LEMMA CopyCellCopied ==
    ASSUME IInv, Copied, CopyCell
    PROVE  Copied' /\ \A d \in 0 .. Filled - 1 :
                         LET c == IF readPos + d < Total THEN readPos + d ELSE readPos + d - Total
                         IN  buf'[c] = buf[c]
<1>1. /\ wpc # "idle" /\ ~inTmp /\ copied < Len(data) /\ copied' = copied + 1
      /\ buf' = [buf EXCEPT ![WriteCell(copied)] = data[copied + 1]]
      /\ UNCHANGED <<readPos, writePos, wpc, data, inTmp, rpc, lent, byBlocks>>
  BY DEF CopyCell, consumer, IInv, InPlace
<1>2. WriteCell(copied) \in Positions /\ buf \in [Positions -> Sample]
  BY <1>1, CellFacts DEF IInv, TypeOK
<1>3. copied \in Nat /\ copied < Total /\ writePos \in Nat /\ writePos < Total
  BY <1>1, SizeFacts, RunFacts, ConstantFacts DEF IInv, TypeOK, AcceptedRunFits, Positions
<1>4. ASSUME NEW k \in 0 .. copied
      PROVE  buf'[WriteCell(k)] = data[k + 1]
  <2>1. CASE k = copied
    BY <1>1, <1>2, <2>1
  <2>2. CASE k < copied
    <3>1. WriteCell(k) \in Positions /\ WriteCell(k) # WriteCell(copied)
      BY <1>3, <2>2, ConstantFacts DEF WriteCell, Positions
    <3>2. buf[WriteCell(k)] = data[k + 1]
      BY <1>1, <1>3, <2>2 DEF Copied
    <3> QED
      BY <1>1, <1>2, <3>1, <3>2
  <2> QED
    BY <1>3, <2>1, <2>2
<1>5. Copied'
  <2>1. copied' - 1 = copied /\ data' = data
    BY <1>1, <1>3
  <2>2. \A k \in 0 .. copied : WriteCell(k)' = WriteCell(k)
    BY <1>1 DEF WriteCell
  <2>3. \A k \in 0 .. copied' - 1 : buf'[WriteCell(k)'] = data'[k + 1]
    BY <1>4, <2>1, <2>2
  <2> QED
    BY <1>1, <2>3 DEF Copied
<1>6. ASSUME NEW d \in 0 .. Filled - 1,
             NEW c, c = IF readPos + d < Total THEN readPos + d ELSE readPos + d - Total
      PROVE  buf'[c] = buf[c]
  <2>1. readPos + d # WriteCell(copied) /\ readPos + d # WriteCell(copied) + Total
    BY <1>1, <1>6, CellFacts
  <2>2. WriteCell(copied) \in Int /\ d \in Int
    BY <1>2, <1>6, PositionFacts DEF Positions
  <2>3. c # WriteCell(copied)
    BY <1>6, <2>1, <2>2, PositionFacts, ConstantFacts
  <2>4. c \in Positions
    BY <1>6, PositionFacts, ConstantFacts DEF Positions
  <2> QED
    BY <1>1, <1>2, <2>3, <2>4
<1> QED
  BY <1>5, <1>6

LEMMA NextCopied == IInv /\ Copied /\ [Next]_vars => Copied'
<1> SUFFICES ASSUME IInv, Copied, [Next]_vars PROVE Copied'
  OBVIOUS
<1>1. ASSUME NEW run \in Runs, Write(run) \/ WriteBegin(run)
      PROVE  Copied'
  BY <1>1 DEF Write, WriteBegin, consumer, Copied
<1>2. CASE CopyCell
  BY <1>2, CopyCellCopied
<1>3. ASSUME NEW n \in 0 .. MaxRun, WriteEnd(n)
      PROVE  Copied'
  <2>1. inTmp => copied = 0
    BY DEF IInv, InPlace
  <2> QED
    BY <1>3, <2>1 DEF WriteEnd, consumer, Copied
<1>4. CASE Publish
  BY <1>4 DEF Publish, consumer, Copied
<1>5. CASE ReadBegin
  <2>1. /\ readPos # writePos
        /\ lent'.len = IF readPos < writePos THEN writePos - readPos ELSE Total - readPos
    BY <1>5 DEF ReadBegin
  <2>2. lent'.len >= 1
    BY <2>1, PositionFacts, ConstantFacts
  <2> QED
    BY <1>5, <2>2 DEF ReadBegin, producer, Copied, WriteCell
<1>6. CASE ReadEnd \/ Read \/ Used
  BY <1>6 DEF ReadEnd, Read, Used, producer, Copied, WriteCell
<1>7. CASE Advance
  BY <1>7 DEF Advance, producer, Copied, WriteCell, IInv, Lending
<1>8. CASE UNCHANGED vars
  BY <1>8 DEF vars, Copied, WriteCell
<1> QED
  BY <1>1, <1>2, <1>3, <1>4, <1>5, <1>6, <1>7, <1>8 DEF Next, Producer, Consumer

LEMMA SpecCopied == Spec => [](IInv /\ Copied)
<1>1. IInv /\ Copied /\ [Next]_vars => IInv' /\ Copied'
  BY NextIInv, NextCopied
<1> QED
  BY <1>1, InitIInv, InitCopied, PTL DEF Spec
-----------------------------------------------------------------------------
\* The cell of the i-th frame in the queue.
FrameCell(i) == IF readPos + i - 1 < Total THEN readPos + i - 1 ELSE readPos + i - 1 - Total

LEMMA QueueFacts ==
    ASSUME IInv
    PROVE  /\ Queue \in Seq(Sample)
           /\ Len(Queue) = Filled
           /\ \A i \in 1 .. Filled : FrameCell(i) \in Positions /\ Queue[i] = buf[FrameCell(i)]
<1>1. AvailableSize = Filled
  BY SizeFacts DEF IInv, TypeOK
<1>2. ASSUME NEW i \in 1 .. Filled
      PROVE  (readPos + i - 1) % Total = FrameCell(i) /\ FrameCell(i) \in Positions
  <2>1. CASE readPos + i - 1 < Total
    <3>1. /\ readPos + i - 1 \in Int /\ -Total <= readPos + i - 1
          /\ readPos + i - 1 <= Total /\ readPos + i - 1 >= 0
      BY <1>2, <2>1, PositionFacts, ConstantFacts
    <3>2. (readPos + i - 1) % Total = readPos + i - 1
      BY <2>1, <3>1, ModFacts
    <3> QED
      BY <2>1, <3>1, <3>2, ConstantFacts DEF FrameCell, Positions
  <2>2. CASE ~(readPos + i - 1 < Total)
    <3>1. /\ readPos + i - 1 - Total \in Int /\ -Total <= readPos + i - 1 - Total
          /\ readPos + i - 1 - Total < Total /\ readPos + i - 1 - Total >= 0
      BY <1>2, <2>2, PositionFacts, ConstantFacts
    <3>2. (readPos + i - 1 - Total) % Total = readPos + i - 1 - Total
      BY <3>1, ModFacts, ConstantFacts
    <3>3. (readPos + i - 1) % Total = readPos + i - 1 - Total
      <4> DEFINE x == readPos + i - 1 - Total
      <4>1. x \in Nat /\ x < Total /\ readPos + i - 1 = x + Total
        BY <1>2, <3>1, PositionFacts, ConstantFacts
      <4> HIDE DEF x
      <4>2. (x + Total) % Total = x
        BY <4>1, ConstantFacts, Z3
      <4> QED
        BY <4>1, <4>2 DEF x
    <3> QED
      BY <2>2, <3>1, <3>3, ConstantFacts DEF FrameCell, Positions
  <2> QED
    BY <2>1, <2>2
<1>3. Queue = [i \in 1 .. Filled |-> buf[FrameCell(i)]]
  BY <1>1, <1>2 DEF Queue
<1>4. \A i \in 1 .. Filled : buf[FrameCell(i)] \in Sample
  BY <1>2 DEF IInv, TypeOK
<1>5. Filled \in Nat
  BY PositionFacts
<1> QED
  BY <1>2, <1>3, <1>4, <1>5

LEMMA QueueFactsNext ==
    ASSUME IInv'
    PROVE  /\ Queue' \in Seq(Sample)
           /\ Len(Queue') = Filled'
           /\ \A i \in 1 .. Filled' : Queue'[i] = buf'[FrameCell(i)']
<1>1. IInv' => (/\ Queue \in Seq(Sample)
                /\ Len(Queue) = Filled
                /\ \A i \in 1 .. Filled : FrameCell(i) \in Positions /\ Queue[i] = buf[FrameCell(i)])'
  BY QueueFacts, PTL
<1> QED
  BY <1>1

\* A step that leaves the positions and the filled cells leaves the queue.
LEMMA QueueStays ==
    ASSUME IInv, IInv', UNCHANGED <<readPos, writePos>>,
           \A i \in 1 .. Filled : buf'[FrameCell(i)] = buf[FrameCell(i)]
    PROVE  Queue' = Queue
<1>1. Filled' = Filled /\ \A i \in 1 .. Filled : FrameCell(i)' = FrameCell(i)
  BY DEF Filled, FrameCell
<1>2. Queue' \in Seq(Sample) /\ Queue \in Seq(Sample) /\ Len(Queue') = Len(Queue)
  BY <1>1, QueueFacts, QueueFactsNext
<1>3. \A i \in 1 .. Len(Queue') : Queue'[i] = Queue[i]
  BY <1>1, QueueFacts, QueueFactsNext
<1> QED
  BY <1>2, <1>3, SeqEqual

\* The cells of a run follow those of the queue.
LEMMA RunEndsTheQueue ==
    ASSUME IInv, NEW k \in Nat, Filled + k < Total
    PROVE  FrameCell(Filled + k + 1) = WriteCell(k)
<1>1. readPos + (Filled + k + 1) - 1 = readPos + Filled + k
  BY PositionFacts
<1>2. CASE readPos <= writePos
  <2>1. readPos + Filled + k = writePos + k
    BY <1>2, PositionFacts DEF Filled
  <2> QED
    BY <1>1, <2>1, PositionFacts, ConstantFacts DEF FrameCell, WriteCell
<1>3. CASE ~(readPos <= writePos)
  <2>1. readPos + Filled + k = writePos + k + Total /\ writePos + k < Total
    BY <1>3, PositionFacts, ConstantFacts DEF Filled
  <2> QED
    BY <1>1, <2>1, PositionFacts, ConstantFacts DEF FrameCell, WriteCell
<1> QED
  BY <1>2, <1>3

\* A run of n cells that is published is appended.
LEMMA QueueGrows ==
    ASSUME IInv, IInv', NEW n \in 0 .. Len(data), n <= FreeSize,
           UNCHANGED <<buf, readPos>>, Filled' = Filled + n,
           \A k \in 0 .. n - 1 : buf[WriteCell(k)] = data[k + 1]
    PROVE  Queue' = Queue \o SubSeq(data, 1, n) /\ Len(Queue) + n <= Total - 1
<1> DEFINE part == SubSeq(data, 1, n)
<1>1. /\ data \in Seq(Sample) /\ Len(data) \in Nat
      /\ \A i \in 1 .. Len(data) : data[i] \in Sample
  BY RunFacts DEF IInv, TypeOK
<1>2. /\ part \in Seq(Sample) /\ Len(part) = n
      /\ \A i \in 1 .. n : part[i] = data[i]
  BY <1>1, SubSeqProperties
<1> HIDE DEF part
<1>3. Filled \in Nat /\ n \in Nat /\ Filled + n <= Total - 1
  BY SizeFacts, <1>1, ConstantFacts DEF IInv, TypeOK
<1>4. /\ Queue \in Seq(Sample) /\ Len(Queue) = Filled
      /\ Queue' \in Seq(Sample) /\ Len(Queue') = Filled + n
  BY QueueFacts, QueueFactsNext
<1>5. /\ Queue \o part \in Seq(Sample) /\ Len(Queue \o part) = Filled + n
      /\ \A i \in 1 .. Filled + n :
            (Queue \o part)[i] = IF i <= Filled THEN Queue[i] ELSE part[i - Filled]
  BY <1>2, <1>4, ConcatProperties
<1>6. ASSUME NEW i \in 1 .. Filled + n
      PROVE  Queue'[i] = (Queue \o part)[i]
  <2>1. Queue'[i] = buf[FrameCell(i)]
    <3>1. FrameCell(i)' = FrameCell(i)
      BY DEF FrameCell
    <3> QED
      BY <1>6, <3>1, QueueFactsNext
  <2>2. CASE i <= Filled
    BY <1>3, <1>5, <1>6, <2>1, <2>2, QueueFacts
  <2>3. CASE i > Filled
    <3> DEFINE k == i - Filled - 1
    <3>1. k \in 0 .. n - 1 /\ i - Filled = k + 1 /\ k + 1 \in 1 .. n
      BY <1>3, <1>6, <2>3
    <3>2. FrameCell(i) = WriteCell(k)
      <4>1. k \in Nat /\ i = Filled + k + 1 /\ Filled + k < Total
        BY <1>3, <1>6, <3>1, ConstantFacts
      <4> HIDE DEF k
      <4> QED
        BY <4>1, RunEndsTheQueue
    <3> HIDE DEF k
    <3>3. (Queue \o part)[i] = data[k + 1]
      BY <1>2, <1>3, <1>5, <1>6, <2>3, <3>1
    <3> QED
      BY <2>1, <3>1, <3>2, <3>3
  <2>4. i <= Filled \/ i > Filled
    BY <1>3, <1>6
  <2> QED
    BY <2>2, <2>3, <2>4
<1>7. Queue' = Queue \o part
  BY <1>4, <1>5, <1>6, SeqEqual
<1> QED
  BY <1>3, <1>4, <1>7 DEF part

\* n frames leave the queue at its front when the read position moves on by n.
LEMMA QueueShrinks ==
    ASSUME IInv, IInv', NEW n \in 1 .. Filled, readPos + n <= Total,
           buf' = buf, Filled' = Filled - n,
           readPos' = IF readPos + n = Total THEN 0 ELSE readPos + n
    PROVE  n \in 1 .. Len(Queue) /\ Queue' = SubSeq(Queue, n + 1, Len(Queue))
<1> DEFINE rest == SubSeq(Queue, n + 1, Filled)
<1>1. Filled \in Nat /\ n \in Nat /\ n <= Filled /\ Filled < Total
  BY PositionFacts
<1>2. Queue \in Seq(Sample) /\ Len(Queue) = Filled
  BY QueueFacts
<1>3. \A i \in n + 1 .. Filled : Queue[i] \in Sample
  BY <1>1, <1>2
<1>4. /\ rest \in Seq(Sample) /\ Len(rest) = Filled - n
      /\ \A i \in 1 .. Filled - n : rest[i] = Queue[n + i]
  <2>1. /\ rest \in Seq(Sample)
        /\ Len(rest) = IF n + 1 <= Filled THEN Filled - (n + 1) + 1 ELSE 0
        /\ \A i \in 1 .. Filled - (n + 1) + 1 : rest[i] = Queue[n + 1 + i - 1]
    BY <1>1, <1>3, SubSeqProperties
  <2> HIDE DEF rest
  <2> QED
    BY <1>1, <2>1
<1> HIDE DEF rest
<1>5. Queue' \in Seq(Sample) /\ Len(Queue') = Filled - n
  BY QueueFactsNext
<1>6. ASSUME NEW i \in 1 .. Filled - n
      PROVE  Queue'[i] = rest[i]
  <2>1. FrameCell(i)' = FrameCell(n + i)
    BY <1>1, <1>6, PositionFacts, ConstantFacts DEF FrameCell
  <2>2. n + i \in 1 .. Filled
    BY <1>1, <1>6
  <2>3. Queue'[i] = buf[FrameCell(n + i)]
    BY <1>6, <2>1, QueueFactsNext
  <2>4. Queue[n + i] = buf[FrameCell(n + i)]
    BY <2>2, QueueFacts
  <2> QED
    BY <1>4, <1>6, <2>3, <2>4
<1>7. Queue' = rest
  BY <1>4, <1>5, <1>6, SeqEqual
<1> QED
  BY <1>1, <1>2, <1>7 DEF rest
-----------------------------------------------------------------------------
LEMMA InitRefines == Init => Fifo!Init
<1> SUFFICES ASSUME Init PROVE Fifo!Init
  OBVIOUS
<1>1. IInv /\ Filled = 0
  BY InitIInv DEF Init, Filled
<1>2. Queue \in Seq(Sample) /\ Len(Queue) = 0
  BY <1>1, QueueFacts
<1> QED
  BY <1>2 DEF Init, Fifo!Init

LEMMA ARunIsAnOffer ==
    ASSUME NEW run \in Runs \cup {<<>>}
    PROVE  run \in UNION { [1 .. n -> Sample] : n \in 0 .. MaxRun }
<1>1. Len(run) \in 0 .. MaxRun /\ run \in [1 .. Len(run) -> Sample]
  BY RunFacts
<1> QED
  BY <1>1

LEMMA ProducerRefines ==
    ASSUME IInv, Copied, IInv', Producer PROVE [Fifo!Next]_(Fifo!vars)
<1>1. ASSUME UNCHANGED <<buf, readPos, writePos>>
      PROVE  Fifo!Offer
  <2>1. Queue' = Queue
    BY <1>1, QueueStays
  <2>2. data' \in UNION { [1 .. n -> Sample] : n \in 0 .. MaxRun }
    BY ARunIsAnOffer DEF IInv, TypeOK
  <2> QED
    BY <2>1, <2>2 DEF Fifo!Offer
<1>2. CASE CopyCell
  <2>1. UNCHANGED <<readPos, writePos, data>>
    BY <1>2 DEF CopyCell
  <2>2. ASSUME NEW i \in 1 .. Filled
        PROVE  buf'[FrameCell(i)] = buf[FrameCell(i)]
    <3>1. i - 1 \in 0 .. Filled - 1 /\ readPos + (i - 1) = readPos + i - 1
      BY <2>2, PositionFacts
    <3> QED
      BY <1>2, <3>1, CopyCellCopied DEF FrameCell
  <2> QED
    BY <2>1, <2>2, QueueStays DEF Fifo!vars
<1>3. ASSUME NEW n \in 0 .. MaxRun, WriteEnd(n), ~inTmp
      PROVE  Fifo!Put
  <2>1. /\ wpc = "fill" /\ n = copied /\ writePos' = writePos + n /\ data' = <<>>
        /\ UNCHANGED <<buf, readPos, rpc, lent, byBlocks>>
    BY <1>3 DEF WriteEnd, consumer
  <2>2. /\ Len(data) \in Nat /\ n \in Nat /\ n <= Len(data)
        /\ Len(data) <= FreeSize /\ writePos + Len(data) < Total
    BY <1>3, <2>1, RunFacts DEF IInv, TypeOK, AcceptedRunFits, InPlace
  <2>3. n \in 0 .. Len(data) /\ n <= FreeSize /\ writePos + n < Total
    <3>1. FreeSize \in Int /\ writePos \in Nat /\ Total \in Nat
      BY SizeFacts, PositionFacts, ConstantFacts DEF IInv, TypeOK
    <3> QED
      BY <2>2, <3>1
  <2>4. Filled' = Filled + n
    BY <2>1, <2>2, <2>3, WritePosMoves
  <2>5. \A k \in 0 .. n - 1 : buf[WriteCell(k)] = data[k + 1]
    BY <1>3, <2>1 DEF Copied
  <2> QED
    BY <2>1, <2>3, <2>4, <2>5, QueueGrows, QueueFacts DEF Fifo!Put
<1>4. CASE Publish
  <2>1. /\ wpc = "copy" /\ copied = Len(data) /\ writePos' = WriteAfter(copied)
        /\ data' = <<>> /\ UNCHANGED <<buf, readPos, rpc, lent, byBlocks>>
    BY <1>4 DEF Publish, consumer
  <2>2. /\ copied \in Nat /\ copied \in 0 .. Len(data) /\ copied <= FreeSize
        /\ writePos \in Nat /\ Total \in Nat
    BY <2>1, RunFacts, PositionFacts, ConstantFacts DEF IInv, TypeOK, AcceptedRunFits
  <2>3. Filled' = Filled + copied
    BY <2>1, <2>2, WritePosMoves DEF WriteAfter
  <2>4. \A k \in 0 .. copied - 1 : buf[WriteCell(k)] = data[k + 1]
    BY <2>1 DEF Copied, IInv, InPlace
  <2>5. Queue' = Queue \o SubSeq(data, 1, copied) /\ Len(Queue) + copied <= Total - 1
    BY <2>1, <2>2, <2>3, <2>4, QueueGrows
  <2>6. data' = <<>>
    BY <2>1
  <2> QED
    BY <2>2, <2>5, <2>6 DEF Fifo!Next, Fifo!Put
<1>5. ASSUME NEW run \in Runs, Write(run) \/ WriteBegin(run)
      PROVE  Fifo!Offer
  BY <1>1, <1>5 DEF Write, WriteBegin
<1>6. ASSUME NEW n \in 0 .. MaxRun, WriteEnd(n), inTmp
      PROVE  Fifo!Offer
  BY <1>1, <1>6 DEF WriteEnd
<1> QED
  BY <1>2, <1>3, <1>4, <1>5, <1>6 DEF Producer, Fifo!Next

LEMMA ConsumerRefines ==
    ASSUME IInv, Copied, IInv', Consumer PROVE [Fifo!Next]_(Fifo!vars)
<1>1. CASE ReadBegin \/ Read \/ Used
  <2>1. UNCHANGED <<buf, readPos, writePos, data>>
    BY <1>1 DEF ReadBegin, Read, Used, producer
  <2> QED
    BY <2>1, QueueStays DEF Fifo!vars
<1>2. CASE ReadEnd
  <2>1. /\ ~byBlocks /\ rpc = "using" /\ readPos' = (readPos + lent.len) % Total
        /\ UNCHANGED <<buf, writePos, wpc, data, copied, inTmp>>
    BY <1>2 DEF ReadEnd, producer
  <2>2. lent.len \in 1 .. Filled /\ readPos + lent.len <= Total
    BY <2>1, PositionFacts DEF IInv, Lending, LentInBuf, Copied
  <2>3. readPos' = IF readPos + lent.len = Total THEN 0 ELSE readPos + lent.len
    <3>1. readPos + lent.len \in Int /\ readPos + lent.len >= 0 /\ -Total <= readPos + lent.len
      BY PositionFacts, ConstantFacts
    <3> QED
      BY <2>1, <2>2, <3>1, ModFacts, ConstantFacts
  <2>4. Filled' = Filled - lent.len
    BY <2>1, <2>2, <2>3, PositionFacts, ReadPosMoves
  <2> QED
    BY <2>1, <2>2, <2>3, <2>4, QueueShrinks DEF Fifo!Next, Fifo!Take
<1>3. CASE Advance
  <2>1. byBlocks
    BY <1>3 DEF Advance, IInv, Lending
  <2>2. /\ rpc = "advance" /\ UNCHANGED <<buf, writePos, wpc, data, copied, inTmp>>
        /\ readPos' = IF readPos + ReadSize >= Total THEN 0 ELSE readPos + ReadSize
    BY <1>3 DEF Advance, producer
  <2>3. ReadSize \in 1 .. Filled /\ readPos + ReadSize <= Total
    BY <2>1, <2>2, PositionFacts, ConstantFacts DEF IInv, Lending
  <2>4. readPos' = IF readPos + ReadSize = Total THEN 0 ELSE readPos + ReadSize
    BY <2>2, <2>3, PositionFacts, ConstantFacts
  <2>5. Filled' = Filled - ReadSize
    BY <2>2, <2>3, <2>4, ConstantFacts, ReadPosMoves
  <2> QED
    BY <2>2, <2>3, <2>4, <2>5, QueueShrinks DEF Fifo!Next, Fifo!Take
<1> QED
  BY <1>1, <1>2, <1>3 DEF Consumer

\* The ring, with its two threads at any step of their work, is the FIFO: a run
\* is appended as a whole when its position is published, from cells that hold
\* it by then, and the frames leave in order when the read position moves.
THEOREM RingIsAFifo == Spec => RefinesFifo
<1>1. IInv /\ Copied /\ IInv' /\ [Next]_vars => [Fifo!Next]_(Fifo!vars)
  <2> SUFFICES ASSUME IInv, Copied, IInv', [Next]_vars PROVE [Fifo!Next]_(Fifo!vars)
    OBVIOUS
  <2>1. CASE Next
    BY <2>1, ProducerRefines, ConsumerRefines DEF Next
  <2>2. CASE UNCHANGED vars
    BY <2>2 DEF vars, Fifo!vars, Queue, AvailableSize
  <2> QED
    BY <2>1, <2>2
<1> QED
  BY <1>1, InitRefines, SpecCopied, PTL DEF Spec, RefinesFifo, Fifo!Spec
=============================================================================
