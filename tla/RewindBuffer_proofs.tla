------------------------- MODULE RewindBuffer_proofs -------------------------
(***************************************************************************)
(* Proofs about RewindBuffer for every savestate size, ring size, counter  *)
(* width and set of savestates: the blocks stay inside the allocation and  *)
(* apart from each other, going back never meets an overwritten block, and *)
(* what is gone back to is the state saved before.                         *)
(***************************************************************************)
EXTENDS RewindTrail, FiniteSetTheorems, SequenceTheorems, TLAPS

\* What the blocks of a ring satisfy whatever their content.
Layout(bs) ==
    /\ DOMAIN bs \subseteq Offsets
    /\ \A o \in DOMAIN bs : /\ bs[o] \in Block
                            /\ bs[o].len >= HeaderSize
                            /\ o + bs[o].len <= AllocSize
    /\ \A o, q \in DOMAIN bs : o < q => o + bs[o].len <= q

IInv == TypeOK /\ Layout(blocks) /\ ChainInv
-----------------------------------------------------------------------------
LEMMA AlignUpFacts ==
    ASSUME NEW x \in Nat
    PROVE  AlignUp(x) \in Nat /\ x <= AlignUp(x) /\ AlignUp(x) % 16 = 0
BY DEF AlignUp

\* The macro rounds the whole sum up; as the ring is a multiple of 16 bytes long,
\* the tail gets its full rounded size.
LEMMA AlignUpSum ==
    ASSUME NEW x \in Nat, NEW y \in Nat, y % 16 = 0
    PROVE  AlignUp(y + x) = y + AlignUp(x)
BY DEF AlignUp

LEMMA SizeFacts ==
    /\ Aligned \in Nat /\ Aligned % 16 = 0 /\ Aligned >= 16
    /\ BufSize \in Nat /\ TailSize \in Nat /\ AlignUp(TailSize) \in Nat
    /\ AllocSize \in Nat
    /\ AllocSize = BufSize + AlignUp(TailSize)
    /\ HeaderSize + AreaSize + Aligned <= AlignUp(TailSize)
<1>1. StateSize \in Nat /\ StateSize >= 1 /\ BufSize \in Nat /\ BufSize % 16 = 0
  BY SizesAssumption
<1>2. TailSize \in Nat
  BY <1>1 DEF TailSize
<1>3. Aligned \in Nat /\ Aligned % 16 = 0 /\ Aligned >= StateSize
  BY <1>1, AlignUpFacts DEF Aligned
<1>4. AllocSize = BufSize + AlignUp(TailSize)
  BY <1>1, <1>2, AlignUpSum DEF AllocSize
<1>5. AlignUp(TailSize) \in Nat
  BY <1>2, AlignUpFacts
<1> QED
  BY <1>1, <1>2, <1>3, <1>4, <1>5, SizesAssumption
-----------------------------------------------------------------------------
(***************************************************************************)
(* The longest block.  Every area header but the first is paid for by an   *)
(* unchanged cell, the one before the area or the last one, so the headers *)
(* and the cells together never exceed one header and the whole state.     *)
(***************************************************************************)
LastCell == (Aligned \div Step) - 1
Unchanged(d) == Cells \ d
Before(d) == { c \in Unchanged(d) : c # LastCell /\ c + 1 \in d }

LEMMA CellFacts ==
    /\ LastCell \in Nat
    /\ Cells = 0 .. LastCell
    /\ Aligned = Step * (LastCell + 1)
    /\ IsFiniteSet(Cells)
    /\ Cardinality(Cells) = LastCell + 1
<1>1. LastCell \in Nat /\ Cells = 0 .. LastCell /\ Aligned = Step * (LastCell + 1)
  BY SizeFacts DEF LastCell, Cells, Step
<1>2. IsFiniteSet(0 .. LastCell) /\ Cardinality(0 .. LastCell) = LastCell - 0 + 1
  BY <1>1, FS_Interval
<1> QED
  BY <1>1, <1>2

\* Each run but one that starts at the first cell follows an unchanged cell.
LEMMA RunsBound ==
    ASSUME NEW d \in States
    PROVE  /\ IsFiniteSet(Runs(d)) /\ IsFiniteSet(Before(d))
           /\ Cardinality(Runs(d)) \in Nat /\ Cardinality(Before(d)) \in Nat
           /\ Cardinality(Runs(d)) <= Cardinality(Before(d)) + 1
<1> DEFINE Later == Runs(d) \ {0}
           f == [ c \in Later |-> c - 1 ]
<1>1. d \subseteq 0 .. LastCell /\ LastCell \in Nat
  BY CellFacts DEF States
<1>2. IsFiniteSet(d) /\ IsFiniteSet(Cells \ d)
  BY CellFacts, FS_Subset DEF States
<1>3. IsFiniteSet(Runs(d)) /\ IsFiniteSet(Before(d))
  BY <1>2, FS_Subset DEF Runs, Before, Unchanged
<1>4. f \in Injection(Later, Before(d))
  <2>1. ASSUME NEW c \in Later PROVE c - 1 \in Before(d)
    BY <1>1, CellFacts DEF Runs, Before, Unchanged
  <2>2. f \in [Later -> Before(d)]
    BY <2>1
  <2>3. ASSUME NEW a \in Later, NEW b \in Later, f[a] = f[b] PROVE a = b
    BY <1>1, <2>3 DEF Runs
  <2> QED
    BY <2>2, <2>3 DEF Injection, IsInjective
<1>5. Cardinality(Later) <= Cardinality(Before(d))
  BY <1>3, <1>4, FS_Injection
<1>6. Cardinality(Runs(d)) <= Cardinality(Later) + 1
  <2>1. Cardinality(Runs(d)) \in Nat
    BY <1>3, FS_CardinalityType
  <2>2. Cardinality(Runs(d) \ {0})
          = IF 0 \in Runs(d) THEN Cardinality(Runs(d)) - 1 ELSE Cardinality(Runs(d))
    BY <1>3, FS_RemoveElement, Zenon
  <2> QED
    BY <2>1, <2>2
<1>7. /\ Cardinality(Runs(d)) \in Nat /\ Cardinality(Before(d)) \in Nat
      /\ Cardinality(Later) \in Nat
  BY <1>3, FS_CardinalityType, FS_RemoveElement
<1> HIDE DEF Later
<1> QED
  BY <1>3, <1>5, <1>6, <1>7

LEMMA BlockLenBound ==
    ASSUME NEW d \in States
    PROVE  /\ BlockLen(d) \in Nat
           /\ HeaderSize <= BlockLen(d)
           /\ BlockLen(d) <= HeaderSize + AreaSize + Aligned
<1> DEFINE R == Cardinality(Runs(d))
           B == Cardinality(Before(d))
           C == Cardinality(Closed(d))
           U == Cardinality(Unchanged(d))
           D == Cardinality(d)
<1>1. R \in Nat /\ B \in Nat /\ R <= B + 1 /\ IsFiniteSet(Before(d))
  BY RunsBound
<1>2. /\ IsFiniteSet(d) /\ IsFiniteSet(Unchanged(d)) /\ D \in Nat /\ U \in Nat
      /\ D + U = LastCell + 1
  <2>1. d \subseteq Cells /\ IsFiniteSet(Cells)
    BY CellFacts DEF States
  <2>2. IsFiniteSet(d) /\ IsFiniteSet(Unchanged(d))
    BY <2>1, FS_Subset DEF Unchanged
  <2>3. Cardinality(Cells \ d) = Cardinality(Cells) - Cardinality(Cells \cap d)
    BY <2>1, FS_Difference
  <2>4. Cells \cap d = d
    BY <2>1
  <2>6. Cardinality(Cells \cap d) = D /\ Cardinality(Cells \ d) = U
    BY <2>4 DEF Unchanged
  <2>7. Cardinality(Cells) = LastCell + 1 /\ LastCell \in Nat
    BY CellFacts
  <2>5. D \in Nat /\ U \in Nat
    BY <2>2, FS_CardinalityType
  <2> QED
    BY <2>2, <2>3, <2>5, <2>6, <2>7
<1>3. IsFiniteSet(Closed(d)) /\ C \in Nat /\ B + C <= U
  <2>1. Closed(d) \subseteq Unchanged(d) /\ Before(d) \subseteq Unchanged(d)
    BY DEF Closed, Before, Unchanged
  <2>2. IsFiniteSet(Closed(d)) /\ C \in Nat
    BY <1>2, <2>1, FS_Subset, FS_CardinalityType
  <2>3. Closed(d) \cap Before(d) = {}
    BY DEF Closed, Before, LastCell
  <2>4. Cardinality(Before(d) \cup Closed(d)) = B + C - Cardinality(Before(d) \cap Closed(d))
    BY <1>1, <2>2, FS_Union
  <2>5. Cardinality(Before(d) \cap Closed(d)) = 0
    BY <2>3, FS_EmptySet
  <2>6. Cardinality(Before(d) \cup Closed(d)) <= U
    BY <1>2, <2>1, FS_Subset
  <2> QED
    BY <1>1, <2>2, <2>4, <2>5, <2>6
<1>4. /\ BlockLen(d) = 16 + 8 * (R + C) + 16 * D
      /\ Aligned = 16 * (LastCell + 1)
  BY CellFacts DEF BlockLen, HeaderSize, AreaSize, Step
<1> HIDE DEF R, B, C, U, D
<1> QED
  BY <1>1, <1>2, <1>3, <1>4, CellFacts DEF HeaderSize, AreaSize
-----------------------------------------------------------------------------
\* For a ring the length of the savestate guarantees the tail (rewind.cpp passes
\* 1.2 * size): from 195 bytes on, every savestate satisfies the assumption.
THEOREM TailHoldsLargestBlock ==
    StateSize >= 195 => HeaderSize + AreaSize + Aligned <= AlignUp(TailSize)
BY SizesAssumption DEF HeaderSize, AreaSize, Aligned, AlignUp, TailSize
-----------------------------------------------------------------------------
LEMMA OverwriteFacts ==
    ASSUME NEW bs, NEW o, NEW b
    PROVE  /\ o \in DOMAIN Overwrite(bs, o, b)
           /\ Overwrite(bs, o, b)[o] = b
           /\ \A x \in DOMAIN Overwrite(bs, o, b) : x # o =>
                /\ x \in DOMAIN bs
                /\ x + bs[x].len <= o \/ o + b.len <= x
                /\ Overwrite(bs, o, b)[x] = bs[x]
           /\ \A x \in DOMAIN bs :
                x # o /\ (x + bs[x].len <= o \/ o + b.len <= x)
                  => x \in DOMAIN Overwrite(bs, o, b)
BY DEF Overwrite

LEMMA OverwriteLayout ==
    ASSUME NEW bs, Layout(bs), NEW o \in Offsets, NEW b \in Block,
           b.len >= HeaderSize, o + b.len <= AllocSize
    PROVE  Layout(Overwrite(bs, o, b))
<1> DEFINE r == Overwrite(bs, o, b)
<1>1. /\ o \in DOMAIN r
      /\ r[o] = b
      /\ \A x \in DOMAIN r : x # o =>
            /\ x \in DOMAIN bs
            /\ x + bs[x].len <= o \/ o + b.len <= x
            /\ r[x] = bs[x]
  BY OverwriteFacts
<1> HIDE DEF r
<1>2. DOMAIN r \subseteq Offsets
  BY <1>1 DEF Layout
<1>3. ASSUME NEW x \in DOMAIN r
      PROVE  /\ r[x] \in Block
             /\ r[x].len >= HeaderSize
             /\ x + r[x].len <= AllocSize
  BY <1>1 DEF Layout
<1>4. ASSUME NEW x \in DOMAIN r, NEW q \in DOMAIN r, x < q
      PROVE  x + r[x].len <= q
  <2>1. x \in Nat /\ q \in Nat /\ o \in Nat
    BY <1>2, SizesAssumption DEF Offsets
  <2>2. b.len \in Nat /\ b.len >= 16
    BY DEF Block, HeaderSize
  <2>3. CASE x = o
    <3>1. q + bs[q].len <= o \/ o + b.len <= q
      BY <1>1, <1>4, <2>1, <2>3
    <3>2. bs[q].len \in Nat
      BY <1>1, <1>4, <2>1, <2>3 DEF Layout, Block
    <3> QED
      BY <1>1, <1>4, <2>1, <2>2, <2>3, <3>1, <3>2
  <2>4. CASE x # o /\ q = o
    <3>1. x + bs[x].len <= o \/ o + b.len <= x
      BY <1>1, <2>4
    <3>2. bs[x].len \in Nat /\ r[x] = bs[x]
      BY <1>1, <2>4 DEF Layout, Block
    <3> QED
      BY <1>4, <2>1, <2>2, <2>4, <3>1, <3>2
  <2>5. CASE x # o /\ q # o
    BY <1>1, <1>4, <2>5 DEF Layout
  <2> QED
    BY <2>3, <2>4, <2>5
<1> QED
  BY <1>2, <1>3, <1>4 DEF Layout, r
-----------------------------------------------------------------------------
LEMMA XorType == ASSUME NEW s \in States, NEW t \in States PROVE Xor(s, t) \in States
BY DEF Xor, States

LEMMA CountFacts ==
    /\ CountMod \in Nat /\ CountMod >= 2
    /\ \A c \in Counts : /\ Pred(c) \in Counts
                         /\ (c + 1) % CountMod \in Counts
                         /\ Pred((c + 1) % CountMod) = c
                         /\ (Pred(c) + 1) % CountMod = c
    /\ 0 \in Counts /\ 1 \in Counts /\ 1 % CountMod = 1
<1>1. CountMod \in Nat /\ CountMod >= 2
  BY SizesAssumption
<1>2. 0 \in Counts /\ 1 \in Counts
  BY <1>1 DEF Counts
<1>3. ASSUME NEW c \in Counts
      PROVE  /\ Pred(c) \in Counts /\ (c + 1) % CountMod \in Counts
             /\ Pred((c + 1) % CountMod) = c
             /\ (Pred(c) + 1) % CountMod = c
  <2>1. CASE c = 0
    BY <1>1, <2>1, CountMod % CountMod = 0, (0 - 1) % CountMod = CountMod - 1 DEF Counts, Pred
  <2>2. CASE c # 0
    BY <1>1, <2>2 DEF Counts, Pred
  <2> QED
    BY <2>1, <2>2
<1> QED
  BY <1>1, <1>2, <1>3
-----------------------------------------------------------------------------
LEMMA NextOffsetType ==
    ASSUME NEW e \in Nat
    PROVE  NextOffset(e) \in Offsets /\ (NextOffset(e) = 0 \/ NextOffset(e) = e)
BY SizesAssumption DEF NextOffset, Offsets

\* A ring that DiffBuf::Reset has just cleared.
LEMMA EmptyRingFacts ==
    /\ DOMAIN EmptyRing = {0} /\ EmptyRing[0] = ZeroHeader
    /\ Layout(EmptyRing)
    /\ ~Followable(ZeroHeader.prev) /\ ZeroHeader.count = 0
<1>1. DOMAIN EmptyRing = {0} /\ EmptyRing[0] = ZeroHeader
  BY DEF EmptyRing
<1>2. ZeroHeader \in Block /\ ZeroHeader.len = 16
  BY CountFacts DEF ZeroHeader, Block, Counts, HeaderSize, States, NullPtr
<1>3. 0 \in Offsets /\ 16 <= AllocSize
  BY SizeFacts DEF Offsets, HeaderSize, AreaSize
<1>4. Layout(EmptyRing)
  BY <1>1, <1>2, <1>3 DEF Layout, HeaderSize
<1> QED
  BY <1>1, <1>4 DEF Followable, ZeroHeader

LEMMA InitIInv == Init => IInv
<1> SUFFICES ASSUME Init PROVE IInv
  OBVIOUS
<1>1. PICK first \in {core, {}} : bufs = FreshBufs(first)
  BY DEF Init
<1>2. core \in States /\ first \in States
  BY SizesAssumption DEF Init, States
<1>3. blocks = EmptyRing /\ current = 0 /\ count = 1 /\ index = 0
  BY DEF Init
<1>4. Layout(blocks)
  BY <1>3, EmptyRingFacts
<1>5. TypeOK
  BY <1>1, <1>2, <1>3, <1>4, EmptyRingFacts, CountFacts DEF TypeOK, FreshBufs, Layout, States
<1>6. ChainInv
  BY <1>3, EmptyRingFacts, CountFacts DEF ChainInv, Top
<1> QED
  BY <1>4, <1>5, <1>6 DEF IInv

LEMMA RestartIInv == core \in States /\ Restart => IInv'
<1> SUFFICES ASSUME core \in States, Restart PROVE IInv'
  OBVIOUS
<1>1. PICK first \in {core, {}} : bufs' = FreshBufs(first)
  BY DEF Restart
<1>2. core' \in States /\ first \in States
  BY DEF Restart, States
<1>3. blocks' = EmptyRing /\ current' = 0 /\ count' = 1 /\ index' = 0
  BY DEF Restart
<1>4. Layout(blocks')
  BY <1>3, EmptyRingFacts
<1>5. TypeOK'
  BY <1>1, <1>2, <1>3, <1>4, EmptyRingFacts, CountFacts DEF TypeOK, FreshBufs, Layout, States
<1>6. ChainInv'
  BY <1>3, EmptyRingFacts, CountFacts DEF ChainInv, Top, Followable
<1> QED
  BY <1>4, <1>5, <1>6 DEF IInv
-----------------------------------------------------------------------------
(***************************************************************************)
(* _SaveState with a difference d at the current block: the ring after the *)
(* block is completed and the next header written.                         *)
(***************************************************************************)
Filled(d) == [blocks[current] EXCEPT !.magic = TRUE, !.diff = d, !.len = BlockLen(d)]
NextOf(d) == NextOffset(current + BlockLen(d))
Completed(d) == Overwrite(blocks, current, Filled(d))
Saved(d) == Overwrite(Completed(d), NextOf(d), NewHeader)

LEMMA FilledFacts ==
    ASSUME IInv, NEW d \in States
    PROVE  /\ Filled(d) \in Block
           /\ Filled(d).len = BlockLen(d)
           /\ Filled(d).magic
           /\ Filled(d).count = blocks[current].count
           /\ Filled(d).prev = blocks[current].prev
           /\ current \in Offsets /\ current + BlockLen(d) <= AllocSize
           /\ NextOf(d) \in Offsets
           /\ NextOf(d) = 0 \/ NextOf(d) = current + BlockLen(d)
           /\ NewHeader \in Block /\ NewHeader.len = HeaderSize
           /\ NewHeader.prev = current /\ NewHeader.count = count
<1>1. current \in Offsets /\ blocks[current] \in Block /\ count \in Counts
  BY DEF IInv, TypeOK
<1>2. /\ BlockLen(d) \in Nat /\ BlockLen(d) <= HeaderSize + AreaSize + Aligned
      /\ current + BlockLen(d) \in Nat /\ current + BlockLen(d) <= AllocSize
  BY <1>1, BlockLenBound, SizeFacts DEF Offsets, HeaderSize, AreaSize
<1>3. NewHeader \in Block
  BY <1>1 DEF NewHeader, Block, HeaderSize, States
<1>4. Filled(d) \in Block
  BY <1>1, <1>2 DEF Filled, Block
<1>5. /\ Filled(d).len = BlockLen(d) /\ Filled(d).magic
      /\ Filled(d).count = blocks[current].count
      /\ Filled(d).prev = blocks[current].prev
  BY <1>1 DEF Filled, Block
<1> QED
  BY <1>1, <1>2, <1>3, <1>4, <1>5, NextOffsetType DEF NextOf, NewHeader

LEMMA SavedLayout ==
    ASSUME IInv, NEW d \in States
    PROVE  Layout(Completed(d)) /\ Layout(Saved(d))
<1>1. Layout(Completed(d))
  BY FilledFacts, OverwriteLayout, BlockLenBound DEF IInv, Completed
<1>2. NextOf(d) + HeaderSize <= AllocSize
  BY FilledFacts, SizeFacts DEF Offsets, HeaderSize, AreaSize
<1>3. NewHeader.len >= HeaderSize
  BY FilledFacts DEF HeaderSize
<1> QED
  BY <1>1, <1>2, <1>3, FilledFacts, OverwriteLayout DEF Saved
-----------------------------------------------------------------------------
\* Which blocks survive: every block below the one being completed, that block
\* itself unless it is the first of the ring and the ring wraps, and the new one.
LEMMA SavedKeeps ==
    ASSUME IInv, NEW d \in States
    PROVE  LET r == Saved(d)
               n == NextOf(d)
           IN  /\ n \in DOMAIN r /\ r[n] = NewHeader
               /\ 0 \in DOMAIN r
               /\ current > 0 => current \in DOMAIN r /\ r[current] = Filled(d) /\ n # current
               /\ \A x \in DOMAIN blocks :
                     0 < x /\ x < current => x \in DOMAIN r /\ r[x] = blocks[x]
               /\ \A x \in DOMAIN r : x # n /\ x # current =>
                     /\ x \in DOMAIN blocks /\ r[x] = blocks[x]
                     /\ x < current \/ current + BlockLen(d) <= x
<1> DEFINE r == Saved(d)
           n == NextOf(d)
           m == Completed(d)
<1>1. /\ current \in DOMAIN blocks /\ 0 \in DOMAIN blocks
      /\ \A x \in DOMAIN blocks : x \in Nat /\ blocks[x].len \in Nat /\ blocks[x].len >= 16
      /\ \A x, q \in DOMAIN blocks : x < q => x + blocks[x].len <= q
  BY SizeFacts DEF IInv, TypeOK, Layout, ChainInv, Offsets, Block, HeaderSize
<1>2. BlockLen(d) \in Nat /\ BlockLen(d) >= 16
  BY BlockLenBound DEF HeaderSize
<1>3. /\ current \in DOMAIN m /\ m[current] = Filled(d)
      /\ \A x \in DOMAIN m : x # current =>
            /\ x \in DOMAIN blocks
            /\ x + blocks[x].len <= current \/ current + BlockLen(d) <= x
            /\ m[x] = blocks[x]
      /\ \A x \in DOMAIN blocks :
            x # current /\ (x + blocks[x].len <= current \/ current + BlockLen(d) <= x)
              => x \in DOMAIN m
  BY OverwriteFacts, FilledFacts DEF Completed
<1>4. /\ n \in DOMAIN r /\ r[n] = NewHeader
      /\ \A x \in DOMAIN r : x # n => x \in DOMAIN m /\ r[x] = m[x]
      /\ \A x \in DOMAIN m :
            x # n /\ (x + m[x].len <= n \/ n + 16 <= x) => x \in DOMAIN r
  BY OverwriteFacts, FilledFacts DEF Saved, HeaderSize
<1>5. n = 0 \/ n = current + BlockLen(d)
  BY FilledFacts
<1>6. Filled(d).len = BlockLen(d)
  BY FilledFacts
<1> HIDE DEF r, n, m
<1>7. \A x \in DOMAIN blocks :
         0 < x /\ x < current => x \in DOMAIN r /\ r[x] = blocks[x]
  <2> SUFFICES ASSUME NEW x \in DOMAIN blocks, 0 < x, x < current
               PROVE  x \in DOMAIN r /\ r[x] = blocks[x]
    OBVIOUS
  <2>1. x + blocks[x].len <= current /\ 16 <= x /\ x # current
    BY <1>1
  <2>2. x \in DOMAIN m /\ m[x] = blocks[x]
    BY <1>3, <2>1
  <2>3. x # n /\ (x + m[x].len <= n \/ n + 16 <= x)
    BY <1>1, <1>2, <1>5, <2>1, <2>2
  <2> QED
    BY <1>4, <2>2, <2>3
<1>8. ASSUME current > 0
      PROVE  current \in DOMAIN r /\ r[current] = Filled(d) /\ n # current
  <2>1. 16 <= current
    BY <1>1, <1>8
  <2>2. current # n /\ (current + m[current].len <= n \/ n + 16 <= current)
    BY <1>1, <1>2, <1>3, <1>5, <1>6, <2>1
  <2> QED
    BY <1>3, <1>4, <2>2
<1>9. 0 \in DOMAIN r
  <2>1. CASE n = 0
    BY <1>4, <2>1
  <2>2. CASE n # 0 /\ current = 0
    BY <1>1, <1>2, <1>3, <1>4, <1>5, <1>6, <2>2
  <2>3. CASE n # 0 /\ current # 0
    <3>1. 0 + blocks[0].len <= current
      BY <1>1, <2>3
    <3>2. 0 \in DOMAIN m /\ m[0] = blocks[0]
      BY <1>1, <1>3, <2>3, <3>1
    <3> QED
      BY <1>1, <1>2, <1>4, <1>5, <2>3, <3>1, <3>2
  <2> QED
    BY <2>1, <2>2, <2>3
<1>10. \A x \in DOMAIN r : x # n /\ x # current =>
          /\ x \in DOMAIN blocks /\ r[x] = blocks[x]
          /\ x < current \/ current + BlockLen(d) <= x
  BY <1>1, <1>3, <1>4
<1> QED
  BY <1>4, <1>7, <1>8, <1>9, <1>10 DEF r, n
-----------------------------------------------------------------------------
LEMMA SaveDifference ==
    ASSUME IInv, NEW d \in States, core' \in States, bufs' \in [{0, 1} -> States],
           index' \in {0, 1}, blocks' = Saved(d), current' = NextOf(d),
           count' = (count + 1) % CountMod
    PROVE  IInv'
<1> DEFINE r == Saved(d)
           n == NextOf(d)
<1>1. /\ n \in DOMAIN r /\ r[n] = NewHeader /\ 0 \in DOMAIN r
      /\ current > 0 => current \in DOMAIN r /\ r[current] = Filled(d) /\ n # current
      /\ \A x \in DOMAIN blocks :
            0 < x /\ x < current => x \in DOMAIN r /\ r[x] = blocks[x]
      /\ \A x \in DOMAIN r : x # n /\ x # current =>
            /\ x \in DOMAIN blocks /\ r[x] = blocks[x]
            /\ x < current \/ current + BlockLen(d) <= x
  BY SavedKeeps
<1>2. /\ current \in Nat /\ current \in DOMAIN blocks
      /\ \A x \in DOMAIN r : x \in Nat
      /\ \A x \in DOMAIN blocks : x \in Nat /\ blocks[x].len \in Nat /\ blocks[x].len >= 16
  BY SizeFacts, SavedLayout DEF IInv, TypeOK, Layout, Offsets, Block, HeaderSize
<1>3. BlockLen(d) \in Nat /\ BlockLen(d) >= 16
  BY BlockLenBound DEF HeaderSize
<1>4. /\ n = 0 \/ n = current + BlockLen(d)
      /\ NewHeader.prev = current /\ NewHeader.count = count
      /\ Filled(d).len = BlockLen(d) /\ Filled(d).magic
      /\ Filled(d).count = blocks[current].count
      /\ Filled(d).prev = blocks[current].prev
  BY FilledFacts
<1>5. count \in Counts /\ blocks[current].count \in Counts /\ count' \in Counts
  BY CountFacts DEF IInv, TypeOK, Block
<1>6. Pred(count) = blocks[current].count
  BY <1>5, CountFacts DEF IInv, ChainInv
<1>7. TypeOK'
  <2>1. Layout(r)
    BY SavedLayout
  <2> HIDE DEF r, n
  <2> QED
    BY <1>1, <1>5, <2>1 DEF TypeOK, Layout, r, n
<1>8. \A o \in DOMAIN blocks : 0 < o /\ o <= current => Linked(o)
  BY <1>2 DEF IInv, ChainInv, Top
<1> HIDE DEF r, n
<1>9. blocks' = r /\ current' = n
  BY DEF r, n
\* The new header is linked to the block just completed.
<1>10. Followable(current) =>
         /\ current \in DOMAIN r /\ r[current].magic
         /\ r[current].count = Pred(count) /\ r[current].len = BlockLen(d)
  BY <1>1, <1>4, <1>6 DEF Followable
<1>11. ASSUME NEW o \in DOMAIN r, 0 < o, o <= current \/ (n # 0 /\ o <= n)
       PROVE  Linked(o)'
  <2>1. CASE o = n
    <3>1. n = current + BlockLen(d) /\ r[o].prev = current /\ r[o].count = count
      BY <1>1, <1>2, <1>4, <1>11, <2>1
    <3> QED
      BY <1>9, <1>10, <2>1, <3>1 DEF Linked, Followable, Intact, Pred
  <2>2. CASE o # n
    <3>1. o \in DOMAIN blocks /\ o <= current
      BY <1>1, <1>2, <1>3, <1>4, <1>11, <2>2
    <3>2. r[o].prev = blocks[o].prev /\ r[o].count = blocks[o].count
      BY <1>1, <1>2, <1>4, <1>11, <2>2, <3>1
    <3>3. Linked(o)
      BY <1>8, <1>11, <3>1
    <3>4. ASSUME Followable(blocks[o].prev)
          PROVE  LET p == blocks[o].prev
                 IN  p \in DOMAIN r /\ r[p] = blocks[p]
      <4> DEFINE p == blocks[o].prev
      <4>1. p \in DOMAIN blocks /\ p + blocks[p].len = o /\ 0 < p
        BY <3>3, <3>4 DEF Linked, Intact, Followable
      <4>2. p < o
        BY <1>2, <3>1, <4>1
      <4> QED
        BY <1>1, <1>2, <3>1, <4>1, <4>2
    <3> QED
      BY <1>9, <3>2, <3>3, <3>4 DEF Linked, Followable, Intact, Pred
  <2> QED
    BY <2>1, <2>2
<1>12. ChainInv'
  <2>1. 0 \in DOMAIN blocks'
    BY <1>1, <1>9
  <2>2. count' = (blocks'[current'].count + 1) % CountMod
    BY <1>1, <1>4, <1>9
  <2>3. ASSUME NEW o \in DOMAIN blocks', 0 < o, o <= Top' PROVE Linked(o)'
    <3>1. CASE n = 0
      <4>1. o <= current
        BY <1>1, <1>2, <1>4, <1>9, <2>3, <3>1 DEF Top
      <4> QED
        BY <1>9, <1>11, <2>3, <4>1
    <3>2. CASE n # 0
      <4>1. o <= n
        BY <1>2, <1>3, <1>4, <1>9, <2>3, <3>2 DEF Top
      <4> QED
        BY <1>9, <1>11, <2>3, <3>2, <4>1
    <3> QED
      BY <3>1, <3>2
  <2>4. ASSUME current' = 0, Followable(blocks'[0].prev)
        PROVE  Intact(blocks[0].prev, Pred(blocks[0].count))'
    <3>1. blocks'[0].prev = current /\ blocks'[0].count = count
      BY <1>1, <1>4, <1>9, <2>4
    <3> QED
      BY <1>9, <1>10, <2>4, <3>1 DEF Intact, Followable, Pred
  <2> QED
    BY <2>1, <2>2, <2>3, <2>4 DEF ChainInv, Followable
<1>13. Layout(blocks')
  BY SavedLayout
<1> QED
  BY <1>7, <1>12, <1>13 DEF IInv
-----------------------------------------------------------------------------
LEMMA SaveStateIInv == IInv /\ SaveState => IInv'
<1> SUFFICES ASSUME IInv, SaveState PROVE IInv'
  OBVIOUS
<1> DEFINE saved == [bufs EXCEPT ![1 - index] = core]
           d == Xor(saved[0], saved[1])
<1>1. core \in States /\ saved \in [{0, 1} -> States] /\ d \in States
  BY XorType DEF IInv, TypeOK
<1>2. bufs' = saved /\ index' \in {0, 1} /\ core' = core
  BY DEF SaveState, IInv, TypeOK
<1>3. CASE d = {}
  <2>1. blocks' = [blocks EXCEPT ![current].diff = {}] /\ current' = current /\ count' = count
    BY <1>3 DEF SaveState
  <2>2. /\ DOMAIN blocks' = DOMAIN blocks
        /\ \A o \in DOMAIN blocks :
              /\ blocks'[o] \in Block
              /\ blocks'[o].len = blocks[o].len /\ blocks'[o].prev = blocks[o].prev
              /\ blocks'[o].count = blocks[o].count /\ blocks'[o].magic = blocks[o].magic
    <3>1. DOMAIN blocks' = DOMAIN blocks
      BY <2>1
    <3>2. ASSUME NEW o \in DOMAIN blocks
          PROVE  blocks'[o] = IF o = current THEN [blocks[o] EXCEPT !.diff = {}] ELSE blocks[o]
      BY <2>1
    <3>3. ASSUME NEW o \in DOMAIN blocks PROVE blocks[o] \in Block
      BY DEF IInv, TypeOK
    <3> QED
      BY <3>1, <3>2, <3>3 DEF Block, States
  <2>3. TypeOK'
    BY <1>1, <1>2, <2>1, <2>2 DEF IInv, TypeOK
  <2>4. Layout(blocks')
    BY <2>2 DEF IInv, Layout
  <2>5. current \in DOMAIN blocks
    BY DEF IInv, TypeOK
  <2>6. Top' = Top
    BY <2>1, <2>2 DEF IInv, ChainInv, Top, Followable
  <2>7. ASSUME NEW o \in DOMAIN blocks', 0 < o, o <= Top' PROVE Linked(o)'
    <3>1. Linked(o)
      BY <2>2, <2>6, <2>7 DEF IInv, ChainInv
    <3> QED
      BY <2>2, <3>1 DEF Linked, Intact, Followable, Pred
  <2>8. (current = 0 /\ Followable(blocks[0].prev)
           => Intact(blocks[0].prev, Pred(blocks[0].count)))'
    BY <2>1, <2>2, ZenonT(40) DEF IInv, ChainInv, Intact, Followable, Pred
  <2>9. ChainInv'
    BY <2>1, <2>2, <2>5, <2>7, <2>8 DEF IInv, ChainInv
  <2> QED
    BY <2>3, <2>4, <2>9 DEF IInv
<1>4. CASE d # {}
  <2>1. blocks' = Saved(d) /\ current' = NextOf(d) /\ count' = (count + 1) % CountMod
    BY <1>4 DEF SaveState, Saved, Completed, NextOf, Filled
  <2> HIDE DEF saved, d
  <2> QED
    BY <1>1, <1>2, <2>1, SaveDifference
<1> QED
  BY <1>3, <1>4

\* IInv says the rest of the invariants the runs check.
LEMMA IInvImplies == IInv => BlocksInBounds /\ RewindMeetsIntactBlock
<1> SUFFICES ASSUME IInv PROVE BlocksInBounds /\ RewindMeetsIntactBlock
  OBVIOUS
<1>1. BlocksInBounds
  BY DEF IInv, Layout, BlocksInBounds
<1>2. RewindMeetsIntactBlock
  <2>1. current \in DOMAIN blocks /\ current \in Nat
    BY SizeFacts DEF IInv, TypeOK, Offsets
  <2>2. CASE current = 0
    BY <2>2 DEF IInv, ChainInv, RewindMeetsIntactBlock
  <2>3. CASE current > 0
    <3>1. Linked(current)
      BY <2>1, <2>3 DEF IInv, ChainInv, Top
    <3> QED
      BY <3>1 DEF Linked, RewindMeetsIntactBlock
  <2> QED
    BY <2>1, <2>2, <2>3
<1> QED
  BY <1>1, <1>2

\* The third branch of DiffBuf::Rewind, which cuts the chain, is never taken.
LEMMA RewindIInv == IInv /\ Rewind => IInv'
<1> SUFFICES ASSUME IInv, Rewind PROVE IInv'
  OBVIOUS
<1> DEFINE p == blocks[current].prev
<1>1. /\ core \in States /\ bufs \in [{0, 1} -> States] /\ index \in {0, 1}
      /\ current \in DOMAIN blocks /\ current \in Nat
      /\ \A o \in DOMAIN blocks : blocks[o] \in Block /\ o \in Nat
  BY SizeFacts DEF IInv, TypeOK, Offsets
<1>2. CASE ~Followable(p)
  <2>1. UNCHANGED vars
    BY <1>2 DEF Rewind, DiffRewind, vars
  <2> QED
    BY <2>1 DEF vars, IInv, TypeOK, Layout, ChainInv, Top, Linked, Intact, Followable, Pred
<1>3. CASE Followable(p)
  <2>1. Intact(p, Pred(blocks[current].count))
    BY <1>3, IInvImplies DEF RewindMeetsIntactBlock
  <2>2. DiffRewind = [ok |-> TRUE, current |-> p,
                      count |-> blocks[current].count, blocks |-> blocks]
    BY <1>3, <2>1 DEF DiffRewind
  <2>3. /\ current' = p /\ count' = blocks[current].count /\ blocks' = blocks
        /\ bufs' = [bufs EXCEPT ![index] = Xor(@, blocks[p].diff)]
        /\ core' \in {core, bufs'[index]} /\ index' = index
    BY <2>2 DEF Rewind
  <2>4. p \in DOMAIN blocks /\ blocks[p].diff \in States /\ 0 < p /\ p \in Nat
    BY <1>1, <1>3, <2>1 DEF Intact, Block, Followable
  <2>5. bufs' \in [{0, 1} -> States] /\ core' \in States
    BY <1>1, <2>3, <2>4, XorType
  <2>6. blocks[current].count \in Counts
    BY <1>1 DEF Block
  <2>7. TypeOK'
    BY <1>1, <2>3, <2>4, <2>5, <2>6 DEF IInv, TypeOK
  <2>8. Layout(blocks')
    BY <2>3 DEF IInv
  <2>9. count' = (blocks[p].count + 1) % CountMod
    BY <2>1, <2>3, <2>6, CountFacts DEF Intact
  <2>10. Top' = p /\ p <= Top
    <3>1. Top' = p
      BY <2>3, <2>4 DEF Top
    <3>2. CASE current = 0
      BY <1>3, <2>4, <3>1, <3>2 DEF Top
    <3>3. CASE current > 0
      <4>1. Linked(current) /\ Top = current
        BY <1>1, <3>3 DEF IInv, ChainInv, Top
      <4>2. p + blocks[p].len = current /\ blocks[p].len \in Nat
        BY <1>1, <1>3, <2>4, <4>1 DEF Linked, Block
      <4> QED
        BY <1>1, <2>4, <3>1, <4>1, <4>2
    <3> QED
      BY <1>1, <3>1, <3>2, <3>3
  <2>11. ASSUME NEW o \in DOMAIN blocks', 0 < o, o <= Top' PROVE Linked(o)'
    <3>1. Top \in Nat
      BY <1>1, <2>4 DEF Top
    <3>2. Linked(o)
      BY <1>1, <2>3, <2>4, <2>10, <2>11, <3>1 DEF IInv, ChainInv
    <3> QED
      BY <2>3, <3>2 DEF Linked, Intact, Followable, Pred
  <2>12. ChainInv'
    BY <2>3, <2>4, <2>9, <2>11 DEF IInv, ChainInv
  <2> QED
    BY <2>7, <2>8, <2>12 DEF IInv
<1> QED
  BY <1>2, <1>3
-----------------------------------------------------------------------------
LEMMA NextIInv == IInv /\ [Next]_vars => IInv'
<1> SUFFICES ASSUME IInv, [Next]_vars PROVE IInv'
  OBVIOUS
<1>1. core \in States /\ CoreStates \subseteq States
  BY SizesAssumption DEF IInv, TypeOK
<1>2. CASE Restart
  BY <1>1, <1>2, RestartIInv
<1>3. CASE Frame
  BY <1>1, <1>3 DEF Frame, IInv, TypeOK, Layout, ChainInv, Top, Linked, Intact,
                    Followable, Pred
<1>4. CASE SaveState
  BY <1>4, SaveStateIInv
<1>5. CASE SaveStateFails
  <2>1. bufs' \in [{0, 1} -> States]
    BY <1>1, <1>5 DEF SaveStateFails, IInv, TypeOK
  <2> QED
    BY <1>5, <2>1 DEF SaveStateFails, IInv, TypeOK, Layout, ChainInv, Top, Linked,
                      Intact, Followable, Pred
<1>6. CASE Rewind
  BY <1>6, RewindIInv
<1>7. CASE UNCHANGED vars
  BY <1>7 DEF vars, IInv, TypeOK, Layout, ChainInv, Top, Linked, Intact, Followable, Pred
<1> QED
  BY <1>2, <1>3, <1>4, <1>5, <1>6, <1>7 DEF Next

LEMMA SpecIInv == Spec => []IInv
BY InitIInv, NextIInv, PTL DEF Spec

\* The state, the two buffers, the ring and its counters keep their types.
THEOREM TypeCorrect == Spec => []TypeOK
<1>1. IInv => TypeOK
  BY DEF IInv
<1> QED
  BY <1>1, SpecIInv, PTL

\* _SaveState and DiffBuf::Increase never write past the memory DiffBuf allocated,
\* nor over a block that is still whole.
THEOREM BlocksStayInBounds == Spec => []BlocksInBounds
BY IInvImplies, SpecIInv, PTL

\* Every block up to the highest one a rewind can reach is linked to an intact
\* predecessor, whatever was undone and recorded again.
THEOREM ChainHolds == Spec => []ChainInv
<1>1. IInv => ChainInv
  BY DEF IInv
<1> QED
  BY <1>1, SpecIInv, PTL

\* DiffBuf::Rewind never lands on an overwritten block: its third branch, which
\* cuts the chain by writing into whatever it found, is dead code.
THEOREM RewindIsSafe == Spec => []RewindMeetsIntactBlock
BY IInvImplies, SpecIInv, PTL
-----------------------------------------------------------------------------
(***************************************************************************)
(* The trail.  In the ring it runs upwards, below the current block unless *)
(* that is the first of a lap, so what a save writes leaves it alone.      *)
(***************************************************************************)
Recorded ==
    /\ core \in CoreStates /\ bufs[index] \in CoreStates
    /\ trail \in Seq(Offsets) /\ past \in Seq(CoreStates)

Upwards ==
    /\ \A i, j \in 1 .. Len(trail) : i < j => trail[i] < trail[j]
    /\ current > 0 => \A i \in 1 .. Len(trail) : trail[i] < current

TrailInv == Recorded /\ Upwards /\ TrailIsChain

LEMMA FirstCoreState == {} \in CoreStates /\ CoreStates \subseteq States
BY SizesAssumption

\* A ring just cleared has no history.
LEMMA ClearedTrail ==
    ASSUME blocks' = EmptyRing, current' = 0, trail' = <<>>, past' = <<>>,
           core' \in CoreStates, bufs'[index'] \in CoreStates
    PROVE  TrailInv'
<1>1. Len(trail') = 0 /\ Len(past') = 0 /\ trail' \in Seq(Offsets) /\ past' \in Seq(CoreStates)
  OBVIOUS
<1>2. ~Followable(blocks'[0].prev)
  BY EmptyRingFacts
<1> QED
  BY <1>1, <1>2 DEF TrailInv, Recorded, Upwards, TrailIsChain, Followable

LEMMA InitTrail == TrailInit => IInv /\ TrailInv
<1> SUFFICES ASSUME TrailInit PROVE IInv /\ TrailInv
  OBVIOUS
<1>1. PICK first \in {core, {}} : bufs = FreshBufs(first)
  BY DEF TrailInit, Init
<1>2. bufs[index] \in CoreStates /\ core \in CoreStates
  BY <1>1, FirstCoreState DEF TrailInit, Init, FreshBufs
<1>3. Len(trail) = 0 /\ Len(past) = 0 /\ trail \in Seq(Offsets) /\ past \in Seq(CoreStates)
  BY DEF TrailInit
<1>4. ~Followable(blocks[current].prev)
  BY EmptyRingFacts DEF TrailInit, Init
<1>5. TrailInv
  BY <1>2, <1>3, <1>4 DEF TrailInv, Recorded, Upwards, TrailIsChain, TrailInit
<1> QED
  BY <1>5, InitIInv DEF TrailInit

LEMMA TrailFacts ==
    ASSUME IInv, TrailInv
    PROVE  /\ Len(trail) \in Nat /\ Len(past) = Len(trail)
           /\ current \in Nat /\ current \in DOMAIN blocks /\ index \in {0, 1}
           /\ \A i \in 1 .. Len(trail) :
                 trail[i] \in Nat /\ 0 < trail[i] /\ trail[i] \in DOMAIN blocks
           /\ \A i \in 1 .. Len(trail) : past[i] \in CoreStates
           /\ bufs \in [{0, 1} -> States]
<1>1. /\ Len(trail) \in Nat /\ Len(past) = Len(trail)
      /\ trail \in Seq(Offsets) /\ past \in Seq(CoreStates)
  BY DEF TrailInv, Recorded, TrailIsChain
<1>2. \A i \in 1 .. Len(trail) : Followable(trail[i]) /\ trail[i] \in DOMAIN blocks
  BY DEF TrailInv, TrailIsChain
<1>3. \A i \in 1 .. Len(trail) : trail[i] \in Nat /\ past[i] \in CoreStates
  BY <1>1, SizeFacts DEF Offsets
<1>4. current \in Nat /\ current \in DOMAIN blocks /\ index \in {0, 1} /\ bufs \in [{0, 1} -> States]
  BY SizeFacts DEF IInv, TypeOK, Offsets
<1> QED
  BY <1>1, <1>2, <1>3, <1>4 DEF Followable

\* Steps that leave the present state, the trail, and the pointers and differences
\* on it alone.
LEMMA TrailStays ==
    ASSUME IInv, TrailInv, UNCHANGED <<current, trail, past>>, bufs'[index'] = bufs[index],
           core' \in CoreStates,
           \A o \in DOMAIN blocks : /\ o \in DOMAIN blocks' /\ blocks'[o].prev = blocks[o].prev
                                    /\ o # current => blocks'[o].diff = blocks[o].diff
    PROVE  TrailInv'
<1>1. \A i \in 1 .. Len(trail) : trail[i] # current
  BY TrailFacts DEF TrailInv, Upwards
<1>2. Recorded' /\ Upwards'
  BY DEF TrailInv, Recorded, Upwards
<1>3. TrailIsChain'
  <2>1. ASSUME NEW i \in 1 .. Len(trail)
        PROVE  LET newer == IF i = Len(trail) THEN current ELSE trail[i + 1]
                   state == IF i = Len(trail) THEN bufs'[index'] ELSE past[i + 1]
               IN  /\ Followable(trail[i]) /\ trail[i] \in DOMAIN blocks'
                   /\ blocks'[newer].prev = trail[i]
                   /\ past[i] = Xor(state, blocks'[trail[i]].diff)
    <3> DEFINE newer == IF i = Len(trail) THEN current ELSE trail[i + 1]
               state == IF i = Len(trail) THEN bufs[index] ELSE past[i + 1]
    <3>1. i # Len(trail) => i + 1 \in 1 .. Len(trail)
      BY TrailFacts
    <3>2. newer \in DOMAIN blocks
      BY <3>1, TrailFacts
    <3>3. /\ Followable(trail[i]) /\ trail[i] \in DOMAIN blocks
          /\ blocks[newer].prev = trail[i]
          /\ past[i] = Xor(state, blocks[trail[i]].diff)
      BY DEF TrailInv, TrailIsChain
    <3>4. /\ trail[i] \in DOMAIN blocks' /\ blocks'[newer].prev = blocks[newer].prev
          /\ blocks'[trail[i]].diff = blocks[trail[i]].diff
      BY <1>1, <3>2, <3>3
    <3>5. state = IF i = Len(trail) THEN bufs'[index'] ELSE past[i + 1]
      OBVIOUS
    <3> HIDE DEF state
    <3> QED
      BY <3>3, <3>4, <3>5
  <2>2. LET oldest == IF trail = <<>> THEN current ELSE trail[1]
        IN  ~Followable(blocks'[oldest].prev)
    BY TrailFacts DEF TrailInv, TrailIsChain
  <2> QED
    BY <2>1, <2>2 DEF TrailInv, TrailIsChain, Followable
<1> QED
  BY <1>2, <1>3 DEF TrailInv

\* A difference undone on the newer of two states gives the older.
LEMMA XorUndoes ==
    ASSUME NEW s \in States, NEW t \in States
    PROVE  /\ Xor(t, Xor(s, t)) = s /\ Xor(t, Xor(t, s)) = s
           /\ Xor(s, t) = {} <=> s = t
BY DEF Xor, States

\* What _SaveState does to the buffers.
LEMMA SavesInto ==
    ASSUME IInv, SaveState
    PROVE  LET d == Xor(bufs'[0], bufs'[1])
           IN  /\ bufs'[index'] = core /\ core' = core /\ d \in States
               /\ d = {} <=> core = bufs[index]
               /\ Xor(core, d) = bufs[index]
               /\ d = {} => blocks' = [blocks EXCEPT ![current].diff = {}] /\ current' = current
               /\ d # {} => blocks' = Saved(d) /\ current' = NextOf(d)
<1> DEFINE saved == [bufs EXCEPT ![1 - index] = core]
<1>1. core \in States /\ index \in {0, 1} /\ bufs \in [{0, 1} -> States]
  BY DEF IInv, TypeOK
<1>2. bufs' = saved /\ index' = 1 - index /\ core' = core
  BY DEF SaveState
<1>3. \/ bufs'[0] = core /\ bufs'[1] = bufs[index] /\ index' = 0
      \/ bufs'[1] = core /\ bufs'[0] = bufs[index] /\ index' = 1
  BY <1>1, <1>2
<1>4. bufs[index] \in States
  BY <1>1
<1> DEFINE d == Xor(bufs'[0], bufs'[1])
<1>5. d \in States /\ (d = {} <=> core = bufs[index]) /\ Xor(core, d) = bufs[index]
  <2>1. CASE bufs'[0] = core /\ bufs'[1] = bufs[index]
    BY <1>1, <1>4, <2>1, XorType, XorUndoes
  <2>2. CASE bufs'[1] = core /\ bufs'[0] = bufs[index]
    BY <1>1, <1>4, <2>2, XorType, XorUndoes
  <2> QED
    BY <1>3, <2>1, <2>2
<1>6. d = {} => blocks' = [blocks EXCEPT ![current].diff = {}] /\ current' = current
  BY <1>2 DEF SaveState
<1>7. d # {} => blocks' = Saved(d) /\ current' = NextOf(d)
  BY <1>2 DEF SaveState, Saved, Completed, NextOf, Filled
<1>8. bufs'[index'] = core
  BY <1>3
<1> QED
  BY <1>2, <1>5, <1>6, <1>7, <1>8

\* The current block is left: it joins the trail, or the trail ends at it.
LEMMA LeavesTrail ==
    ASSUME IInv, TrailInv, Leaves, NEW d \in States, core' \in CoreStates,
           bufs'[index'] \in CoreStates, blocks' = Saved(d), current' = NextOf(d),
           bufs[index] = Xor(bufs'[index'], d)
    PROVE  TrailInv'
<1> DEFINE n == NextOf(d)
           r == Saved(d)
<1>1. /\ n \in DOMAIN r /\ r[n].prev = current
      /\ current > 0 => current \in DOMAIN r /\ r[current] = Filled(d) /\ n # current
      /\ \A x \in DOMAIN blocks :
            0 < x /\ x < current => x \in DOMAIN r /\ r[x] = blocks[x]
  BY SavedKeeps, FilledFacts
<1>2. /\ n = 0 \/ n = current + BlockLen(d)
      /\ n \in Nat /\ BlockLen(d) \in Nat /\ BlockLen(d) >= 16
      /\ Filled(d).prev = blocks[current].prev /\ Filled(d).diff = d
  <2>1. Filled(d).diff = d
    BY DEF Filled, IInv, TypeOK, Block
  <2> QED
    BY <2>1, FilledFacts, BlockLenBound, SizeFacts DEF Offsets, HeaderSize
<1> HIDE DEF n, r
<1>3. blocks' = r /\ current' = n
  BY DEF n, r
<1>4. CASE ~Followable(current)
  <2>1. trail' = <<>> /\ past' = <<>> /\ Len(trail') = 0 /\ Len(past') = 0
    BY <1>4 DEF Leaves
  <2>2. trail' \in Seq(Offsets) /\ past' \in Seq(CoreStates)
    BY <2>1
  <2> QED
    BY <1>1, <1>3, <1>4, <2>1, <2>2 DEF TrailInv, Recorded, Upwards, TrailIsChain, Followable
<1>5. CASE Followable(current)
  <2> DEFINE k == Len(trail)
  <2>1. k \in Nat /\ current > 0 /\ current \in Offsets
    BY <1>5, TrailFacts DEF Followable, IInv, TypeOK
  <2>2. /\ trail' \in Seq(Offsets) /\ Len(trail') = k + 1
        /\ trail'[k + 1] = current /\ \A i \in 1 .. k : trail'[i] = trail[i]
    BY <1>5, <2>1 DEF Leaves, TrailInv, Recorded
  <2>3. /\ past' \in Seq(CoreStates) /\ Len(past') = k + 1
        /\ past'[k + 1] = bufs[index] /\ \A i \in 1 .. k : past'[i] = past[i]
    <3>1. past \in Seq(CoreStates) /\ Len(past) = k /\ bufs[index] \in CoreStates
      BY TrailFacts DEF TrailInv, Recorded
    <3>2. past' = Append(past, bufs[index])
      BY <1>5 DEF Leaves
    <3> HIDE DEF k
    <3> QED
      BY <2>1, <3>1, <3>2
  <2>4. \A i \in 1 .. k : 0 < trail[i] /\ trail[i] < current /\ trail[i] \in Nat
    BY <2>1, TrailFacts DEF TrailInv, Upwards
  <2>5. Upwards'
    <3>1. \A i, j \in 1 .. k + 1 : i < j => trail'[i] < trail'[j]
      <4>1. \A i, j \in 1 .. k : i < j => trail[i] < trail[j]
        BY DEF TrailInv, Upwards
      <4> QED
        BY <2>1, <2>2, <2>4, <4>1
    <3>2. n > 0 => \A i \in 1 .. k + 1 : trail'[i] < n
      <4> SUFFICES ASSUME n > 0, NEW i \in 1 .. k + 1 PROVE trail'[i] < n
        OBVIOUS
      <4>1. current \in Nat /\ current < n
        BY <1>2, TrailFacts
      <4>2. CASE i = k + 1
        BY <2>2, <4>1, <4>2
      <4>3. CASE i # k + 1
        <5>1. i \in 1 .. k
          BY <2>1, <4>3
        <5> QED
          BY <1>2, <2>2, <2>4, <4>1, <5>1
      <4> QED
        BY <4>2, <4>3
    <3> QED
      BY <1>3, <2>2, <3>1, <3>2 DEF Upwards
  <2>6. \A i \in 1 .. k : trail[i] \in DOMAIN r /\ r[trail[i]] = blocks[trail[i]]
    BY <1>1, <2>4, TrailFacts
  <2>7. r[current].prev = blocks[current].prev /\ r[current].diff = d /\ current \in DOMAIN r
    BY <1>1, <1>2, <2>1
  <2>8. ASSUME NEW i \in 1 .. k
        PROVE  /\ Followable(trail[i])
               /\ r[IF i = k THEN current ELSE trail[i + 1]].prev = trail[i]
               /\ past[i] = Xor(IF i = k THEN bufs[index] ELSE past[i + 1], r[trail[i]].diff)
    <3>1. i # k => i + 1 \in 1 .. k
      BY <2>1
    <3> QED
      BY <2>6, <2>7, <3>1 DEF TrailInv, TrailIsChain
  <2>9. ASSUME NEW i \in 1 .. k + 1
        PROVE  /\ Followable(trail'[i]) /\ trail'[i] \in DOMAIN r
               /\ r[IF i = k + 1 THEN n ELSE trail'[i + 1]].prev = trail'[i]
               /\ past'[i] = Xor(IF i = k + 1 THEN bufs'[index'] ELSE past'[i + 1],
                                 r[trail'[i]].diff)
    <3>1. CASE i = k + 1
      BY <1>1, <1>5, <2>2, <2>3, <2>7, <3>1
    <3>2. CASE i # k + 1
      <4>1. i \in 1 .. k /\ (i # k => i + 1 \in 1 .. k)
        BY <2>1, <3>2
      <4>2. trail'[i + 1] = IF i = k THEN current ELSE trail[i + 1]
        BY <2>2, <4>1
      <4>3. past'[i + 1] = IF i = k THEN bufs[index] ELSE past[i + 1]
        BY <2>3, <4>1
      <4> QED
        BY <2>2, <2>3, <2>6, <2>8, <3>2, <4>1, <4>2, <4>3
    <3> QED
      BY <3>1, <3>2
  <2>10. ~Followable(r[trail'[1]].prev)
    <3>1. CASE trail = <<>>
      BY <2>2, <2>7, <3>1 DEF TrailInv, TrailIsChain
    <3>2. CASE trail # <<>>
      <4>1. 1 \in 1 .. k
        BY <2>1, <3>2 DEF TrailInv, Recorded
      <4> QED
        BY <2>2, <2>6, <3>2, <4>1 DEF TrailInv, TrailIsChain
    <3> QED
      BY <3>1, <3>2
  <2>11. TrailIsChain'
    <3>1. trail' # <<>>
      BY <2>1, <2>2
    <3> QED
      BY <1>3, <2>2, <2>3, <2>9, <2>10, <3>1 DEF TrailIsChain, Followable
  <2> QED
    BY <2>2, <2>3, <2>5, <2>11 DEF TrailInv, Recorded
<1> QED
  BY <1>4, <1>5

LEMMA SavesTrail == ASSUME IInv, TrailInv, Saves PROVE TrailInv'
<1> DEFINE d == Xor(bufs'[0], bufs'[1])
<1>1. /\ bufs'[index'] = core /\ core' = core /\ d \in States
      /\ d = {} <=> core = bufs[index]
      /\ Xor(core, d) = bufs[index]
      /\ d = {} => blocks' = [blocks EXCEPT ![current].diff = {}] /\ current' = current
      /\ d # {} => blocks' = Saved(d) /\ current' = NextOf(d)
  BY SavesInto DEF Saves
<1> HIDE DEF d
<1>2. core \in CoreStates
  BY DEF TrailInv, Recorded
<1>3. CASE d = {}
  <2>1. UNCHANGED <<trail, past>>
    BY <1>1, <1>3 DEF Saves
  <2>2. ASSUME NEW o \in DOMAIN blocks
        PROVE  /\ o \in DOMAIN blocks' /\ blocks'[o].prev = blocks[o].prev
               /\ o # current => blocks'[o].diff = blocks[o].diff
    <3>1. blocks[o] \in Block
      BY DEF IInv, TypeOK
    <3> QED
      BY <1>1, <1>3, <3>1 DEF Block
  <2> QED
    BY <1>1, <1>2, <1>3, <2>1, <2>2, TrailStays
<1>4. CASE d # {}
  <2>1. Leaves
    BY <1>1, <1>4 DEF Saves
  <2> QED
    BY <1>1, <1>2, <1>4, <2>1, LeavesTrail
<1> QED
  BY <1>3, <1>4

\* What _Rewind does: nothing, or the newest block of the trail is gone back to.
LEMMA GoesBackTo ==
    ASSUME IInv, TrailInv, GoesBack
    PROVE  \/ trail = <<>> /\ UNCHANGED <<vars, trail, past>>
           \/ LET k == Len(trail)
              IN  /\ k \in Nat /\ k >= 1
                  /\ current' = trail[k] /\ blocks' = blocks /\ index' = index
                  /\ bufs'[index] = past[k] /\ core' \in {core, past[k]}
                  /\ trail' = SubSeq(trail, 1, k - 1) /\ past' = SubSeq(past, 1, k - 1)
<1> DEFINE k == Len(trail)
           p == blocks[current].prev
<1>1. k \in Nat /\ Len(past) = k /\ bufs \in [{0, 1} -> States] /\ index \in {0, 1}
  BY TrailFacts
<1>2. CASE ~Followable(p)
  <2>1. trail = <<>>
    <3> SUFFICES ASSUME trail # <<>> PROVE FALSE
      OBVIOUS
    <3>1. k \in 1 .. k
      BY <1>1 DEF TrailInv, Recorded
    <3> QED
      BY <1>2, <3>1 DEF TrailInv, TrailIsChain
  <2>2. DiffRewind = [ok |-> FALSE, current |-> current, count |-> count, blocks |-> blocks]
    BY <1>2 DEF DiffRewind
  <2> QED
    BY <2>1, <2>2 DEF GoesBack, Rewind, vars
<1>3. CASE Followable(p)
  <2>1. Intact(p, Pred(blocks[current].count))
    BY <1>3, IInvImplies DEF RewindMeetsIntactBlock
  <2>2. DiffRewind = [ok |-> TRUE, current |-> p,
                      count |-> blocks[current].count, blocks |-> blocks]
    BY <1>3, <2>1 DEF DiffRewind
  <2>3. trail # <<>>
    BY <1>3 DEF TrailInv, TrailIsChain
  <2>4. k >= 1 /\ k \in 1 .. k
    BY <1>1, <2>3 DEF TrailInv, Recorded
  <2>5. p = trail[k] /\ past[k] = Xor(bufs[index], blocks[p].diff)
    BY <2>4 DEF TrailInv, TrailIsChain
  <2>6. /\ current' = p /\ blocks' = blocks /\ index' = index
        /\ bufs' = [bufs EXCEPT ![index] = Xor(@, blocks[p].diff)]
        /\ core' \in {core, bufs'[index]}
        /\ trail' = SubSeq(trail, 1, k - 1) /\ past' = SubSeq(past, 1, k - 1)
    BY <1>1, <2>2 DEF GoesBack, Rewind
  <2>7. bufs'[index] = past[k]
    BY <1>1, <2>5, <2>6
  <2> QED
    BY <1>1, <2>4, <2>5, <2>6, <2>7
<1> QED
  BY <1>2, <1>3

LEMMA GoesBackTrail == ASSUME IInv, TrailInv, GoesBack PROVE TrailInv'
<1> DEFINE k == Len(trail)
<1>1. CASE trail = <<>> /\ UNCHANGED <<vars, trail, past>>
  BY <1>1, TrailStays DEF vars, TrailInv, Recorded
<1>2. CASE /\ k \in Nat /\ k >= 1
           /\ current' = trail[k] /\ blocks' = blocks /\ index' = index
           /\ bufs'[index] = past[k] /\ core' \in {core, past[k]}
           /\ trail' = SubSeq(trail, 1, k - 1) /\ past' = SubSeq(past, 1, k - 1)
  <2>1. /\ trail' \in Seq(Offsets) /\ Len(trail') = k - 1
        /\ \A i \in 1 .. k - 1 : trail'[i] = trail[i]
    <3>1. trail \in Seq(Offsets) /\ \A i \in 1 .. k - 1 : trail[i] \in Offsets
      BY <1>2 DEF TrailInv, Recorded
    <3> HIDE DEF k
    <3> QED
      BY <1>2, <3>1, SubSeqProperties
  <2>2. /\ past' \in Seq(CoreStates) /\ Len(past') = k - 1
        /\ \A i \in 1 .. k - 1 : past'[i] = past[i]
    <3>1. \A i \in 1 .. k - 1 : past[i] \in CoreStates
      BY <1>2, TrailFacts
    <3> HIDE DEF k
    <3> QED
      BY <1>2, <3>1, SubSeqProperties
  <2>3. past[k] \in CoreStates /\ core \in CoreStates
    BY <1>2, TrailFacts DEF TrailInv, Recorded
  <2>4. Recorded'
    BY <1>2, <2>1, <2>2, <2>3 DEF Recorded
  <2>5. Upwards'
    <3>1. \A i, j \in 1 .. k : i < j => trail[i] < trail[j]
      BY DEF TrailInv, Upwards
    <3>2. \A i, j \in 1 .. k - 1 : i < j => trail'[i] < trail'[j]
      BY <1>2, <2>1, <3>1
    <3>3. \A i \in 1 .. k - 1 : trail'[i] < current'
      <4>1. k \in 1 .. k /\ \A i \in 1 .. k - 1 : i \in 1 .. k /\ i < k
        BY <1>2
      <4>2. \A i \in 1 .. k - 1 : trail[i] < trail[k]
        BY <3>1, <4>1
      <4> QED
        BY <1>2, <2>1, <4>2
    <3> QED
      BY <2>1, <3>2, <3>3 DEF Upwards
  <2>6. ASSUME NEW i \in 1 .. k - 1
        PROVE  /\ Followable(trail[i]) /\ trail[i] \in DOMAIN blocks
               /\ blocks[trail[i + 1]].prev = trail[i]
               /\ past[i] = Xor(past[i + 1], blocks[trail[i]].diff)
    <3>1. i \in 1 .. k /\ i # k
      BY <1>2
    <3> QED
      BY <3>1 DEF TrailInv, TrailIsChain
  <2>7. ASSUME NEW i \in 1 .. k - 1
        PROVE  /\ trail[i + 1] = IF i = k - 1 THEN current' ELSE trail'[i + 1]
               /\ past[i + 1] = IF i = k - 1 THEN bufs'[index'] ELSE past'[i + 1]
    <3>1. i # k - 1 => i + 1 \in 1 .. k - 1
      BY <1>2
    <3> QED
      BY <1>2, <2>1, <2>2, <3>1
  <2>8. ~Followable(blocks[IF trail' = <<>> THEN current' ELSE trail'[1]].prev)
    <3>1. trail # <<>>
      BY <1>2
    <3>2. ~Followable(blocks[trail[1]].prev)
      BY <3>1 DEF TrailInv, TrailIsChain
    <3>3. (IF trail' = <<>> THEN current' ELSE trail'[1]) = trail[1]
      <4>1. CASE k = 1
        BY <1>2, <2>1, <4>1
      <4>2. CASE k # 1
        <5>1. Len(trail') # 0 /\ 1 \in 1 .. k - 1
          BY <1>2, <2>1, <4>2
        <5>2. trail' # <<>>
          BY <5>1
        <5> QED
          BY <2>1, <5>1, <5>2
      <4> QED
        BY <4>1, <4>2
    <3> QED
      BY <3>2, <3>3
  <2>9. TrailIsChain'
    BY <1>2, <2>1, <2>2, <2>6, <2>7, <2>8, SMTT(20) DEF TrailIsChain, Followable
  <2> QED
    BY <2>4, <2>5, <2>9 DEF TrailInv
<1> QED
  BY <1>1, <1>2, GoesBackTo

LEMMA NextTrail == IInv /\ TrailInv /\ [TrailNext]_trailVars => IInv' /\ TrailInv'
<1> SUFFICES ASSUME IInv, TrailInv, [TrailNext]_trailVars PROVE IInv' /\ TrailInv'
  OBVIOUS
<1>1. IInv'
  BY NextIInv DEF TrailNext, Next, Saves, GoesBack, trailVars
<1>2. CASE Restart /\ trail' = <<>> /\ past' = <<>>
  <2>1. PICK first \in {core, {}} : bufs' = FreshBufs(first)
    BY <1>2 DEF Restart
  <2>2. core' \in CoreStates /\ bufs'[index'] \in CoreStates
    BY <1>2, <2>1, FirstCoreState DEF Restart, FreshBufs, TrailInv, Recorded
  <2> QED
    BY <1>1, <1>2, <2>2, ClearedTrail DEF Restart
<1>3. CASE (Frame \/ SaveStateFails) /\ UNCHANGED <<trail, past>>
  <2>1. bufs'[index'] = bufs[index] /\ core' \in CoreStates
    BY <1>3, TrailFacts DEF Frame, SaveStateFails, TrailInv, Recorded
  <2> QED
    BY <1>1, <1>3, <2>1, TrailStays DEF Frame, SaveStateFails
<1>4. CASE Saves
  BY <1>1, <1>4, SavesTrail
<1>5. CASE GoesBack
  BY <1>1, <1>5, GoesBackTrail
<1>6. CASE UNCHANGED trailVars
  BY <1>1, <1>6, TrailStays DEF trailVars, vars, TrailInv, Recorded
<1> QED
  BY <1>1, <1>2, <1>3, <1>4, <1>5, <1>6 DEF TrailNext

LEMMA TrailHolds == TrailSpec => [](IInv /\ TrailInv)
BY InitTrail, NextTrail, PTL DEF TrailSpec

\* What is remembered beside the ring is what following the previous pointers and
\* undoing the differences would give.
THEOREM TrailIsTheChain == TrailSpec => []TrailIsChain
<1>1. TrailInv => TrailIsChain
  BY DEF TrailInv
<1> QED
  BY <1>1, TrailHolds, PTL
-----------------------------------------------------------------------------
LEMMA SavesRefines == ASSUME IInv, TrailInv, Saves PROVE [History!Next]_(History!vars)
<1> DEFINE d == Xor(bufs'[0], bufs'[1])
<1>1. bufs'[index'] = core /\ core' = core
  BY SavesInto DEF Saves
<1>2. past \in Seq(CoreStates) /\ bufs[index] \in CoreStates
  BY DEF TrailInv, Recorded
<1>3. CASE core = bufs[index]
  BY <1>1, <1>3 DEF Saves, History!vars
<1>4. CASE core # bufs[index]
  <2> DEFINE t == Append(past, bufs[index])
  <2>1. t \in Seq(CoreStates) /\ Len(t) \in Nat
    BY <1>2
  <2>2. past' = t \/ past' = <<>>
    BY <1>4 DEF Saves, Leaves
  <2> HIDE DEF t
  <2>3. SubSeq(t, 1, Len(t)) = t /\ SubSeq(t, Len(t) + 1, Len(t)) = <<>>
    BY <2>1
  <2>4. 1 \in 1 .. Len(t) + 1 /\ Len(t) + 1 \in 1 .. Len(t) + 1
    BY <2>1
  <2>5. past' \in History!Suffixes(t)
    BY <2>2, <2>3, <2>4 DEF History!Suffixes
  <2> QED
    BY <1>1, <1>4, <2>5 DEF History!Next, History!Push, t
<1> QED
  BY <1>3, <1>4

LEMMA GoesBackRefines == ASSUME IInv, TrailInv, GoesBack PROVE [History!Next]_(History!vars)
<1> DEFINE k == Len(trail)
<1>1. CASE trail = <<>> /\ UNCHANGED <<vars, trail, past>>
  BY <1>1 DEF vars, History!vars
<1>2. CASE /\ k \in Nat /\ k >= 1 /\ index' = index
           /\ bufs'[index] = past[k] /\ core' \in {core, past[k]}
           /\ past' = SubSeq(past, 1, k - 1)
  <2>1. Len(past) = k
    BY TrailFacts
  <2>2. past # <<>>
    BY <1>2, <2>1
  <2> QED
    BY <1>2, <2>1, <2>2 DEF History!Next, History!Pop
<1> QED
  BY <1>1, <1>2, GoesBackTo

\* The ring implements the stack of savestates: a rewind loads exactly the state
\* that was saved before the present one, however often the ring wrapped and
\* whatever failed or was undone and recorded again in between.
THEOREM RingIsAHistory == TrailSpec => RefinesHistory
<1>1. TrailInit => History!Init
  <2> SUFFICES ASSUME TrailInit PROVE History!Init
    OBVIOUS
  <2>1. TrailInv
    BY InitTrail
  <2> QED
    BY <2>1 DEF TrailInv, Recorded, TrailInit, History!Init
<1>2. IInv /\ TrailInv /\ [TrailNext]_trailVars => [History!Next]_(History!vars)
  <2> SUFFICES ASSUME IInv, TrailInv, [TrailNext]_trailVars
               PROVE  [History!Next]_(History!vars)
    OBVIOUS
  <2>1. CASE Restart /\ trail' = <<>> /\ past' = <<>>
    <3>1. PICK first \in {core, {}} : bufs' = FreshBufs(first)
      BY <2>1 DEF Restart
    <3>2. bufs'[index'] \in CoreStates /\ core' = core
      BY <2>1, <3>1, FirstCoreState DEF Restart, FreshBufs, TrailInv, Recorded
    <3> QED
      BY <2>1, <3>2 DEF History!Next, History!Restart
  <2>2. CASE (Frame \/ SaveStateFails) /\ UNCHANGED <<trail, past>>
    <3>1. bufs'[index'] = bufs[index]
      BY <2>2, TrailFacts DEF Frame, SaveStateFails
    <3> QED
      BY <2>2, <3>1 DEF Frame, SaveStateFails, History!Next, History!Frame, History!vars
  <2>3. CASE Saves
    BY <2>3, SavesRefines
  <2>4. CASE GoesBack
    BY <2>4, GoesBackRefines
  <2>5. CASE UNCHANGED trailVars
    BY <2>5 DEF trailVars, vars, History!vars
  <2> QED
    BY <2>1, <2>2, <2>3, <2>4, <2>5 DEF TrailNext
<1> QED
  BY <1>1, <1>2, TrailHolds, PTL DEF TrailSpec, RefinesHistory, History!Spec
=============================================================================
