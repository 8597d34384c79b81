----------------------------- MODULE RewindBuffer -----------------------------
(***************************************************************************)
(* The rewind store of the frontend (emu/rewind.h, emu/rewind.cpp): two    *)
(* whole savestates (StateBuf) and a ring of difference blocks (DiffBuf)   *)
(* through which the rewind thread goes forward with _SaveState and back   *)
(* with _Rewind.  Addresses are byte offsets from DiffBuf::_buf.           *)
(*                                                                         *)
(* A savestate is abstracted to the set of its 16-byte cells whose content *)
(* is "one": one bit stands for the 16 bytes of a cell, so the xor of two  *)
(* states is their symmetric difference and the cells MemCmpXor0x10        *)
(* reports are exactly its elements.  Sizes are the real ones.             *)
(***************************************************************************)
EXTENDS Integers, FiniteSets

CONSTANTS
    StateSize,          \* retro_serialize_size(), in bytes
    BufSize,            \* DiffBuf::_size: rewind_buf_size, in bytes
    CountMod,           \* 2^32 in the code: the width of DiffBlock::count
    CoreStates          \* the savestates the core can produce

\* ALIGN_UP_10H of utils.h, and the sizes RewindManager::Init derives with it.
AlignUp(x) == ((x + 15) \div 16) * 16
Step == 16                              \* DIFF_STEP
HeaderSize == 16                        \* sizeof(DiffBlock)
AreaSize == 8                           \* sizeof(DiffArea)
Aligned == AlignUp(StateSize)           \* StateBuf::_size
TailSize == (12 * StateSize) \div 10    \* _state_size * 1.2
\* An operator named X_Bug is X as a plausible bug would have it; no definition
\* uses it, the checks are repeated with it to see that the properties notice.
AllocSize_NoTail == AlignUp(BufSize)

AllocSize == AlignUp(BufSize + TailSize)
Cells == 0 .. (Aligned \div Step) - 1
States == SUBSET Cells

\* The tail behind the ring must hold the largest block: true of every
\* savestate of 195 bytes and more (theorem TailHoldsLargestBlock).
ASSUME SizesAssumption ==
    /\ StateSize \in Nat \ {0}
    /\ BufSize \in Nat \ {0}
    /\ BufSize % 16 = 0
    /\ HeaderSize + AreaSize + Aligned <= AlignUp(TailSize)
    /\ CountMod \in Nat \ {0, 1}
    /\ CoreStates \subseteq States
    /\ {} \in CoreStates

NullPtr == -1
Offsets == 0 .. BufSize
Counts == 0 .. CountMod - 1
Block == [magic : BOOLEAN, prev : Offsets \cup {NullPtr}, count : Counts,
          len : Nat, diff : States]

VARIABLES
    core,       \* the savestate retro_serialize would produce now
    bufs,       \* StateBuf::_bufs
    index,      \* StateBuf::_index
    blocks,     \* offset |-> DiffBlock, for the offsets that still hold one
    current,    \* DiffBuf::_current
    count       \* DiffBuf::_count

vars == <<core, bufs, index, blocks, current, count>>
-----------------------------------------------------------------------------
Xor(s, t) == (s \ t) \cup (t \ s)

(***************************************************************************)
(* The length of the block _SaveState lays out for a difference.  An area  *)
(* header is taken for each run of changed cells, and one more when the    *)
(* last run ends before the last cell: the next area is opened as soon as  *)
(* an unchanged cell follows a changed one.                                *)
(***************************************************************************)
Runs(d) == { c \in d : c - 1 \notin d }
Closed(d) == { c \in Cells : c = (Aligned \div Step) - 1 /\ c \notin d }
BlockLen(d) ==
    HeaderSize + AreaSize * (Cardinality(Runs(d)) + Cardinality(Closed(d)))
               + Step * Cardinality(d)

\* Writing b at offset o destroys every block it overlaps.
Overwrite(bs, o, b) ==
    LET kept == { x \in DOMAIN bs \ {o} : x + bs[x].len <= o \/ o + b.len <= x }
    IN  [ x \in kept \cup {o} |-> IF x = o THEN b ELSE bs[x] ]

\* DiffBuf::Reset clears the first header only.
ZeroHeader ==
    [magic |-> FALSE, prev |-> NullPtr, count |-> 0, len |-> HeaderSize, diff |-> {}]
EmptyRing == [ o \in {0} |-> ZeroHeader ]

\* DiffBuf::Increase: where the block after one that ends at e starts.
NextOffset(e) == IF e > BufSize THEN 0 ELSE e

\* The header Increase writes at the new current block.
NewHeader == [magic |-> FALSE, prev |-> current, count |-> count,
              len |-> HeaderSize, diff |-> {}]

Followable_FirstBlock(p) == p # NullPtr /\ 0 <= p /\ p < BufSize

\* DiffBuf::Rewind follows a pointer strictly inside (_buf, _buf + _size).
Followable(p) == p # NullPtr /\ 0 < p /\ p < BufSize

\* DiffBlock::IsValid(excepted) of the block at p.
Intact(p, excepted) ==
    p \in DOMAIN blocks /\ blocks[p].magic /\ blocks[p].count = excepted

Pred(c) == (c - 1) % CountMod

(***************************************************************************)
(* DiffBuf::Rewind.  The third branch moves to a block that has been       *)
(* overwritten and cuts the chain there by writing prev = 0 into whatever  *)
(* bytes the offset now holds.                                             *)
(***************************************************************************)
DiffRewind ==
    LET b == blocks[current]
        p == b.prev
        cut == IF p \in DOMAIN blocks
               THEN [blocks EXCEPT ![p].prev = NullPtr]
               ELSE Overwrite(blocks, p, ZeroHeader)
    IN  IF ~Followable(p)
        THEN [ok |-> FALSE, current |-> current, count |-> count, blocks |-> blocks]
        ELSE IF Intact(p, Pred(b.count))
        THEN [ok |-> TRUE, current |-> p, count |-> b.count, blocks |-> blocks]
        ELSE [ok |-> FALSE, current |-> p, count |-> count, blocks |-> cut]
-----------------------------------------------------------------------------
(***************************************************************************)
(* A fresh StateBuf and DiffBuf and the thread's first _Serialize, which   *)
(* fills the current buffer unless the core cannot serialize yet.          *)
(***************************************************************************)
FreshBufs(first) == [ i \in {0, 1} |-> IF i = 0 THEN first ELSE {} ]

Init ==
    /\ core \in CoreStates
    /\ \E first \in {core, {}} : bufs = FreshBufs(first)
    /\ index = 0
    /\ blocks = EmptyRing
    /\ current = 0
    /\ count = 1

\* RewindManager::Init: another game, or another size of the ring.
Restart ==
    /\ \E first \in {core, {}} : bufs' = FreshBufs(first)
    /\ index' = 0
    /\ blocks' = EmptyRing
    /\ current' = 0
    /\ count' = 1
    /\ UNCHANGED core

\* retro_run, or any load of a savestate, on the other threads.
Frame == core' \in CoreStates /\ UNCHANGED <<bufs, index, blocks, current, count>>

(***************************************************************************)
(* RewindManager::_SaveState: toggle, serialize, lay out the difference in *)
(* the current block and, if there is any, complete the block and open the *)
(* next one.                                                               *)
(***************************************************************************)
SaveState ==
    LET saved  == [bufs EXCEPT ![1 - index] = core]
        d      == Xor(saved[0], saved[1])
        filled == [blocks[current] EXCEPT !.magic = TRUE, !.diff = d,
                                          !.len = BlockLen(d)]
        next   == NextOffset(current + BlockLen(d))
    IN  /\ bufs' = saved
        /\ index' = 1 - index
        /\ IF d = {}
           THEN /\ blocks' = [blocks EXCEPT ![current].diff = {}]
                /\ UNCHANGED <<current, count>>
           ELSE /\ blocks' = Overwrite(Overwrite(blocks, current, filled),
                                       next, NewHeader)
                /\ current' = next
                /\ count' = (count + 1) % CountMod
        /\ UNCHANGED core

SaveStateFails_NoToggleBack ==
    /\ \E junk \in CoreStates : bufs' = [bufs EXCEPT ![1 - index] = junk]
    /\ index' = 1 - index
    /\ UNCHANGED <<core, blocks, current, count>>

\* _SaveState when retro_serialize fails: the buffer it was given may have been
\* scribbled on, and is toggled away again.
SaveStateFails ==
    /\ \E junk \in CoreStates : bufs' = [bufs EXCEPT ![1 - index] = junk]
    /\ UNCHANGED <<core, index, blocks, current, count>>

(***************************************************************************)
(* RewindManager::_Rewind with _GetState and _UnSerialize: the block gone  *)
(* back to is undone on the current state, which the core then loads, or   *)
(* refuses.                                                                *)
(***************************************************************************)
Rewind ==
    LET r == DiffRewind
    IN  /\ current' = r.current
        /\ count' = r.count
        /\ blocks' = r.blocks
        /\ IF r.ok
           THEN /\ bufs' = [bufs EXCEPT ![index] = Xor(@, r.blocks[r.current].diff)]
                /\ core' \in {core, bufs'[index]}
           ELSE UNCHANGED <<bufs, core>>
        /\ UNCHANGED index

Next == Restart \/ Frame \/ SaveState \/ SaveStateFails \/ Rewind

Spec == Init /\ [][Next]_vars
-----------------------------------------------------------------------------
TypeOK ==
    /\ core \in States
    /\ bufs \in [{0, 1} -> States]
    /\ index \in {0, 1}
    /\ DOMAIN blocks \subseteq Offsets
    /\ \A o \in DOMAIN blocks : blocks[o] \in Block
    /\ current \in DOMAIN blocks
    /\ count \in Counts

\* No block, complete or being written, reaches past the memory DiffBuf
\* allocated, and the blocks that are still whole do not share a byte.  The
\* block being laid out can be as long as the whole state, which is what the
\* 1.2 * state_size tail behind the ring is for.
BlocksInBounds ==
    /\ \A o \in DOMAIN blocks : o + blocks[o].len <= AllocSize
    /\ \A o, q \in DOMAIN blocks : o < q => o + blocks[o].len <= q

\* Going back never meets an overwritten block: whenever DiffBuf::Rewind
\* accepts to follow the previous pointer of the current block, the block there
\* is complete and carries the preceding sequence number, however often the
\* ring wrapped and whatever was undone and recorded again in between.
RewindMeetsIntactBlock ==
    LET b == blocks[current]
    IN  Followable(b.prev) => Intact(b.prev, Pred(b.count))

(***************************************************************************)
(* The strengthening that makes RewindMeetsIntactBlock inductive.  Top is  *)
(* the highest offset a chain of rewinds can still reach: the current      *)
(* block, or the last block of the previous lap when the current one is    *)
(* the first of a lap.  Up to Top the blocks tile the ring, each linked to *)
(* the one that ends where it starts.                                      *)
(***************************************************************************)
Top ==
    IF current > 0 THEN current
    ELSE IF Followable(blocks[0].prev) THEN blocks[0].prev ELSE 0

Linked(o) ==
    LET p == blocks[o].prev
    IN  Followable(p) => /\ Intact(p, Pred(blocks[o].count))
                         /\ p + blocks[p].len = o

\* The invariant of the chain: the first header is never lost, the counter is
\* one ahead of the current block, and every block still to be reached by going
\* back is linked to an intact predecessor, across the wrap of the ring too.
ChainInv ==
    /\ 0 \in DOMAIN blocks
    /\ count = (blocks[current].count + 1) % CountMod
    /\ \A o \in DOMAIN blocks : 0 < o /\ o <= Top => Linked(o)
    /\ current = 0 /\ Followable(blocks[0].prev)
         => Intact(blocks[0].prev, Pred(blocks[0].count))
=============================================================================
