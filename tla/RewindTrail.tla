------------------------------ MODULE RewindTrail ------------------------------
(***************************************************************************)
(* RewindBuffer with the history it stands for written beside it: two      *)
(* variables the code does not have, which no action looks at, remember    *)
(* the blocks that can be gone back to and the savestates they were begun  *)
(* in.  With them each step of the ring is a step of RewindHistory.        *)
(***************************************************************************)
EXTENDS RewindBuffer, Sequences

VARIABLES
    trail,      \* the blocks that can be gone back to, oldest first
    past        \* the savestate of each of them

trailVars == <<vars, trail, past>>

TrailInit == Init /\ trail = <<>> /\ past = <<>>

\* A block is left with the state that was present in it; one that cannot be
\* gone back to cuts off all that came before.
Leaves ==
    IF Followable(current)
    THEN /\ trail' = Append(trail, current)
         /\ past' = Append(past, bufs[index])
    ELSE trail' = <<>> /\ past' = <<>>

Saves ==
    /\ SaveState
    /\ IF core = bufs[index] THEN UNCHANGED <<trail, past>> ELSE Leaves

GoesBack ==
    /\ Rewind
    /\ IF DiffRewind.ok
       THEN /\ trail' = SubSeq(trail, 1, Len(trail) - 1)
            /\ past' = SubSeq(past, 1, Len(past) - 1)
       ELSE UNCHANGED <<trail, past>>

TrailNext ==
    \/ Restart /\ trail' = <<>> /\ past' = <<>>
    \/ (Frame \/ SaveStateFails) /\ UNCHANGED <<trail, past>>
    \/ Saves
    \/ GoesBack

TrailSpec == TrailInit /\ [][TrailNext]_trailVars
-----------------------------------------------------------------------------
\* The trail is the chain of blocks: from the current block, whose state is the
\* present one, each previous pointer leads to the next older block of the trail,
\* and undoing the difference kept there gives the older state.
TrailIsChain ==
    /\ Len(past) = Len(trail)
    /\ \A i \in 1 .. Len(trail) :
          LET newer == IF i = Len(trail) THEN current ELSE trail[i + 1]
              state == IF i = Len(trail) THEN bufs[index] ELSE past[i + 1]
          IN  /\ Followable(trail[i]) /\ trail[i] \in DOMAIN blocks
              /\ blocks[newer].prev = trail[i]
              /\ past[i] = Xor(state, blocks[trail[i]].diff)
    /\ LET oldest == IF trail = <<>> THEN current ELSE trail[1]
       IN  ~Followable(blocks[oldest].prev)

History == INSTANCE RewindHistory WITH State <- CoreStates, present <- bufs[index]

\* The difference chain implements the stack of savestates: every rewind loads
\* exactly the state saved before the present one.
RefinesHistory == History!Spec
=============================================================================
