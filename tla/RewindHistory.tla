---------------------------- MODULE RewindHistory ----------------------------
(***************************************************************************)
(* What the rewind feature promises, with no ring buffer in sight: the     *)
(* states saved so far form a stack, a rewind loads the state that was     *)
(* saved just before the present one, and old states may be forgotten but  *)
(* never altered or reordered.                                             *)
(***************************************************************************)
EXTENDS Sequences, Naturals

CONSTANT State          \* the savestates the core can produce

VARIABLES
    core,               \* the savestate the emulated machine would produce now
    present,            \* the last state saved, or rewound to
    past                \* the states that can still be rewound to, oldest first

vars == <<core, present, past>>

Suffixes(s) == { SubSeq(s, k, Len(s)) : k \in 1 .. Len(s) + 1 }

Init ==
    /\ core \in State
    /\ present \in State
    /\ past = <<>>

\* The emulated machine runs: the history does not notice.
Frame == core' \in State /\ UNCHANGED <<present, past>>

\* The present state joins the past and some of the oldest states may go.
Push ==
    /\ core # present
    /\ present' = core
    /\ past' \in Suffixes(Append(past, present))
    /\ UNCHANGED core

\* Exactly the previous state comes back; the core may refuse to load it.
Pop ==
    /\ past # <<>>
    /\ present' = past[Len(past)]
    /\ past' = SubSeq(past, 1, Len(past) - 1)
    /\ core' \in {core, present'}

\* The history is thrown away and recording starts over.
Restart ==
    /\ present' \in State
    /\ past' = <<>>
    /\ UNCHANGED core

Next == Frame \/ Push \/ Pop \/ Restart

Spec == Init /\ [][Next]_vars
=============================================================================
