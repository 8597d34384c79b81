------------------------------ MODULE SampleFifo ------------------------------
(***************************************************************************)
(* What a CircleBuf promises its two threads: a bounded FIFO of samples.   *)
(* The producer offers a run of samples, of which a prefix is appended or  *)
(* nothing at all; the consumer takes runs from the front.                 *)
(***************************************************************************)
EXTENDS Sequences, Naturals

CONSTANTS
    Sample,         \* the values a sample can have
    Capacity,       \* how many samples the buffer can hold
    MaxRun          \* the longest run the producer offers

VARIABLES
    queue,          \* the samples written and not yet taken
    offered         \* the run the producer is writing

vars == <<queue, offered>>

Init == queue = <<>> /\ offered = <<>>

Offer ==
    /\ offered' \in UNION { [1 .. n -> Sample] : n \in 0 .. MaxRun }
    /\ UNCHANGED queue

Put ==
    /\ \E n \in 0 .. Len(offered) :
          /\ Len(queue) + n <= Capacity
          /\ queue' = queue \o SubSeq(offered, 1, n)
    /\ offered' = <<>>

Take ==
    /\ \E n \in 1 .. Len(queue) : queue' = SubSeq(queue, n + 1, Len(queue))
    /\ UNCHANGED offered

Next == Offer \/ Put \/ Take

Spec == Init /\ [][Next]_vars
=============================================================================
