------------------------------- MODULE CircleBuf -------------------------------
(***************************************************************************)
(* CircleBuf (circle_buf.h): the lock-free ring between one producer       *)
(* thread and one consumer thread, step by step.  One cell is one stereo   *)
(* frame.  Each thread reads the position the other owns, works on _buf,   *)
(* and publishes its own position last; the steps interleave freely.       *)
(*                                                                         *)
(* The consumer comes in two kinds.  The resampler thread uses ReadBegin   *)
(* and ReadEnd and keeps its cells until ReadEnd; the audio output thread  *)
(* uses Read, which gives the cells back before the caller has used them.  *)
(***************************************************************************)
EXTENDS Integers, Sequences

CONSTANTS
    Total,          \* TOTAL_SIZE, a power of two
    ReadSize,       \* the size the consumer passes to Read
    MaxRun,         \* the longest run written at once
    Sample          \* the values a frame can have

\* Read "must be a multiple of size": TOTAL_SIZE of ReadSize.
ASSUME BufAssumption ==
    /\ Total \in Nat \ {0}
    /\ ReadSize \in 1 .. Total - 1
    /\ Total % ReadSize = 0
    /\ MaxRun \in Nat \ {0}
    /\ Sample # {}

VARIABLES
    buf,            \* _buf
    readPos,        \* _read_pos
    writePos,       \* _write_pos
    wpc,            \* what the producer is doing
    data,           \* the run it was given to write, or is producing
    copied,         \* how many cells of the run are in _buf
    inTmp,          \* the run is being collected in _tmp
    rpc,            \* what the consumer is doing
    lent,           \* the cells it is using: first cell and length
    byBlocks        \* the consumer uses Read, and not ReadBegin

vars == <<buf, readPos, writePos, wpc, data, copied, inTmp, rpc, lent, byBlocks>>
producer == <<wpc, data, copied, inTmp>>
consumer == <<rpc, lent, byBlocks>>

Positions == 0 .. Total - 1
Runs == UNION { [1 .. n -> Sample] : n \in 1 .. MaxRun }
Nothing == [first |-> 0, len |-> 0]

\* An operator named X_Bug is X as a plausible bug would have it; no definition
\* uses it, the checks are repeated with it to see that the properties notice.
FreeSize_NoGap == Total - ((writePos - readPos) % Total)

\* Unsigned arithmetic masked with TOTAL_SIZE - 1.
FreeSize == (readPos - writePos - 1) % Total
AvailableSize == (writePos - readPos) % Total

\* The k-th cell (from 0) of a run that starts at _write_pos: the second memcpy
\* of Write goes on at the start of _buf.
WriteCell(k) == IF writePos + k < Total THEN writePos + k ELSE writePos + k - Total

\* _write_pos after a run of n: reset when the run reaches the end of _buf.
WriteAfter(n) == IF writePos + n < Total THEN writePos + n ELSE n - (Total - writePos)

Init ==
    /\ buf \in [Positions -> Sample]
    /\ readPos = 0 /\ writePos = 0
    /\ wpc = "idle" /\ data = <<>> /\ copied = 0 /\ inTmp = FALSE
    /\ rpc = "idle" /\ lent = Nothing /\ byBlocks \in BOOLEAN
-----------------------------------------------------------------------------

\* Write, past its check of FreeSize; a run that does not fit is dropped.
Write(run) ==
    /\ wpc = "idle"
    /\ Len(run) <= FreeSize
    /\ wpc' = "copy"
    /\ data' = run
    /\ copied' = 0
    /\ inTmp' = FALSE
    /\ UNCHANGED <<buf, readPos, writePos, consumer>>

WriteBegin_Unchecked(run) ==
    /\ wpc = "idle"
    /\ wpc' = "fill" /\ data' = run /\ copied' = 0
    /\ inTmp' = (writePos + Len(run) >= Total)
    /\ UNCHANGED <<buf, readPos, writePos, consumer>>

\* WriteBegin: the caller fills the ring in place when the run ends before the
\* end of _buf, and _tmp otherwise.
WriteBegin(run) ==
    /\ wpc = "idle"
    /\ Len(run) <= FreeSize
    /\ wpc' = "fill"
    /\ data' = run
    /\ copied' = 0
    /\ inTmp' = (writePos + Len(run) >= Total)
    /\ UNCHANGED <<buf, readPos, writePos, consumer>>

\* One cell of memcpy, or of what the caller puts at the pointer WriteBegin gave.
CopyCell ==
    /\ wpc = "copy" \/ (wpc = "fill" /\ ~inTmp)
    /\ copied < Len(data)
    /\ buf' = [buf EXCEPT ![WriteCell(copied)] = data[copied + 1]]
    /\ copied' = copied + 1
    /\ UNCHANGED <<readPos, writePos, wpc, data, inTmp, consumer>>

\* The caller has filled n cells, or fewer than it asked for (swr_convert): they
\* are published when they are in the ring, and written with Write when in _tmp.
WriteEnd(n) ==
    /\ wpc = "fill"
    /\ IF inTmp
       THEN /\ n <= Len(data)
            /\ IF n <= FreeSize
               THEN wpc' = "copy" /\ data' = SubSeq(data, 1, n)
               ELSE wpc' = "idle" /\ data' = <<>>
            /\ UNCHANGED <<writePos, copied>>
       ELSE /\ n = copied
            /\ writePos' = writePos + n
            /\ wpc' = "idle" /\ data' = <<>> /\ copied' = 0
    /\ inTmp' = FALSE
    /\ UNCHANGED <<buf, readPos, consumer>>

Publish_BeforeCopy ==
    /\ wpc = "copy"
    /\ writePos' = WriteAfter(Len(data))
    /\ wpc' = "idle" /\ data' = <<>> /\ copied' = 0
    /\ UNCHANGED <<buf, readPos, inTmp, consumer>>

\* The end of Write: _write_pos is stored after the last cell.
Publish ==
    /\ wpc = "copy"
    /\ copied = Len(data)
    /\ writePos' = WriteAfter(copied)
    /\ wpc' = "idle" /\ data' = <<>> /\ copied' = 0
    /\ UNCHANGED <<buf, readPos, inTmp, consumer>>

Producer ==
    \/ \E run \in Runs : Write(run) \/ WriteBegin(run)
    \/ CopyCell
    \/ \E n \in 0 .. MaxRun : WriteEnd(n)
    \/ Publish
-----------------------------------------------------------------------------

\* ReadBegin: all the cells up to _write_pos, or up to the end of _buf.
ReadBegin ==
    /\ rpc = "idle" /\ ~byBlocks
    /\ readPos # writePos
    /\ rpc' = "using"
    /\ lent' = [first |-> readPos,
                len |-> IF readPos < writePos THEN writePos - readPos
                                              ELSE Total - readPos]
    /\ UNCHANGED <<buf, readPos, writePos, producer, byBlocks>>

ReadEnd ==
    /\ rpc = "using" /\ ~byBlocks
    /\ readPos' = (readPos + lent.len) % Total
    /\ rpc' = "idle"
    /\ lent' = Nothing
    /\ UNCHANGED <<buf, writePos, producer, byBlocks>>

\* Read, past its check of AvailableSize.
Read ==
    /\ rpc = "idle" /\ byBlocks
    /\ AvailableSize >= ReadSize
    /\ rpc' = "advance"
    /\ lent' = [first |-> readPos, len |-> ReadSize]
    /\ UNCHANGED <<buf, readPos, writePos, producer, byBlocks>>

\* The end of Read: the cells are given back, and only then returned.
Advance ==
    /\ rpc = "advance"
    /\ readPos' = IF readPos + ReadSize >= Total THEN 0 ELSE readPos + ReadSize
    /\ rpc' = "using"
    /\ UNCHANGED <<buf, writePos, producer, lent, byBlocks>>

\* sceAudioOutOutput has returned.
Used ==
    /\ rpc = "using" /\ byBlocks
    /\ rpc' = "idle"
    /\ lent' = Nothing
    /\ UNCHANGED <<buf, readPos, writePos, producer, byBlocks>>

\* _in_buf of the resampler is read with ReadBegin, _out_buf of the audio
\* output in blocks.
Consumer == ReadBegin \/ ReadEnd \/ Read \/ Advance \/ Used

Next == Producer \/ Consumer

Spec == Init /\ [][Next]_vars
-----------------------------------------------------------------------------
TypeOK ==
    /\ buf \in [Positions -> Sample]
    /\ readPos \in Positions /\ writePos \in Positions
    /\ wpc \in {"idle", "fill", "copy"}
    /\ data \in Runs \cup {<<>>}
    /\ copied \in 0 .. Len(data)
    /\ inTmp \in BOOLEAN
    /\ rpc \in {"idle", "advance", "using"}
    /\ lent \in [first : Positions, len : 0 .. Total]
    /\ byBlocks \in BOOLEAN

\* The cells handed to the consumer lie in _buf: Read gives out whole blocks
\* without looking at the end of the buffer, which only works while the read
\* position stays a multiple of the block, and ReadBegin stops at the end.
LentInBuf == lent.first + lent.len <= Total

\* A run that WriteBegin accepted still fits when WriteEnd writes it: in between
\* the consumer can only have made more room, so no sample is lost there.
AcceptedRunFits == wpc # "idle" => Len(data) <= FreeSize

LentKept == \A i \in lent.first .. lent.first + lent.len - 1 : lent' = lent => buf'[i] = buf[i]

\* A cell lent by ReadBegin is not overwritten before ReadEnd, however full the
\* ring is.
BorrowedCellsKept == [][~byBlocks => LentKept]_vars

\* The ring implements the FIFO of samples: runs are appended whole and in order
\* at the moment their position is published, and leave in the same order.
Queue == [ i \in 1 .. AvailableSize |-> buf[(readPos + i - 1) % Total] ]

Fifo == INSTANCE SampleFifo WITH
            Capacity <- Total - 1, queue <- Queue, offered <- data

RefinesFifo == Fifo!Spec
=============================================================================
