------------------------------- MODULE AudioPipe -------------------------------
(***************************************************************************)
(* The way of the sound (audio.cpp): the core's thread writes what it      *)
(* plays into the resampler's ring, or into the output's where the rate is *)
(* one the port takes; the resampler thread (audio_resampler.cpp) moves it *)
(* on, and the output thread (audio_output.cpp) plays a block at a time,   *)
(* after the latency has filled the ring.  A fourth thread changes the     *)
(* rate with the speed, or mutes.  The rings themselves are CircleBuf;     *)
(* here they are amounts, in blocks of the port.                           *)
(*                                                                         *)
(* Assumed: Stop(true) gives its thread the time to end; the core's thread *)
(* is at no sample when _resampler changes, as nothing protects it.        *)
(***************************************************************************)
EXTENDS Naturals

CONSTANTS
    Rate,       \* the rates the core has at its speeds, from 1
    Exact,      \* those among SAMPLE_RATES
    InSize,     \* the most _in_buf holds
    OutSize     \* the most _out_buf holds

VARIABLE audio
(* audio.rate: _in_sample_rate, 0 at first; audio.ms: _latency             *)
(* audio.output, audio.resampler: the object is there                      *)
(* audio.latency, audio.updated: _latency_size, _latency_updated           *)
(* audio.in, audio.out: what the rings hold                                *)
(* audio.oat, audio.rat: where the two threads are; audio.orun, audio.rrun:*)
(*   _keep_running; audio.osem, audio.rsem: their semaphores, 0 or 1       *)
(* audio.core: whose semaphore the core's thread is about to signal        *)
(* audio.set: where the setter is; audio.mute: muted                       *)
(* audio.seen: history, the latency the output thread last compared with   *)

\* SetLatency: _out_sample_rate * 2 * _latency / 1024, and the latency is only raised.
Size(rate, ms) == IF rate > 1 THEN ms ELSE 1

Init == audio = [rate |-> 0, ms |-> 1, output |-> FALSE, resampler |-> FALSE, latency |-> 0,
                 updated |-> FALSE, in |-> 0, out |-> 0, oat |-> "off", rat |-> "off",
                 orun |-> FALSE, rrun |-> FALSE, osem |-> 0, rsem |-> 0, core |-> "run",
                 set |-> "idle", mute |-> FALSE, seen |-> 0]
-----------------------------------------------------------------------------
(* The core's thread.                                                      *)

Quiet == audio.set = "idle"

\* An operator named X_Bug is X as a plausible bug would have it; no definition
\* uses it, the checks are repeated with it to see that the properties notice.
SendAudioSample_FirstOnly ==
    /\ audio.core = "run" /\ Quiet /\ ~audio.mute /\ audio.output /\ ~audio.resampler
    /\ audio.out < OutSize
    /\ audio' = [audio EXCEPT !.out = @ + 1, !.core = IF audio.out = 0 THEN "output" ELSE @]

\* Audio::SendAudioSample: a full ring drops the samples, the signal is given.
SendAudioSample ==
    /\ audio.core = "run" /\ Quiet /\ ~audio.mute /\ audio.output /\ ~audio.resampler
    /\ audio' = [audio EXCEPT !.out = IF @ < OutSize THEN @ + 1 ELSE @, !.core = "output"]

\* AudioResampler::Process: here a full ring gives no signal.
Process ==
    /\ audio.core = "run" /\ Quiet /\ ~audio.mute /\ audio.resampler /\ audio.in < InSize
    /\ audio' = [audio EXCEPT !.in = @ + 1, !.core = "resampler"]

CoreSignals ==
    \/ audio.core = "output" /\ audio' = [audio EXCEPT !.osem = 1, !.core = "run"]
    \/ audio.core = "resampler" /\ audio' = [audio EXCEPT !.rsem = 1, !.core = "run"]

\* RETRO_ENVIRONMENT_SET_MINIMUM_AUDIO_LATENCY.
SetLatency(ms) ==
    /\ audio.core = "run" /\ Quiet /\ ms > audio.ms
    /\ audio' = IF ~audio.output THEN [audio EXCEPT !.ms = ms]
                ELSE [audio EXCEPT !.ms = ms, !.latency = Size(audio.rate, ms), !.updated = TRUE]
-----------------------------------------------------------------------------
(* AudioOutput::_AudioThread.                                              *)

OutputTop ==
    /\ audio.oat = "top"
    /\ audio' = [audio EXCEPT !.oat = IF ~audio.orun THEN "off"
                                      ELSE IF audio.updated THEN "fill" ELSE "read"]
OutputFill ==
    /\ audio.oat = "fill"
    /\ IF audio.out < audio.latency /\ audio.orun
       THEN audio' = [audio EXCEPT !.oat = "waitToFill", !.seen = audio.latency]
       ELSE audio' = [audio EXCEPT !.oat = "read", !.updated = FALSE]
OutputRead ==
    /\ audio.oat = "read"
    /\ IF audio.out > 0
       THEN audio' = [audio EXCEPT !.out = @ - 1, !.oat = IF audio.orun THEN "play" ELSE "off"]
       ELSE audio' = [audio EXCEPT !.oat = IF audio.orun THEN "waitToRead" ELSE "off"]
OutputWakes ==
    /\ audio.osem = 1
    /\ \/ audio.oat = "waitToFill" /\ audio' = [audio EXCEPT !.oat = "fill", !.osem = 0]
       \/ audio.oat = "waitToRead" /\ audio' = [audio EXCEPT !.oat = "read", !.osem = 0]
OutputPlays == audio.oat = "play" /\ audio' = [audio EXCEPT !.oat = "top"]

(* AudioResampler::_ResampleThread, and what swr_convert gives: as much.   *)

ResamplerTake ==
    /\ audio.rat = "take"
    /\ audio' = [audio EXCEPT !.rat = IF ~audio.rrun THEN "off"
                                      ELSE IF audio.in = 0 THEN "wait" ELSE "convert"]
ResamplerWakes ==
    /\ audio.rat = "wait" /\ audio.rsem = 1
    /\ audio' = [audio EXCEPT !.rat = "take", !.rsem = 0]

\* Without room in the output's ring it takes the samples anew.
ResamplerConvert ==
    /\ audio.rat = "convert"
    /\ \E n \in 1 .. audio.in :
          audio' = IF audio.out + n > OutSize THEN [audio EXCEPT !.rat = "take"]
                   ELSE [audio EXCEPT !.in = @ - n, !.out = @ + n, !.rat = "signal"]
ResamplerSignals ==
    audio.rat = "signal" /\ audio' = [audio EXCEPT !.osem = 1, !.rat = "take"]
-----------------------------------------------------------------------------
(* Audio::Init, in the order of its steps, and Audio::Deinit.              *)

\* Emulator::SetSpeed, or unmuted: the same rate again is no news.
Begin(rate) ==
    /\ Quiet /\ audio.core = "run"
    /\ rate # audio.rate
    /\ audio' = [audio EXCEPT !.rate = rate, !.set = "output",
                   !.orun = FALSE, !.osem = IF audio.output THEN 1 ELSE @]

\* The output thread was waited for; it starts with the new rate.
StartOutput ==
    /\ audio.set = "output" /\ audio.oat = "off"
    /\ audio' = [audio EXCEPT !.output = TRUE, !.orun = TRUE, !.oat = "top",
                   !.updated = audio.output \/ @,
                   !.set = "resampler", !.rrun = FALSE, !.rsem = IF audio.resampler THEN 1 ELSE @]

\* Stopped and started at the new rates, created, or deleted with its ring.
StartResampler ==
    /\ audio.set = "resampler" /\ audio.rat = "off"
    /\ audio' = IF audio.rate \in Exact
                THEN [audio EXCEPT !.set = "latency", !.resampler = FALSE, !.in = 0, !.rsem = 0]
                ELSE [audio EXCEPT !.set = "latency", !.resampler = TRUE, !.rrun = TRUE, !.rat = "take"]

LatencyAgain ==
    /\ audio.set = "latency"
    /\ audio' = [audio EXCEPT !.set = "idle", !.latency = Size(audio.rate, audio.ms), !.updated = TRUE]

\* Muted in the menu, between frames: Deinit, the resampler first.
Mute ==
    /\ Quiet /\ audio.core = "run" /\ ~audio.mute
    /\ audio' = [audio EXCEPT !.mute = TRUE, !.set = "deleteResampler", !.rrun = FALSE,
                   !.rsem = IF audio.resampler THEN 1 ELSE @]
DeleteResampler ==
    /\ audio.set = "deleteResampler" /\ audio.rat = "off"
    /\ audio' = [audio EXCEPT !.set = "deleteOutput", !.resampler = FALSE, !.in = 0, !.rsem = 0,
                   !.orun = FALSE, !.osem = IF audio.output THEN 1 ELSE @]
DeleteOutput ==
    /\ audio.set = "deleteOutput" /\ audio.oat = "off"
    /\ audio' = [audio EXCEPT !.set = "idle", !.output = FALSE, !.updated = FALSE,
                   !.osem = 0, !.latency = 0]

\* Init does nothing unless the rate has changed since: until it does there is
\* no output, and the samples that find none are left out.
Unmute == Quiet /\ audio.mute /\ audio' = [audio EXCEPT !.mute = FALSE]

Next ==
    \/ SendAudioSample \/ Process \/ CoreSignals \/ SetLatency(2)
    \/ OutputTop \/ OutputFill \/ OutputRead \/ OutputWakes \/ OutputPlays
    \/ ResamplerTake \/ ResamplerWakes \/ ResamplerConvert \/ ResamplerSignals
    \/ (\E r \in Rate : Begin(r)) \/ StartOutput \/ StartResampler \/ LatencyAgain
    \/ Mute \/ DeleteResampler \/ DeleteOutput \/ Unmute

Spec == Init /\ [][Next]_audio
-----------------------------------------------------------------------------
TypeOK ==
    /\ audio.rate \in Rate \cup {0} /\ audio.in \in 0 .. InSize /\ audio.out \in 0 .. OutSize
    /\ audio.latency \in 0 .. OutSize /\ {audio.osem, audio.rsem} \subseteq {0, 1}
    /\ Quiet /\ audio.output => (audio.resampler <=> audio.rate \notin Exact)

(* Neither thread waits for what is there: the semaphores hold one signal  *)
(* each and are signalled without a lock, after the write; a signal that   *)
(* is still due, or stays over from a stop, must not be needed twice       *)
(* (AudioOutput, AudioResampler).                                          *)
NobodyWaitsInVain ==
    LET outDue == audio.osem = 1 \/ audio.core = "output" \/ audio.rat = "signal"
        inDue == audio.rsem = 1 \/ audio.core = "resampler"
    IN /\ audio.oat = "waitToFill" => outDue \/ audio.out < audio.seen
       /\ audio.oat = "waitToRead" => outDue \/ audio.out = 0
       /\ audio.rat = "wait" => inDue \/ audio.in = 0
=============================================================================
