----------------------------- MODULE FmPipeline -----------------------------
(***************************************************************************)
(* One block of the receiver, from the IQ samples of rtl_source_read to    *)
(* the audio of a chunk: stream_session_fill_pcm_chunk, through            *)
(* src/input/rtl/rtl_iq_decimator.c and src/dsp/fm_pipeline.c, fm_mono.c,  *)
(* fm_stereo.c, mpx_filter_bank.c and fir.c.  Every filter keeps the tail  *)
(* of one block for the next, each in its own way.                         *)
(*                                                                         *)
(* A sample is represented by its number in the stream it is in; 0 is the  *)
(* silence a filter starts from.  What a filter computes is represented by *)
(* the window it is computed from.  The filters of the bank, and the       *)
(* decimators of sum and difference, run in step and are modelled once.    *)
(* A step is one pass of one of the loops over the block.                  *)
(***************************************************************************)
EXTENDS FmQuality, Sequences

CONSTANTS
    IqTaps, IqFactor,        \* RTL_IQ_DECIMATOR_TAP_COUNT, RTL_IQ_DECIMATOR_FACTOR
    MpxTaps,                 \* MPX_FILTER_BANK_TAP_COUNT
    AudioFactor              \* FM_PIPELINE_AUDIO_DECIMATION_FACTOR

\* The window of a decimator advances by its factor; that of the audio decimator,
\* which has as many taps as the filters of the bank, by whole factors to its end;
\* and a block is a whole number of audio samples.
ASSUME FiltersAssumption ==
    /\ IqFactor \in Nat \ {0} /\ IqTaps \in Nat /\ IqFactor <= IqTaps
    /\ AudioFactor \in Nat \ {0} /\ MpxTaps \in Nat \ {0}
    /\ MpxTaps % AudioFactor = 0
    /\ BlockSamples % AudioFactor = 0

AudioBlockSamples == BlockSamples \div AudioFactor

VARIABLES
    place,        \* which loop the processing of a block is in
    index,        \* the pass: output_index, i or input_index of that loop
    block, gap,   \* history: number of the block, and of the last that reset quality
    input_valid, now,
    iq_history, iq_window,              \* rtl_iq_decimator_state; its local window
    prev, have_prev,                    \* fm_discriminator_state
    history, write_index,               \* fir_state of a filter of the bank
    audio_history, window, window_start, produced,  \* fir_decimator_state; locals
    \* history: samples read of the source, demodulated, filtered and decimated,
    \* and the samples the last of each was computed from
    iq_count, mpx_count, fir_count, audio_count,
    iq_used, mpx_used, fir_used, audio_used

iqVars == <<iq_history, iq_window, iq_count, iq_used>>
mpxVars == <<prev, have_prev, mpx_count, mpx_used>>
firVars == <<history, write_index, fir_count, fir_used>>
audioVars == <<audio_history, window, window_start, produced, audio_count, audio_used>>
vars == <<qualityVars, place, index, block, gap, input_valid, now,
          iqVars, mpxVars, firVars, audioVars>>

Garbage == -1  \* what is in a local array that nothing has been written to

IqOverlap == IqTaps - IqFactor
AudioOverlap == MpxTaps - AudioFactor

Sample(n) == IF n > 0 THEN n ELSE 0

\* The size samples up to number n of a stream that began after silence.
Newest(n, size) == [i \in 0..(size - 1) |-> Sample(n - size + 1 + i)]

Silence(size) == [i \in 0..(size - 1) |-> 0]

Fresh(size) == [i \in 0..(size - 1) |-> Garbage]

\* memcpy(to, from + offset, count).
Copy(to, from, offset, count) ==
    [i \in DOMAIN to |-> IF i < count THEN from[i + offset] ELSE to[i]]

\* The count samples after number n, written from position at on.
Write(to, at, n, count) ==
    [i \in DOMAIN to |-> IF at <= i /\ i < at + count THEN n + 1 + (i - at) ELSE to[i]]

\* The size samples a filter multiplies with its taps.
Window(from, at, size) == [i \in 0..(size - 1) |-> from[at + i]]

\* fm_pipeline_init, rtl_iq_decimator_init, fir_init, fm_discriminator_init.
Init ==
    /\ fm_quality_init
    /\ place = "read" /\ index = 0
    /\ block = 0 /\ gap = 0
    /\ input_valid = FALSE /\ now = 0
    /\ iq_history = Silence(2 * IqTaps) /\ iq_window = Fresh(IqTaps)
    /\ prev = 0 /\ have_prev = FALSE
    /\ history = Silence(2 * MpxTaps) /\ write_index = 0
    /\ audio_history = Silence(2 * MpxTaps) /\ window = Fresh(2 * MpxTaps)
    /\ window_start = 0 /\ produced = 0
    /\ iq_count = 0 /\ mpx_count = 0 /\ fir_count = 0 /\ audio_count = 0
    /\ iq_used = Silence(IqTaps)
    /\ mpx_used = <<0, 0>>
    /\ fir_used = Silence(MpxTaps)
    /\ audio_used = Silence(MpxTaps)

GoTo(to) == place' = to /\ index' = 0

-----------------------------------------------------------------------------
(* rtl_iq_decimator_read_block_specialized_16x8 *)

\* rtl_source_read fails, and the block is silence.
ReadFails ==
    /\ place = "read"
    /\ GoTo("demodulate")
    /\ block' = block + 1
    /\ input_valid' = FALSE
    /\ UNCHANGED <<qualityVars, gap, now, iqVars, mpxVars, firVars, audioVars>>

ReadBlock ==
    /\ place = "read"
    /\ GoTo("decimate")
    /\ block' = block + 1
    /\ input_valid' = TRUE
    /\ iq_window' = Copy(Fresh(IqTaps), iq_history, 0, IqOverlap)
    /\ UNCHANGED <<qualityVars, gap, now, iq_history, iq_count, iq_used,
                   mpxVars, firVars, audioVars>>

\* IqFactor new samples behind the overlap; one output; the window moves up.
DecimateIq ==
    LET filled == Write(iq_window, IqOverlap, iq_count, IqFactor)
    IN  /\ place = "decimate" /\ index < BlockSamples
        /\ iq_count' = iq_count + IqFactor
        /\ iq_used' = filled
        /\ iq_window' = Copy(filled, filled, IqFactor, IqOverlap)
        /\ index' = index + 1
        /\ UNCHANGED <<qualityVars, place, block, gap, input_valid, now, iq_history,
                       mpxVars, firVars, audioVars>>

SaveIq ==
    /\ place = "decimate" /\ index = BlockSamples
    /\ iq_history' = Copy(iq_history, iq_window, 0, IqOverlap)
    /\ GoTo("demodulate")
    /\ UNCHANGED <<qualityVars, block, gap, input_valid, now, iq_window, iq_count, iq_used,
                   mpxVars, firVars, audioVars>>

-----------------------------------------------------------------------------
(* fm_discriminator_process_block_*: the angle between a sample and the one *)
(* before it, 0 for the very first.                                        *)

Demodulate ==
    LET n == mpx_count + 1
    IN  /\ place = "demodulate" /\ index < BlockSamples
        /\ mpx_count' = n
        /\ mpx_used' = IF have_prev THEN <<prev, n>> ELSE <<0, 0>>
        /\ prev' = n
        /\ have_prev' = TRUE
        /\ index' = index + 1
        /\ UNCHANGED <<qualityVars, place, block, gap, input_valid, now,
                       iqVars, firVars, audioVars>>

\* fm_pipeline_process_live_block, after the discriminator.
MeasureQuality ==
    /\ place = "demodulate" /\ index = BlockSamples
    /\ \E finite \in BOOLEAN :
          /\ IF input_valid THEN fm_quality_process_block(block, finite)
             ELSE /\ fm_quality_reset
                  /\ UNCHANGED <<have_reported, reported_valid, last_report_time, told>>
          /\ gap' = IF input_valid /\ finite THEN gap ELSE block
    /\ GoTo("report")
    /\ UNCHANGED <<block, input_valid, now, iqVars, mpxVars, firVars, audioVars>>

-----------------------------------------------------------------------------
(* stream_session_fill_pcm_chunk, after the pipeline *)

\* Any time has passed since the block before.
Report ==
    /\ place = "report"
    /\ \E elapsed \in {1, ReportInterval} : now' = now + elapsed
    /\ fm_quality_report(now')
    /\ GoTo("filter")
    /\ UNCHANGED <<block, gap, input_valid, iqVars, mpxVars, firVars, audioVars>>

\* Mutant: the sample is written once only.
RingOnce(sample) == [history EXCEPT ![write_index] = sample]

\* A sample is written twice, a window's length apart, so that the newest samples
\* are in one piece wherever the oldest of them is.
RingWith(sample) ==
    [history EXCEPT ![write_index] = sample, ![write_index + MpxTaps] = sample]

\* fir_execute_block, called by mpx_filter_bank_process_block.
FilterMpx ==
    LET next == IF write_index + 1 = MpxTaps THEN 0 ELSE write_index + 1
    IN  /\ place = "filter" /\ index < BlockSamples
        /\ fir_count' = fir_count + 1
        /\ history' = RingWith(fir_count + 1)
        /\ write_index' = next
        /\ fir_used' = Window(history', next, MpxTaps)
        /\ index' = index + 1
        /\ UNCHANGED <<qualityVars, place, block, gap, input_valid, now,
                       iqVars, mpxVars, audioVars>>

\* fir_decimator_process_block_specialized_90x5, called for the audio.
StartAudio ==
    /\ place = "filter" /\ index = BlockSamples
    /\ window' = Copy(Fresh(2 * MpxTaps), audio_history, 0, AudioOverlap)
    /\ window_start' = 0
    /\ produced' = 0
    /\ GoTo("audio")
    /\ UNCHANGED <<qualityVars, block, gap, input_valid, now, iqVars, mpxVars, firVars,
                   audio_history, audio_count, audio_used>>

\* When the window has reached the second half its overlap is copied to the start.
Compacted ==
    IF window_start = MpxTaps
    THEN [start |-> 0, samples |-> Copy(window, window, window_start, AudioOverlap)]
    ELSE [start |-> window_start, samples |-> window]

\* Mutant: off by one.
MoreThanAudio == index + AudioFactor < BlockSamples

MoreAudio == index + AudioFactor <= BlockSamples

DecimateAudio ==
    LET start == Compacted.start
        filled == Write(Compacted.samples, start + AudioOverlap, audio_count, AudioFactor)
    IN  /\ place = "audio" /\ MoreAudio
        /\ audio_count' = audio_count + AudioFactor
        /\ window' = filled
        /\ audio_used' = Window(filled, start, MpxTaps)
        /\ produced' = IF produced < AudioBlockSamples THEN produced + 1 ELSE produced
        /\ window_start' = start + AudioFactor
        /\ index' = index + AudioFactor
        /\ UNCHANGED <<qualityVars, place, block, gap, input_valid, now,
                       iqVars, mpxVars, firVars, audio_history>>

SaveAudio ==
    /\ place = "audio" /\ ~MoreAudio
    /\ audio_history' = Copy(audio_history, window, window_start, AudioOverlap)
    /\ GoTo("read")
    /\ UNCHANGED <<qualityVars, block, gap, input_valid, now, iqVars, mpxVars, firVars,
                   window, window_start, produced, audio_count, audio_used>>

\* A new session between two blocks: stream_session_init and _configure.
stream_session_configure ==
    /\ place = "read"
    /\ settling_samples' = SettlingSamples
    /\ smoothed_power' = {} /\ valid' = FALSE
    /\ have_reported' = FALSE /\ reported_valid' = FALSE
    /\ last_report_time' = 0 /\ told' = Nothing
    /\ gap' = block
    /\ iq_history' = Silence(2 * IqTaps)
    /\ prev' = 0 /\ have_prev' = FALSE
    /\ history' = Silence(2 * MpxTaps) /\ write_index' = 0
    /\ audio_history' = Silence(2 * MpxTaps)
    /\ iq_count' = 0 /\ mpx_count' = 0 /\ fir_count' = 0 /\ audio_count' = 0
    /\ iq_used' = Silence(IqTaps) /\ mpx_used' = <<0, 0>>
    /\ fir_used' = Silence(MpxTaps) /\ audio_used' = Silence(MpxTaps)
    /\ UNCHANGED <<place, index, block, input_valid, now, iq_window,
                   window, window_start, produced>>

Next ==
    \/ ReadFails \/ ReadBlock \/ DecimateIq \/ SaveIq
    \/ Demodulate \/ MeasureQuality
    \/ Report \/ FilterMpx \/ StartAudio \/ DecimateAudio \/ SaveAudio
    \/ stream_session_configure

Spec == Init /\ [][Next]_vars

-----------------------------------------------------------------------------
(* Properties *)

\* Whatever filter computes a sample computes it from the newest samples of what is
\* before it, with no gap and no repetition between two blocks: the overlap of the IQ
\* decimator, the previous sample of the discriminator, the doubled ring of the bank's
\* filters, and the audio decimator's overlap, which moves up through the window.
WindowsAreNewest ==
    /\ iq_used = Newest(iq_count, IqTaps)
    /\ mpx_used = IF mpx_count > 1 THEN <<mpx_count - 1, mpx_count>> ELSE <<0, 0>>
    /\ fir_used = Newest(fir_count, MpxTaps)
    /\ audio_used = Newest(audio_count, MpxTaps)

\* A block makes a whole chunk of audio, of all of its samples: fm_mono_process_block
\* has nothing to fill up, and nothing is left over for the next block.
AudioIsWhole ==
    place = "read" /\ audio_count > 0 =>
        /\ produced = AudioBlockSamples
        /\ audio_count = fir_count /\ fir_count = mpx_count

\* The last block the quality estimate was given.
Measured == IF place \in {"decimate", "demodulate"} THEN block - 1 ELSE block

\* The quality estimate averages all the blocks received since the settling time was
\* over, and no other: none from before a failed read, a sample that is not finite, or
\* another session.
ResultIsOfThisReception == IsOfThisReception(gap, Measured)

\* After fm_quality_report the last line in the log is true: it says whether there is
\* an estimate, and one it gives is not older than an interval.
ReportIsCurrent == place \in {"filter", "audio"} => IsCurrent(now)

-----------------------------------------------------------------------------
(* The invariant that makes them so *)

Places == {"read", "decimate", "demodulate", "report", "filter", "audio"}

FlowTypeOK ==
    /\ place \in Places /\ index \in 0..BlockSamples
    /\ block \in Nat /\ gap \in Nat /\ now \in Nat
    /\ iq_count \in Nat /\ mpx_count \in Nat /\ fir_count \in Nat /\ audio_count \in Nat
    /\ input_valid \in BOOLEAN /\ have_prev \in BOOLEAN /\ valid \in BOOLEAN
    /\ have_reported \in BOOLEAN /\ reported_valid \in BOOLEAN
    /\ last_report_time \in Nat /\ settling_samples \in Nat
    /\ prev \in Nat /\ write_index \in Nat /\ window_start \in Nat /\ produced \in Nat

IqInvariant ==
    /\ DOMAIN iq_history = 0..(2 * IqTaps - 1)
    /\ DOMAIN iq_window = 0..(IqTaps - 1)
    /\ \A i \in 0..(IqOverlap - 1) :
          LET n == Sample(iq_count - IqOverlap + 1 + i)
          IN  IF place = "decimate" THEN iq_window[i] = n ELSE iq_history[i] = n

DiscriminatorInvariant ==
    /\ prev = mpx_count
    /\ have_prev <=> mpx_count > 0

RingInvariant ==
    /\ DOMAIN history = 0..(2 * MpxTaps - 1)
    /\ write_index < MpxTaps
    /\ \A i \in 0..(MpxTaps - 1) :
          /\ history[write_index + i] = Sample(fir_count - MpxTaps + 1 + i)
          /\ history[i] = history[i + MpxTaps]

AudioInvariant ==
    /\ DOMAIN audio_history = 0..(2 * MpxTaps - 1)
    /\ DOMAIN window = 0..(2 * MpxTaps - 1)
    /\ window_start <= MpxTaps /\ window_start % AudioFactor = 0
    /\ \A i \in 0..(AudioOverlap - 1) :
          LET n == Sample(audio_count - AudioOverlap + 1 + i)
          IN  IF place = "audio" THEN window[window_start + i] = n ELSE audio_history[i] = n

\* What each loop has done of the block before, or has yet to do.
CountsInvariant ==
    /\ mpx_count = fir_count + (IF place = "demodulate" THEN index
                                ELSE IF place \in {"report", "filter"} THEN BlockSamples - index
                                ELSE 0)
    /\ fir_count = audio_count + (IF place = "filter" THEN index
                                  ELSE IF place = "audio" THEN BlockSamples - index ELSE 0)
    /\ place = "report" => index = 0
    /\ place = "audio" => index % AudioFactor = 0 /\ produced * AudioFactor = index
    /\ place = "read" /\ audio_count > 0 => produced = AudioBlockSamples

\* The blocks received since the last reset either are in the result or have been
\* taken off the settling time.
QualityInvariant ==
    /\ gap <= Measured
    /\ settling_samples = LET left == SettlingSamples - (Measured - gap) * BlockSamples
                          IN  IF left > 0 THEN left ELSE 0
    /\ IsOfThisReception(gap, Measured)

\* What the log says, and what fm_quality_report remembers of it.
ReportInvariant ==
    /\ have_reported => told.line = IF reported_valid THEN "available" ELSE "unavailable"
    /\ reported_valid => have_reported /\ told.at = last_report_time
    /\ place \in {"filter", "audio"} =>
          /\ have_reported
          /\ reported_valid <=> valid
          /\ valid => now - last_report_time < ReportInterval

PipelineInvariant ==
    /\ FlowTypeOK /\ IqInvariant /\ DiscriminatorInvariant /\ RingInvariant
    /\ AudioInvariant /\ CountsInvariant /\ QualityInvariant /\ ReportInvariant
    /\ WindowsAreNewest
=============================================================================
