----------------------------- MODULE FmQuality ------------------------------
(***************************************************************************)
(* The quality estimate of src/dsp/fm_quality.c: the noise power of each   *)
(* block of MPX samples goes into a smoothed power, except for blocks in   *)
(* the settling time after a reset; the estimate is logged at intervals.   *)
(*                                                                         *)
(* The smoothed power is represented by the set of blocks it is made of.   *)
(* Blocks are numbered by whoever delivers them.                           *)
(***************************************************************************)
EXTENDS Integers, FiniteSets

CONSTANTS
    BlockSamples,     \* count of every call: FM_PIPELINE_DSP_BLOCK_SAMPLES
    SettlingSamples,  \* FM_QUALITY_SAMPLE_RATE_HZ / 10
    ReportInterval    \* report_interval_seconds, in units of the clock

ASSUME QualityAssumption ==
    /\ BlockSamples \in Nat \ {0}
    /\ SettlingSamples \in Nat \ {0}
    /\ ReportInterval \in Nat \ {0}

VARIABLES
    settling_samples,
    smoothed_power,   \* the blocks whose power it has
    valid,            \* result.valid
    have_reported, reported_valid, last_report_time,
    told              \* history: the last line of the log, and when it was written

qualityVars == <<settling_samples, smoothed_power, valid,
                 have_reported, reported_valid, last_report_time, told>>

Nothing == [line |-> "none", at |-> 0]

fm_quality_init ==
    /\ settling_samples = SettlingSamples
    /\ smoothed_power = {}
    /\ valid = FALSE
    /\ have_reported = FALSE
    /\ reported_valid = FALSE
    /\ last_report_time = 0
    /\ told = Nothing

fm_quality_reset ==
    /\ settling_samples' = SettlingSamples
    /\ smoothed_power' = {}
    /\ valid' = FALSE

\* Mutant: the block that crosses the end of the settling time counts.
CountCrossing(block) ==
    IF settling_samples > BlockSamples
    THEN settling_samples' = settling_samples - BlockSamples /\ UNCHANGED <<smoothed_power, valid>>
    ELSE /\ settling_samples' = 0
         /\ smoothed_power' = (IF valid THEN smoothed_power ELSE {}) \cup {block}
         /\ valid' = TRUE

\* A block of finite samples: discarded while settling, also when it crosses the
\* end of it; else the first of a result, or averaged into it.
Measure(block) ==
    IF settling_samples # 0
    THEN /\ settling_samples' = IF BlockSamples >= settling_samples THEN 0
                                ELSE settling_samples - BlockSamples
         /\ UNCHANGED <<smoothed_power, valid>>
    ELSE /\ smoothed_power' = (IF valid THEN smoothed_power ELSE {}) \cup {block}
         /\ valid' = TRUE
         /\ UNCHANGED settling_samples

\* A sample, what the filter makes of it, or the power, may be no finite number.
fm_quality_process_block(block, finite) ==
    /\ IF finite THEN Measure(block) ELSE fm_quality_reset
    /\ UNCHANGED <<have_reported, reported_valid, last_report_time, told>>

\* Mutant: forgets that the last line was of another kind.
ToldAnythingRecently(now) == have_reported /\ now - last_report_time < ReportInterval

ToldRecently(now) ==
    have_reported /\ reported_valid /\ now - last_report_time < ReportInterval

\* Logs the loss of the estimate once, and the estimate once per interval.
fm_quality_report(now) ==
    /\ IF ~valid
       THEN /\ told' = IF ~have_reported \/ reported_valid
                       THEN [line |-> "unavailable", at |-> now] ELSE told
            /\ have_reported' = TRUE
            /\ reported_valid' = FALSE
            /\ UNCHANGED last_report_time
       ELSE IF ToldRecently(now)
       THEN UNCHANGED <<told, have_reported, reported_valid, last_report_time>>
       ELSE /\ told' = [line |-> "available", at |-> now]
            /\ have_reported' = TRUE
            /\ reported_valid' = TRUE
            /\ last_report_time' = now
    /\ UNCHANGED <<settling_samples, smoothed_power, valid>>

-----------------------------------------------------------------------------
(* Properties, given the block after which the filter was last reset. *)

\* Whole blocks from the settling time's end on, after the last reset.
SettledBlocks(gap, last) ==
    {b \in (gap + 1)..last : (b - 1 - gap) * BlockSamples >= SettlingSamples}

\* The result is the average of all settled blocks since the last reset, and of
\* nothing heard before it.
IsOfThisReception(gap, last) ==
    /\ smoothed_power = SettledBlocks(gap, last)
    /\ valid <=> smoothed_power # {}

\* The log says what the estimate is now, no older than an interval.
IsCurrent(now) ==
    /\ told.line = IF valid THEN "available" ELSE "unavailable"
    /\ valid => now - told.at < ReportInterval
=============================================================================
