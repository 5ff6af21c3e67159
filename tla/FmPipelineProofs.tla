-------------------------- MODULE FmPipelineProofs --------------------------
(***************************************************************************)
(* Proofs about FmPipeline, for windows, factors, blocks and settling      *)
(* times of every size that FiltersAssumption allows: PipelineInvariant is *)
(* inductive, part by part, and the four properties follow from it.        *)
(***************************************************************************)
EXTENDS FmPipeline, TLAPS

-----------------------------------------------------------------------------
(* Arithmetic *)

\* Two multiples are at least the factor apart.
LEMMA MultiplesApart ==
    ASSUME NEW f \in Nat \ {0}, NEW a \in Nat, NEW b \in Nat,
           a % f = 0, b % f = 0, a < b
    PROVE  a + f <= b
<1>1. PICK p \in Nat : a = p * f  BY SMT
<1>2. PICK q \in Nat : b = q * f  BY SMT
<1>3. p + 1 <= q
  <2>1. SUFFICES ASSUME q <= p PROVE FALSE  OBVIOUS
  <2>2. q * f <= p * f  BY <2>1, SMT
  <2> QED  BY <1>1, <1>2, <2>2
<1>4. (p + 1) * f <= q * f  BY <1>3, SMT
<1>5. (p + 1) * f = p * f + f  BY SMT
<1> QED  BY <1>1, <1>2, <1>4, <1>5, SMT

LEMMA NextMultiple ==
    ASSUME NEW f \in Nat \ {0}, NEW a \in Nat, a % f = 0
    PROVE  (a + f) % f = 0
<1>1. PICK p \in Nat : a = p * f  BY SMT
<1>2. (p + 1) * f = p * f + f  BY SMT
<1>3. ((p + 1) * f) % f = 0  BY SMT
<1> QED  BY <1>1, <1>2, <1>3

\* A quotient without remainder, and one that is not reached yet.
LEMMA WholeQuotient ==
    ASSUME NEW f \in Nat \ {0}, NEW p \in Nat
    PROVE  (p * f) \div f = p
BY SMT

LEMMA QuotientAhead ==
    ASSUME NEW f \in Nat \ {0}, NEW p \in Nat, NEW b \in Nat, p * f + f <= b
    PROVE  p < b \div f
<1>1. b \div f \in Nat /\ b < f * (b \div f) + f  BY SMT
<1>2. SUFFICES ASSUME b \div f <= p PROVE FALSE  BY <1>1
<1>3. f * (b \div f) <= f * p  BY <1>1, <1>2, SMT
<1>4. f * p = p * f  BY SMT
<1> QED  BY <1>1, <1>3, <1>4, SMT

LEMMA OneMore ==
    ASSUME NEW k \in Int, NEW b \in Int
    PROVE  (k + 1) * b = k * b + b
BY SMT

LEMMA ProductOrder ==
    ASSUME NEW j \in Int, NEW k \in Int, NEW b \in Nat, j <= k
    PROVE  j * b <= k * b
BY SMT

-----------------------------------------------------------------------------
(* The initial state *)

LEMMA Sizes ==
    /\ BlockSamples \in Nat \ {0} /\ SettlingSamples \in Nat \ {0}
    /\ ReportInterval \in Nat \ {0}
    /\ IqFactor \in Nat \ {0} /\ IqTaps \in Nat /\ IqFactor <= IqTaps
    /\ AudioFactor \in Nat \ {0} /\ MpxTaps \in Nat \ {0}
BY QualityAssumption, FiltersAssumption

LEMMA InitHolds == Init => PipelineInvariant
<1> SUFFICES ASSUME Init PROVE PipelineInvariant  OBVIOUS
<1>1. FlowTypeOK
  <2>1. /\ input_valid \in BOOLEAN /\ have_prev \in BOOLEAN /\ valid \in BOOLEAN
        /\ have_reported \in BOOLEAN /\ reported_valid \in BOOLEAN
    BY DEF Init, fm_quality_init
  <2>2. place \in Places /\ index \in 0..BlockSamples
    BY Sizes DEF Init, Places
  <2> QED  BY Sizes, <2>1, <2>2 DEF Init, fm_quality_init, FlowTypeOK
<1> USE Sizes
<1>2. IqInvariant  BY DEF Init, IqInvariant, Silence, Fresh, Sample, IqOverlap
<1>3. DiscriminatorInvariant  BY DEF Init, DiscriminatorInvariant
<1>4. RingInvariant  BY DEF Init, RingInvariant, Silence, Sample
<1>5. AudioInvariant
  <2>1. 0 % AudioFactor = 0  BY SMT
  <2> QED  BY <2>1 DEF Init, AudioInvariant, Silence, Fresh, Sample, AudioOverlap
<1>6. CountsInvariant  BY DEF Init, CountsInvariant
<1>7. QualityInvariant
  <2>1. (0 - 0) * BlockSamples = 0  BY SMT
  <2> QED  BY <2>1 DEF Init, fm_quality_init, QualityInvariant, IsOfThisReception,
                       SettledBlocks, Measured
<1>8. ReportInvariant  BY DEF Init, fm_quality_init, ReportInvariant
<1>9. WindowsAreNewest  BY DEF Init, WindowsAreNewest, Newest, Silence, Sample
<1> QED  BY <1>1, <1>2, <1>3, <1>4, <1>5, <1>6, <1>7, <1>8, <1>9 DEF PipelineInvariant

-----------------------------------------------------------------------------
(* The IQ decimator *)

LEMMA IqKept ==
    ASSUME PipelineInvariant, [Next]_vars
    PROVE  IqInvariant' /\ (iq_used = Newest(iq_count, IqTaps))'
<1>0. FlowTypeOK /\ IqInvariant /\ iq_used = Newest(iq_count, IqTaps)
  BY DEF PipelineInvariant, WindowsAreNewest
<1> USE Sizes
<1>1. CASE ReadBlock
  BY <1>0, <1>1 DEF ReadBlock, GoTo, FlowTypeOK, IqInvariant, Copy, Fresh, IqOverlap
<1>2. CASE DecimateIq
  <2> DEFINE filled == Write(iq_window, IqOverlap, iq_count, IqFactor)
  <2>1. /\ DOMAIN iq_window = 0..(IqTaps - 1) /\ DOMAIN iq_history = 0..(2 * IqTaps - 1)
        /\ iq_count \in Nat /\ iq_count' = iq_count + IqFactor
        /\ place = "decimate" /\ place' = place
        /\ iq_window' = Copy(filled, filled, IqFactor, IqOverlap)
        /\ iq_used' = filled /\ iq_history' = iq_history
    BY <1>0, <1>2 DEF DecimateIq, FlowTypeOK, IqInvariant
  <2>2. \A i \in 0..(IqOverlap - 1) : iq_window[i] = Sample(iq_count - IqOverlap + 1 + i)
    BY <1>0, <2>1 DEF IqInvariant
  <2>3. /\ DOMAIN filled = 0..(IqTaps - 1)
        /\ \A i \in 0..(IqTaps - 1) : filled[i] = Sample(iq_count' - IqTaps + 1 + i)
    BY <2>1, <2>2 DEF Write, Sample, IqOverlap
  <2>4. iq_used' = Newest(iq_count', IqTaps)
    BY <2>1, <2>3 DEF Newest, Write
  <2>5. \A i \in 0..(IqOverlap - 1) :
            /\ iq_window'[i] = filled[i + IqFactor]
            /\ i + IqFactor \in 0..(IqTaps - 1)
            /\ i \in 0..(IqTaps - 1)
    BY <2>1, <2>3 DEF Copy, IqOverlap
  <2>6. DOMAIN iq_window' = 0..(IqTaps - 1)  BY <2>1, <2>3 DEF Copy
  <2>7. \A i \in 0..(IqOverlap - 1) : iq_window'[i] = Sample(iq_count' - IqOverlap + 1 + i)
    <3>1. SUFFICES ASSUME NEW i \in 0..(IqOverlap - 1)
                   PROVE  iq_window'[i] = Sample(iq_count' - IqOverlap + 1 + i)
      OBVIOUS
    <3>2. iq_count' - IqTaps + 1 + (i + IqFactor) = iq_count' - IqOverlap + 1 + i
      BY <2>1 DEF IqOverlap
    <3> QED  BY <2>3, <2>5, <3>2
  <2> QED  BY <2>1, <2>4, <2>6, <2>7 DEF IqInvariant
<1>3. CASE SaveIq
  <2>1. /\ place = "decimate" /\ place' = "demodulate"
        /\ iq_history' = Copy(iq_history, iq_window, 0, IqOverlap)
        /\ iq_window' = iq_window /\ iq_count' = iq_count /\ iq_used' = iq_used
    BY <1>3 DEF SaveIq, GoTo
  <2>2. \A i \in 0..(IqOverlap - 1) : i \in 0..(2 * IqTaps - 1) /\ i + 0 = i /\ i < IqOverlap
    BY DEF IqOverlap
  <2>3. /\ DOMAIN iq_history' = 0..(2 * IqTaps - 1)
        /\ \A i \in 0..(IqOverlap - 1) : iq_history'[i] = iq_window[i]
    BY <1>0, <2>1, <2>2 DEF IqInvariant, Copy
  <2> QED  BY <1>0, <2>1, <2>3 DEF IqInvariant
<1>4. CASE stream_session_configure
  <2>1. /\ iq_history' = Silence(2 * IqTaps) /\ iq_count' = 0 /\ iq_window' = iq_window
        /\ place' = "read" /\ iq_used' = Silence(IqTaps)
    BY <1>4 DEF stream_session_configure
  <2>2. \A i \in 0..(IqTaps - 1) : Sample(0 - IqTaps + 1 + i) = 0  BY DEF Sample
  <2> QED  BY <1>0, <2>1, <2>2 DEF IqInvariant, Silence, Sample, Newest, IqOverlap
<1>5. CASE UNCHANGED <<iqVars, place>>
  BY <1>0, <1>5 DEF IqInvariant, iqVars
<1>6. CASE ReadFails \/ MeasureQuality \/ Report \/ StartAudio \/ SaveAudio
  BY <1>0, <1>6 DEF IqInvariant, iqVars, ReadFails, MeasureQuality, Report, StartAudio,
                    SaveAudio, GoTo
<1> QED
  BY <1>1, <1>2, <1>3, <1>4, <1>5, <1>6
  DEF Next, vars, Demodulate, FilterMpx, DecimateAudio

-----------------------------------------------------------------------------
(* The discriminator *)

LEMMA DiscriminatorKept ==
    ASSUME PipelineInvariant, [Next]_vars
    PROVE  /\ DiscriminatorInvariant'
           /\ (mpx_used = IF mpx_count > 1 THEN <<mpx_count - 1, mpx_count>> ELSE <<0, 0>>)'
<1>0. /\ FlowTypeOK /\ DiscriminatorInvariant
      /\ mpx_used = IF mpx_count > 1 THEN <<mpx_count - 1, mpx_count>> ELSE <<0, 0>>
  BY DEF PipelineInvariant, WindowsAreNewest
<1>1. CASE Demodulate
  <2>1. /\ mpx_count \in Nat /\ mpx_count' = mpx_count + 1 /\ prev' = mpx_count + 1
        /\ have_prev' = TRUE
        /\ mpx_used' = IF have_prev THEN <<prev, mpx_count + 1>> ELSE <<0, 0>>
    BY <1>0, <1>1 DEF Demodulate, FlowTypeOK
  <2>2. prev = mpx_count /\ (have_prev <=> mpx_count > 0)
    BY <1>0 DEF DiscriminatorInvariant
  <2>3. DiscriminatorInvariant'  BY <2>1 DEF DiscriminatorInvariant
  <2>4. CASE have_prev  BY <2>1, <2>2, <2>3, <2>4
  <2>5. CASE ~have_prev  BY <2>1, <2>2, <2>3, <2>5
  <2> QED  BY <2>4, <2>5
<1>2. CASE stream_session_configure
  BY <1>2 DEF stream_session_configure, DiscriminatorInvariant
<1>3. CASE UNCHANGED mpxVars
  BY <1>0, <1>3 DEF DiscriminatorInvariant, mpxVars
<1> QED
  BY <1>1, <1>2, <1>3
  DEF Next, vars, ReadFails, ReadBlock, DecimateIq, SaveIq, MeasureQuality, Report, FilterMpx,
      StartAudio, DecimateAudio, SaveAudio

-----------------------------------------------------------------------------
(* The ring of a filter of the bank *)

LEMMA RingKept ==
    ASSUME PipelineInvariant, [Next]_vars
    PROVE  RingInvariant' /\ (fir_used = Newest(fir_count, MpxTaps))'
<1>0. FlowTypeOK /\ RingInvariant /\ fir_used = Newest(fir_count, MpxTaps)
  BY DEF PipelineInvariant, WindowsAreNewest
<1> USE Sizes
<1>1. CASE FilterMpx
  <2> DEFINE next == IF write_index + 1 = MpxTaps THEN 0 ELSE write_index + 1
             n == fir_count + 1
  <2>1. /\ fir_count \in Nat /\ write_index \in 0..(MpxTaps - 1)
        /\ fir_count' = n /\ write_index' = next
        /\ history' = [history EXCEPT ![write_index] = n, ![write_index + MpxTaps] = n]
        /\ fir_used' = Window(history', next, MpxTaps)
    BY <1>0, <1>1 DEF FilterMpx, RingWith, FlowTypeOK, RingInvariant
  <2>2. /\ DOMAIN history = 0..(2 * MpxTaps - 1)
        /\ \A i \in 0..(MpxTaps - 1) :
              /\ history[write_index + i] = Sample(fir_count - MpxTaps + 1 + i)
              /\ history[i] = history[i + MpxTaps]
    BY <1>0 DEF RingInvariant
  <2>3. DOMAIN history' = 0..(2 * MpxTaps - 1)  BY <2>1, <2>2
  <2>4. \A j \in 0..(2 * MpxTaps - 1) :
            history'[j] = IF j = write_index \/ j = write_index + MpxTaps THEN n ELSE history[j]
    BY <2>1, <2>2
  <2>5. ASSUME NEW i \in 0..(MpxTaps - 1)
        PROVE  history'[i] = history'[i + MpxTaps]
    <3>1. /\ i \in 0..(2 * MpxTaps - 1) /\ i + MpxTaps \in 0..(2 * MpxTaps - 1)
          /\ i # write_index + MpxTaps /\ i + MpxTaps # write_index
          /\ i + MpxTaps = write_index + MpxTaps <=> i = write_index
      BY <2>1
    <3> QED  BY <2>2, <2>4, <3>1
  <2>6. ASSUME NEW i \in 0..(MpxTaps - 1)
        PROVE  history'[next + i] = Sample(n - MpxTaps + 1 + i)
    <3>1. n - MpxTaps + 1 + i = fir_count - MpxTaps + 1 + (i + 1)  BY <2>1
    <3>2. CASE i = MpxTaps - 1
      <4>1. n - MpxTaps + 1 + i = n /\ Sample(n) = n  BY <2>1, <3>2 DEF Sample
      <4>2. next + i = write_index \/ next + i = write_index + MpxTaps  BY <2>1, <3>2
      <4>3. next + i \in 0..(2 * MpxTaps - 1)  BY <2>1, <3>2
      <4> QED  BY <2>4, <4>1, <4>2, <4>3
    <3>3. CASE i # MpxTaps - 1 /\ write_index + 1 # MpxTaps
      <4>1. /\ next + i = write_index + (i + 1) /\ i + 1 \in 0..(MpxTaps - 1)
            /\ next + i \in 0..(2 * MpxTaps - 1)
            /\ next + i # write_index /\ next + i # write_index + MpxTaps
        BY <2>1, <3>3
      <4> QED  BY <2>2, <2>4, <3>1, <4>1
    <3>4. CASE i # MpxTaps - 1 /\ write_index + 1 = MpxTaps
      <4>1. /\ next + i = i /\ i + 1 \in 0..(MpxTaps - 1) /\ i + MpxTaps = write_index + (i + 1)
            /\ i \in 0..(2 * MpxTaps - 1)
            /\ i # write_index /\ i # write_index + MpxTaps
        BY <2>1, <3>4
      <4>2. history'[i] = history[i] /\ history[i] = history[i + MpxTaps]
        BY <2>2, <2>4, <4>1
      <4> QED  BY <2>2, <3>1, <4>1, <4>2
    <3> QED  BY <3>2, <3>3, <3>4
  <2>7. RingInvariant'
    <3>1. next < MpxTaps  BY <2>1
    <3>2. \A i \in 0..(MpxTaps - 1) :
              /\ history'[write_index' + i] = Sample(fir_count' - MpxTaps + 1 + i)
              /\ history'[i] = history'[i + MpxTaps]
      BY <2>1, <2>5, <2>6
    <3> QED  BY <2>1, <2>3, <3>1, <3>2 DEF RingInvariant
  <2>8. fir_used' = Newest(fir_count', MpxTaps)
    BY <2>1, <2>6 DEF Window, Newest
  <2> QED  BY <2>7, <2>8
<1>2. CASE stream_session_configure
  <2>1. /\ history' = Silence(2 * MpxTaps) /\ fir_count' = 0 /\ write_index' = 0
        /\ fir_used' = Silence(MpxTaps)
    BY <1>2 DEF stream_session_configure
  <2>2. \A i \in 0..(MpxTaps - 1) : Sample(0 - MpxTaps + 1 + i) = 0  BY DEF Sample
  <2>3. \A i \in 0..(2 * MpxTaps - 1) : history'[i] = 0  BY <2>1 DEF Silence
  <2>4. DOMAIN history' = 0..(2 * MpxTaps - 1)  BY <2>1 DEF Silence
  <2>5. RingInvariant'
    <3>1. \A i \in 0..(MpxTaps - 1) :
              /\ history'[0 + i] = Sample(0 - MpxTaps + 1 + i)
              /\ history'[i] = history'[i + MpxTaps]
      <4>1. \A i \in 0..(MpxTaps - 1) :
                0 + i = i /\ i \in 0..(2 * MpxTaps - 1) /\ i + MpxTaps \in 0..(2 * MpxTaps - 1)
        OBVIOUS
      <4> QED  BY <2>2, <2>3, <4>1
    <3>2. 0 < MpxTaps  OBVIOUS
    <3> QED  BY <2>1, <2>4, <3>1, <3>2 DEF RingInvariant
  <2>6. fir_used' = Newest(fir_count', MpxTaps)  BY <2>1, <2>2 DEF Silence, Newest
  <2> QED  BY <2>5, <2>6
<1>3. CASE UNCHANGED firVars
  BY <1>0, <1>3 DEF RingInvariant, firVars
<1> QED
  BY <1>1, <1>2, <1>3
  DEF Next, vars, ReadFails, ReadBlock, DecimateIq, SaveIq, Demodulate, MeasureQuality, Report,
      StartAudio, DecimateAudio, SaveAudio

-----------------------------------------------------------------------------
(* The audio decimator *)

\* Where the window starts after the test, its overlap is the tail of the stream, and
\* there is room for a factor of samples behind it.
LEMMA RoomForAFactor ==
    ASSUME FlowTypeOK, AudioInvariant, place = "audio"
    PROVE  /\ Compacted.start \in 0..MpxTaps /\ Compacted.start % AudioFactor = 0
           /\ Compacted.start + AudioFactor <= MpxTaps
           /\ DOMAIN Compacted.samples = 0..(2 * MpxTaps - 1)
           /\ \A i \in 0..(AudioOverlap - 1) :
                Compacted.samples[Compacted.start + i] = Sample(audio_count - AudioOverlap + 1 + i)
<1>1. /\ MpxTaps \in Nat \ {0} /\ AudioFactor \in Nat \ {0}
      /\ MpxTaps % AudioFactor = 0 /\ 0 % AudioFactor = 0
  <2>1. 0 % AudioFactor = 0  BY Sizes, SMT
  <2> QED  BY <2>1, FiltersAssumption
<1>2. /\ window_start \in 0..MpxTaps /\ window_start % AudioFactor = 0
      /\ DOMAIN window = 0..(2 * MpxTaps - 1)
      /\ \A i \in 0..(AudioOverlap - 1) :
            window[window_start + i] = Sample(audio_count - AudioOverlap + 1 + i)
  <2>1. window_start \in 0..MpxTaps  BY <1>1 DEF FlowTypeOK, AudioInvariant
  <2> QED  BY <2>1 DEF AudioInvariant
<1>3. CASE window_start = MpxTaps
  <2>1. Compacted = [start |-> 0, samples |-> Copy(window, window, window_start, AudioOverlap)]
    BY <1>3 DEF Compacted
  <2>2. 0 + AudioFactor <= MpxTaps
    <3> HIDE DEF AudioOverlap
    <3> QED  BY <1>1, MultiplesApart
  <2>3. \A i \in 0..(AudioOverlap - 1) :
            /\ i \in 0..(2 * MpxTaps - 1) /\ 0 + i = i /\ i < AudioOverlap
            /\ i + window_start = window_start + i
    BY <1>1, <1>2 DEF AudioOverlap
  <2>4. \A i \in 0..(AudioOverlap - 1) :
            Copy(window, window, window_start, AudioOverlap)[0 + i] = window[window_start + i]
    BY <1>2, <2>3 DEF Copy
  <2>5. DOMAIN Copy(window, window, window_start, AudioOverlap) = 0..(2 * MpxTaps - 1)
    BY <1>2 DEF Copy
  <2> QED  BY <1>1, <1>2, <2>1, <2>2, <2>4, <2>5
<1>4. CASE window_start # MpxTaps
  <2>1. Compacted = [start |-> window_start, samples |-> window]
    BY <1>4 DEF Compacted
  <2>2. window_start + AudioFactor <= MpxTaps
    <3>1. window_start \in Nat /\ window_start < MpxTaps /\ MpxTaps \in Nat
      BY <1>1, <1>2, <1>4
    <3> QED  BY <1>1, <1>2, <3>1, MultiplesApart
  <2> QED  BY <1>2, <2>1, <2>2
<1> QED  BY <1>3, <1>4

\* A factor of new samples behind the overlap completes the window.
LEMMA FactorWritten ==
    ASSUME NEW start \in Nat, NEW samples, NEW n \in Nat,
           start + AudioFactor <= MpxTaps,
           DOMAIN samples = 0..(2 * MpxTaps - 1),
           \A i \in 0..(AudioOverlap - 1) : samples[start + i] = Sample(n - AudioOverlap + 1 + i)
    PROVE  \A i \in 0..(MpxTaps - 1) :
               Write(samples, start + AudioOverlap, n, AudioFactor)[start + i]
                 = Sample(n + AudioFactor - MpxTaps + 1 + i)
<1> USE Sizes
<1>1. SUFFICES ASSUME NEW i \in 0..(MpxTaps - 1)
               PROVE  Write(samples, start + AudioOverlap, n, AudioFactor)[start + i]
                        = Sample(n + AudioFactor - MpxTaps + 1 + i)
  OBVIOUS
<1>2. start + i \in 0..(2 * MpxTaps - 1) /\ start + AudioOverlap \in Int  BY DEF AudioOverlap
<1>3. CASE i < AudioOverlap
  <2>1. /\ i \in 0..(AudioOverlap - 1) /\ ~(start + AudioOverlap <= start + i)
        /\ n + AudioFactor - MpxTaps + 1 + i = n - AudioOverlap + 1 + i
    BY <1>3 DEF AudioOverlap
  <2> QED  BY <1>2, <2>1 DEF Write
<1>4. CASE ~(i < AudioOverlap)
  <2>1. /\ start + AudioOverlap <= start + i
        /\ start + i < start + AudioOverlap + AudioFactor
        /\ n + AudioFactor - MpxTaps + 1 + i = n + 1 + (start + i - (start + AudioOverlap))
        /\ n + AudioFactor - MpxTaps + 1 + i > 0
    BY <1>4 DEF AudioOverlap
  <2> QED  BY <1>2, <2>1 DEF Write, Sample
<1> QED  BY <1>3, <1>4

LEMMA AudioKept ==
    ASSUME PipelineInvariant, [Next]_vars
    PROVE  AudioInvariant' /\ (audio_used = Newest(audio_count, MpxTaps))'
<1>0. FlowTypeOK /\ AudioInvariant /\ audio_used = Newest(audio_count, MpxTaps)
  BY DEF PipelineInvariant, WindowsAreNewest
<1>z. 0 % AudioFactor = 0  BY Sizes, SMT
<1> USE Sizes
<1>1. CASE DecimateAudio
  <2>0. PICK start, samples : start = Compacted.start /\ samples = Compacted.samples
    OBVIOUS
  <2> DEFINE filled == Write(samples, start + AudioOverlap, audio_count, AudioFactor)
  <2>1. /\ place = "audio" /\ place' = "audio" /\ audio_history' = audio_history
        /\ audio_count \in Nat /\ audio_count' = audio_count + AudioFactor
        /\ window' = filled /\ audio_used' = Window(filled, start, MpxTaps)
        /\ window_start' = start + AudioFactor
    BY <1>0, <1>1, <2>0 DEF DecimateAudio, FlowTypeOK
  <2>2. /\ start \in 0..MpxTaps /\ start % AudioFactor = 0 /\ start + AudioFactor <= MpxTaps
        /\ DOMAIN samples = 0..(2 * MpxTaps - 1)
        /\ \A i \in 0..(AudioOverlap - 1) :
              samples[start + i] = Sample(audio_count - AudioOverlap + 1 + i)
    BY <1>0, <2>0, <2>1, RoomForAFactor
  <2>3. DOMAIN filled = 0..(2 * MpxTaps - 1)  BY <2>2 DEF Write
  <2>4. \A i \in 0..(MpxTaps - 1) : filled[start + i] = Sample(audio_count' - MpxTaps + 1 + i)
    <3>1. start \in Nat  BY <2>2
    <3>2. \A i \in 0..(MpxTaps - 1) :
              filled[start + i] = Sample(audio_count + AudioFactor - MpxTaps + 1 + i)
      BY <2>1, <2>2, <3>1, FactorWritten
    <3> QED  BY <2>1, <3>2
  <2> HIDE DEF filled
  <2>5. \A i \in 0..(AudioOverlap - 1) :
            window'[window_start' + i] = Sample(audio_count' - AudioOverlap + 1 + i)
    <3>1. SUFFICES ASSUME NEW i \in 0..(AudioOverlap - 1)
                   PROVE  window'[window_start' + i]
                            = Sample(audio_count' - AudioOverlap + 1 + i)
      OBVIOUS
    <3>2. /\ i + AudioFactor \in 0..(MpxTaps - 1)
          /\ window_start' + i = start + (i + AudioFactor)
          /\ audio_count' - AudioOverlap + 1 + i = audio_count' - MpxTaps + 1 + (i + AudioFactor)
      BY <2>1, <2>2 DEF AudioOverlap
    <3> QED  BY <2>1, <2>4, <3>2
  <2>6. window_start' % AudioFactor = 0
    <3>1. start \in Nat  BY <2>2
    <3> QED  BY <2>1, <2>2, <3>1, NextMultiple
  <2>7. window_start' <= MpxTaps  BY <2>1, <2>2
  <2>8. AudioInvariant'
    BY <1>0, <2>1, <2>3, <2>5, <2>6, <2>7 DEF AudioInvariant
  <2>9. audio_used' = Newest(audio_count', MpxTaps)
    BY <2>1, <2>4 DEF Window, Newest
  <2> QED  BY <2>8, <2>9
<1>2. CASE StartAudio
  <2>1. /\ place = "filter" /\ place' = "audio" /\ window_start' = 0
        /\ window' = Copy(Fresh(2 * MpxTaps), audio_history, 0, AudioOverlap)
        /\ audio_history' = audio_history /\ audio_count' = audio_count
        /\ audio_used' = audio_used
    BY <1>2 DEF StartAudio, GoTo
  <2>2. \A i \in 0..(AudioOverlap - 1) :
            i \in 0..(2 * MpxTaps - 1) /\ 0 + i = i /\ i + 0 = i /\ i < AudioOverlap
    BY DEF AudioOverlap
  <2>3. /\ DOMAIN window' = 0..(2 * MpxTaps - 1)
        /\ \A i \in 0..(AudioOverlap - 1) : window'[0 + i] = audio_history[i]
    BY <2>1, <2>2 DEF Copy, Fresh
  <2>4. 0 <= MpxTaps  OBVIOUS
  <2> QED  BY <1>0, <1>z, <2>1, <2>3, <2>4 DEF AudioInvariant
<1>3. CASE SaveAudio
  <2>1. /\ place = "audio" /\ place' = "read" /\ window_start' = window_start
        /\ audio_history' = Copy(audio_history, window, window_start, AudioOverlap)
        /\ window' = window /\ audio_count' = audio_count
        /\ audio_used' = audio_used /\ window_start \in Nat
    BY <1>0, <1>3 DEF SaveAudio, GoTo, FlowTypeOK
  <2>2. \A i \in 0..(AudioOverlap - 1) :
            /\ i \in 0..(2 * MpxTaps - 1) /\ i + window_start = window_start + i
            /\ i < AudioOverlap
    BY <2>1 DEF AudioOverlap
  <2>3. /\ DOMAIN audio_history' = 0..(2 * MpxTaps - 1)
        /\ \A i \in 0..(AudioOverlap - 1) : audio_history'[i] = window[window_start + i]
    BY <1>0, <2>1, <2>2 DEF Copy, AudioInvariant
  <2> QED  BY <1>0, <2>1, <2>3 DEF AudioInvariant
<1>4. CASE stream_session_configure
  <2>1. /\ audio_history' = Silence(2 * MpxTaps) /\ audio_count' = 0 /\ window' = window
        /\ window_start' = window_start
        /\ place' = "read" /\ audio_used' = Silence(MpxTaps)
    BY <1>4 DEF stream_session_configure
  <2>2. \A i \in 0..(MpxTaps - 1) : Sample(0 - MpxTaps + 1 + i) = 0  BY DEF Sample
  <2>3. audio_used' = Newest(audio_count', MpxTaps)  BY <2>1, <2>2 DEF Silence, Newest
  <2>4. \A i \in 0..(AudioOverlap - 1) :
            /\ i \in 0..(2 * MpxTaps - 1)
            /\ Sample(0 - AudioOverlap + 1 + i) = 0
    BY DEF Sample, AudioOverlap
  <2>5. /\ DOMAIN audio_history' = 0..(2 * MpxTaps - 1)
        /\ \A i \in 0..(AudioOverlap - 1) :
              audio_history'[i] = Sample(audio_count' - AudioOverlap + 1 + i)
    BY <2>1, <2>4 DEF Silence
  <2> QED  BY <1>0, <2>1, <2>3, <2>5 DEF AudioInvariant
<1>5. CASE UNCHANGED <<audioVars, place>>
  BY <1>0, <1>5 DEF AudioInvariant, audioVars
<1>6. CASE ReadFails \/ ReadBlock \/ SaveIq \/ MeasureQuality \/ Report
  BY <1>0, <1>6 DEF AudioInvariant, audioVars, ReadFails, ReadBlock, SaveIq, MeasureQuality,
                    Report, GoTo
<1> QED
  BY <1>1, <1>2, <1>3, <1>4, <1>5, <1>6
  DEF Next, vars, DecimateIq, Demodulate, FilterMpx

-----------------------------------------------------------------------------
(* Counts *)

LEMMA TypesKept ==
    ASSUME PipelineInvariant, [Next]_vars
    PROVE  FlowTypeOK'
<1>0. FlowTypeOK /\ AudioInvariant
  BY DEF PipelineInvariant
<1> USE Sizes
<1>1. CASE ReadFails \/ ReadBlock \/ DecimateIq \/ SaveIq
  <2>1. place' \in Places /\ index' \in 0..BlockSamples
    BY <1>0, <1>1
    DEF ReadFails, ReadBlock, DecimateIq, SaveIq, GoTo, FlowTypeOK, Places
  <2>2. block' \in Nat /\ iq_count' \in Nat
    BY <1>0, <1>1 DEF ReadFails, ReadBlock, DecimateIq, SaveIq, FlowTypeOK, iqVars
  <2>3. input_valid' \in BOOLEAN
    BY <1>0, <1>1 DEF ReadFails, ReadBlock, DecimateIq, SaveIq, FlowTypeOK
  <2>4. UNCHANGED <<qualityVars, gap, now, mpxVars, firVars, audioVars>>
    BY <1>1 DEF ReadFails, ReadBlock, DecimateIq, SaveIq
  <2> QED  BY <1>0, <2>1, <2>2, <2>3, <2>4 DEF FlowTypeOK, qualityVars, mpxVars, firVars, audioVars
<1>2. CASE Demodulate
  <2>1. place' \in Places /\ index' \in 0..BlockSamples
    BY <1>0, <1>2 DEF Demodulate, FlowTypeOK
  <2>2. /\ mpx_count' \in Nat /\ prev' \in Nat /\ have_prev' \in BOOLEAN
        /\ UNCHANGED <<qualityVars, block, gap, input_valid, now, iqVars, firVars, audioVars>>
    BY <1>0, <1>2 DEF Demodulate, FlowTypeOK
  <2> QED  BY <1>0, <2>1, <2>2 DEF FlowTypeOK, qualityVars, iqVars, firVars, audioVars
<1>3. CASE MeasureQuality
  <2>1. PICK finite \in BOOLEAN :
            /\ IF input_valid THEN fm_quality_process_block(block, finite)
               ELSE /\ fm_quality_reset
                    /\ UNCHANGED <<have_reported, reported_valid, last_report_time, told>>
            /\ gap' = IF input_valid /\ finite THEN gap ELSE block
    BY <1>3 DEF MeasureQuality
  <2>2. /\ place' \in Places /\ index' \in 0..BlockSamples
        /\ UNCHANGED <<block, input_valid, now, iqVars, mpxVars, firVars, audioVars>>
    BY <1>3 DEF MeasureQuality, GoTo, Places
  <2>3. gap' \in Nat  BY <1>0, <2>1 DEF FlowTypeOK
  <2>4. UNCHANGED <<have_reported, reported_valid, last_report_time>>
    BY <2>1 DEF fm_quality_process_block
  <2>5. settling_samples' \in Nat /\ valid' \in BOOLEAN
    <3>1. fm_quality_reset \/ Measure(block)  BY <2>1 DEF fm_quality_process_block
    <3>2. valid' \in BOOLEAN  BY <1>0, <3>1 DEF fm_quality_reset, Measure, FlowTypeOK
    <3>3. settling_samples \in Nat  BY <1>0 DEF FlowTypeOK
    <3>4. \/ settling_samples' \in {SettlingSamples, 0, settling_samples}
          \/ /\ settling_samples' = settling_samples - BlockSamples
             /\ ~(BlockSamples >= settling_samples)
      BY <3>1 DEF fm_quality_reset, Measure
    <3> QED  BY <3>2, <3>3, <3>4
  <2> QED
    BY <1>0, <2>2, <2>3, <2>4, <2>5 DEF FlowTypeOK, iqVars, mpxVars, firVars, audioVars
<1>4. CASE Report
  <2>1. now' \in Nat  BY <1>0, <1>4 DEF Report, FlowTypeOK
  <2>2. /\ place' \in Places /\ index' \in 0..BlockSamples
        /\ UNCHANGED <<block, gap, input_valid, iqVars, mpxVars, firVars, audioVars>>
        /\ UNCHANGED <<settling_samples, valid>>
    BY <1>4 DEF Report, GoTo, Places, fm_quality_report
  <2>3. have_reported' \in BOOLEAN /\ reported_valid' \in BOOLEAN
    BY <1>0, <1>4 DEF Report, fm_quality_report, FlowTypeOK
  <2>4. last_report_time' \in Nat
    BY <1>0, <1>4, <2>1 DEF Report, fm_quality_report, FlowTypeOK
  <2> QED
    BY <1>0, <2>1, <2>2, <2>3, <2>4 DEF FlowTypeOK, iqVars, mpxVars, firVars, audioVars
<1>5. CASE FilterMpx
  <2>1. place' \in Places /\ index' \in 0..BlockSamples
    BY <1>0, <1>5 DEF FilterMpx, FlowTypeOK
  <2>2. /\ fir_count' \in Nat /\ write_index' \in Nat
        /\ UNCHANGED <<qualityVars, block, gap, input_valid, now, iqVars, mpxVars, audioVars>>
    BY <1>0, <1>5 DEF FilterMpx, FlowTypeOK
  <2> QED  BY <1>0, <2>1, <2>2 DEF FlowTypeOK, qualityVars, iqVars, mpxVars, audioVars
<1>6. CASE StartAudio
  <2>1. /\ place' \in Places /\ index' \in 0..BlockSamples
        /\ window_start' \in Nat /\ produced' \in Nat /\ audio_count' = audio_count
        /\ UNCHANGED <<qualityVars, block, gap, input_valid, now, iqVars, mpxVars, firVars>>
    BY <1>6 DEF StartAudio, GoTo, Places
  <2> QED  BY <1>0, <2>1 DEF FlowTypeOK, qualityVars, iqVars, mpxVars, firVars
<1>7. CASE DecimateAudio
  <2>1. Compacted.start \in Nat  BY <1>0, <1>7, RoomForAFactor DEF DecimateAudio
  <2>2. /\ place' \in Places /\ index' \in 0..BlockSamples
        /\ audio_count' \in Nat /\ produced' \in Nat
    BY <1>0, <1>7 DEF DecimateAudio, MoreAudio, FlowTypeOK
  <2>3. /\ window_start' = Compacted.start + AudioFactor
        /\ UNCHANGED <<qualityVars, block, gap, input_valid, now, iqVars, mpxVars, firVars>>
    BY <1>7 DEF DecimateAudio
  <2>4. window_start' \in Nat  BY <2>1, <2>3
  <2> QED  BY <1>0, <2>2, <2>3, <2>4 DEF FlowTypeOK, qualityVars, iqVars, mpxVars, firVars
<1>8. CASE SaveAudio
  <2>1. /\ place' \in Places /\ index' \in 0..BlockSamples
        /\ UNCHANGED <<window_start, produced, audio_count>>
        /\ UNCHANGED <<qualityVars, block, gap, input_valid, now, iqVars, mpxVars, firVars>>
    BY <1>8 DEF SaveAudio, GoTo, Places
  <2> QED  BY <1>0, <2>1 DEF FlowTypeOK, qualityVars, iqVars, mpxVars, firVars
<1>9. CASE stream_session_configure
  <2>1. /\ valid' \in BOOLEAN /\ have_reported' \in BOOLEAN /\ reported_valid' \in BOOLEAN
        /\ have_prev' \in BOOLEAN
        /\ UNCHANGED <<place, index, block, input_valid, now, window_start, produced>>
    BY <1>9 DEF stream_session_configure
  <2>2. /\ settling_samples' \in Nat /\ last_report_time' \in Nat /\ gap' \in Nat
        /\ prev' \in Nat /\ write_index' \in Nat /\ iq_count' \in Nat /\ mpx_count' \in Nat
        /\ fir_count' \in Nat /\ audio_count' \in Nat
    BY <1>0, <1>9 DEF stream_session_configure, FlowTypeOK
  <2> QED  BY <1>0, <2>1, <2>2 DEF FlowTypeOK
<1>10. CASE UNCHANGED vars
  BY <1>0, <1>10 DEF FlowTypeOK, vars, qualityVars, iqVars, mpxVars, firVars, audioVars
<1> QED
  BY <1>1, <1>2, <1>3, <1>4, <1>5, <1>6, <1>7, <1>8, <1>9, <1>10 DEF Next

LEMMA CountsKept ==
    ASSUME PipelineInvariant, [Next]_vars
    PROVE  CountsInvariant'
<1>0. FlowTypeOK /\ CountsInvariant  BY DEF PipelineInvariant
<1>z. 0 % AudioFactor = 0 /\ 0 * AudioFactor = 0  BY Sizes, SMT
<1>1. CASE ReadFails \/ ReadBlock \/ DecimateIq \/ SaveIq
  <2>1. /\ UNCHANGED <<mpxVars, firVars, audioVars>>
        /\ place \in {"read", "decimate"} /\ place' \in {"decimate", "demodulate"}
        /\ place' = "demodulate" => index' = 0
    BY <1>1 DEF ReadFails, ReadBlock, DecimateIq, SaveIq, GoTo
  <2> QED  BY <1>0, <2>1 DEF CountsInvariant, FlowTypeOK, mpxVars, firVars, audioVars
<1>2. CASE Demodulate
  BY <1>0, <1>2 DEF Demodulate, CountsInvariant, FlowTypeOK, firVars, audioVars
<1>3. CASE MeasureQuality
  <2>1. /\ UNCHANGED <<mpxVars, firVars, audioVars>> /\ place = "demodulate"
        /\ index = BlockSamples /\ place' = "report" /\ index' = 0
    BY <1>3 DEF MeasureQuality, GoTo
  <2> QED  BY <1>0, <2>1, Sizes DEF CountsInvariant, FlowTypeOK, mpxVars, firVars, audioVars
<1>4. CASE Report
  <2>1. /\ UNCHANGED <<mpxVars, firVars, audioVars>> /\ place = "report"
        /\ place' = "filter" /\ index' = 0
    BY <1>4 DEF Report, GoTo
  <2> QED  BY <1>0, <2>1, Sizes DEF CountsInvariant, FlowTypeOK, mpxVars, firVars, audioVars
<1>5. CASE FilterMpx
  BY <1>0, <1>5, Sizes DEF FilterMpx, CountsInvariant, FlowTypeOK, mpxVars, audioVars
<1>6. CASE StartAudio
  <2>1. /\ UNCHANGED <<mpxVars, firVars>> /\ audio_count' = audio_count /\ place = "filter"
        /\ index = BlockSamples /\ place' = "audio" /\ index' = 0 /\ produced' = 0
    BY <1>6 DEF StartAudio, GoTo
  <2> QED  BY <1>0, <1>z, <2>1, Sizes DEF CountsInvariant, FlowTypeOK, mpxVars, firVars
<1>7. CASE DecimateAudio
  <2>1. /\ place = "audio" /\ place' = place /\ UNCHANGED <<mpxVars, firVars>>
        /\ index + AudioFactor <= BlockSamples
        /\ audio_count' = audio_count + AudioFactor /\ index' = index + AudioFactor
        /\ produced' = IF produced < AudioBlockSamples THEN produced + 1 ELSE produced
    BY <1>7 DEF DecimateAudio, MoreAudio
  <2>2. /\ index \in Nat /\ produced \in Nat /\ index % AudioFactor = 0
        /\ produced * AudioFactor = index
    BY <1>0, <2>1 DEF CountsInvariant, FlowTypeOK
  <2>3. produced < AudioBlockSamples
    BY <2>1, <2>2, Sizes, QuotientAhead DEF AudioBlockSamples
  <2>4. index' % AudioFactor = 0  BY <2>1, <2>2, Sizes, NextMultiple
  <2>5. produced' * AudioFactor = index'
    <3>1. (produced + 1) * AudioFactor = produced * AudioFactor + AudioFactor
      BY <2>2, Sizes, OneMore
    <3> QED  BY <2>1, <2>2, <2>3, <3>1
  <2>6. /\ mpx_count' = fir_count'
        /\ fir_count' = audio_count' + (BlockSamples - index')
    BY <1>0, <2>1, Sizes DEF CountsInvariant, FlowTypeOK, mpxVars, firVars
  <2>7. mpx_count' = fir_count' + 0  BY <1>0, <2>1, <2>6 DEF FlowTypeOK, firVars
  <2> QED  BY <2>1, <2>4, <2>5, <2>6, <2>7 DEF CountsInvariant
<1>8. CASE SaveAudio
  <2>1. /\ place = "audio" /\ place' = "read" /\ UNCHANGED <<mpxVars, firVars>>
        /\ ~(index + AudioFactor <= BlockSamples)
        /\ audio_count' = audio_count /\ produced' = produced
    BY <1>8 DEF SaveAudio, MoreAudio, GoTo
  <2>2. /\ index \in 0..BlockSamples /\ produced \in Nat /\ index % AudioFactor = 0
        /\ produced * AudioFactor = index
    BY <1>0, <2>1 DEF CountsInvariant, FlowTypeOK
  <2>3. index = BlockSamples
    <3>1. SUFFICES ASSUME index < BlockSamples PROVE FALSE  BY <2>2, Sizes
    <3>2. index \in Nat /\ BlockSamples \in Nat  BY <2>2, Sizes
    <3>3. index + AudioFactor <= BlockSamples
      BY <2>2, <3>1, <3>2, Sizes, FiltersAssumption, MultiplesApart
    <3> QED  BY <2>1, <3>3
  <2>4. produced' = AudioBlockSamples
    BY <2>1, <2>2, <2>3, Sizes, WholeQuotient DEF AudioBlockSamples
  <2>5. mpx_count' = fir_count' + 0 /\ fir_count' = audio_count' + 0
    BY <1>0, <2>1, <2>3, Sizes DEF CountsInvariant, FlowTypeOK, mpxVars, firVars
  <2> QED  BY <2>1, <2>4, <2>5 DEF CountsInvariant
<1>9. CASE stream_session_configure
  BY <1>9 DEF stream_session_configure, CountsInvariant
<1>10. CASE UNCHANGED vars
  BY <1>0, <1>10 DEF CountsInvariant, AudioBlockSamples, vars, mpxVars, firVars, audioVars
<1> QED
  BY <1>1, <1>2, <1>3, <1>4, <1>5, <1>6, <1>7, <1>8, <1>9, <1>10 DEF Next

-----------------------------------------------------------------------------
(* The quality estimate *)

\* One block more counts if the settling time was over before it.
LEMMA OneBlockMore ==
    ASSUME NEW g \in Nat, NEW last \in Nat, g <= last
    PROVE  SettledBlocks(g, last + 1)
             = IF (last - g) * BlockSamples >= SettlingSamples
               THEN SettledBlocks(g, last) \cup {last + 1} ELSE SettledBlocks(g, last)
<1>1. last + 1 \in (g + 1)..(last + 1) /\ last + 1 - 1 - g = last - g  OBVIOUS
<1>2. \A b : b \in (g + 1)..(last + 1) <=> b \in (g + 1)..last \/ b = last + 1  OBVIOUS
<1> DEFINE Settled(b) == (b - 1 - g) * BlockSamples >= SettlingSamples
<1>3. Settled(last + 1) <=> (last - g) * BlockSamples >= SettlingSamples  BY <1>1
<1>4. /\ SettledBlocks(g, last + 1) = {b \in (g + 1)..(last + 1) : Settled(b)}
      /\ SettledBlocks(g, last) = {b \in (g + 1)..last : Settled(b)}
  BY DEF SettledBlocks
<1> HIDE DEF Settled
<1>5. last + 1 \notin (g + 1)..last  OBVIOUS
<1>6. CASE Settled(last + 1)
  <2>1. {b \in (g + 1)..(last + 1) : Settled(b)} = {b \in (g + 1)..last : Settled(b)} \cup {last + 1}
    BY <1>2, <1>6
  <2> QED  BY <1>3, <1>4, <1>6, <2>1
<1>7. CASE ~Settled(last + 1)
  <2>1. {b \in (g + 1)..(last + 1) : Settled(b)} = {b \in (g + 1)..last : Settled(b)}
    BY <1>2, <1>7
  <2> QED  BY <1>3, <1>4, <1>7, <2>1
<1> QED  BY <1>6, <1>7

LEMMA NothingSettled ==
    ASSUME NEW g \in Nat
    PROVE  SettledBlocks(g, g) = {}
<1>1. \A b : b \notin (g + 1)..g  OBVIOUS
<1> QED  BY <1>1 DEF SettledBlocks

LEMMA QualityKept ==
    ASSUME PipelineInvariant, [Next]_vars
    PROVE  QualityInvariant'
<1>0. FlowTypeOK /\ QualityInvariant  BY DEF PipelineInvariant
<1>z. /\ BlockSamples \in Nat \ {0} /\ SettlingSamples \in Nat \ {0}
      /\ block \in Nat /\ gap \in Nat /\ settling_samples \in Nat
      /\ 0 * BlockSamples = 0
  <2>1. 0 * BlockSamples = 0  BY Sizes, SMT
  <2> QED  BY <1>0, <2>1, Sizes DEF FlowTypeOK
<1>1. CASE ReadFails \/ ReadBlock
  <2>1. /\ UNCHANGED <<settling_samples, smoothed_power, valid, gap>>
        /\ block' = block + 1 /\ place = "read" /\ place' \in {"decimate", "demodulate"}
    BY <1>1 DEF ReadFails, ReadBlock, GoTo, qualityVars
  <2>2. Measured' = Measured /\ Measured = block  BY <1>z, <2>1 DEF Measured
  <2> QED  BY <1>0, <2>1, <2>2 DEF QualityInvariant, IsOfThisReception
<1>2. CASE MeasureQuality
  <2> DEFINE last == block - 1
  <2>1. /\ place = "demodulate" /\ place' = "report" /\ block' = block
    BY <1>2 DEF MeasureQuality, GoTo
  <2>2. Measured = last /\ Measured' = last + 1 /\ last + 1 = block
    BY <1>z, <2>1 DEF Measured
  <2>3. /\ gap <= last /\ last \in Nat
        /\ settling_samples = LET left == SettlingSamples - (last - gap) * BlockSamples
                              IN  IF left > 0 THEN left ELSE 0
        /\ smoothed_power = SettledBlocks(gap, last)
        /\ valid <=> smoothed_power # {}
    BY <1>0, <1>z, <2>2 DEF QualityInvariant, IsOfThisReception
  <2> HIDE DEF last
  <2>4. PICK finite \in BOOLEAN :
            /\ IF input_valid THEN fm_quality_process_block(block, finite)
               ELSE /\ fm_quality_reset
                    /\ UNCHANGED <<have_reported, reported_valid, last_report_time, told>>
            /\ gap' = IF input_valid /\ finite THEN gap ELSE block
    BY <1>2 DEF MeasureQuality
  <2>5. CASE input_valid /\ finite
    <3>1. Measure(last + 1) /\ gap' = gap  BY <2>2, <2>4, <2>5 DEF fm_quality_process_block
    <3>2. (last + 1 - gap) * BlockSamples = (last - gap) * BlockSamples + BlockSamples
      <4>1. last - gap \in Int /\ last + 1 - gap = (last - gap) + 1  BY <1>z, <2>3
      <4> QED  BY <1>z, <4>1, OneMore
    <3>3. PICK before \in Int : before = (last - gap) * BlockSamples
      BY <1>z, <2>3, SMT
    <3>4. SettledBlocks(gap, last + 1)
            = IF before >= SettlingSamples
              THEN SettledBlocks(gap, last) \cup {last + 1} ELSE SettledBlocks(gap, last)
      BY <1>z, <2>3, <3>3, OneBlockMore
    <3>5. settling_samples # 0 <=> ~(before >= SettlingSamples)
      BY <1>z, <2>3, <3>3
    <3>6. settling_samples' = LET left == SettlingSamples - (before + BlockSamples)
                              IN  IF left > 0 THEN left ELSE 0
      <4>1. settling_samples = IF SettlingSamples - before > 0 THEN SettlingSamples - before ELSE 0
        BY <2>3, <3>3
      <4>2. settling_samples' = IF settling_samples # 0
                                THEN IF BlockSamples >= settling_samples THEN 0
                                     ELSE settling_samples - BlockSamples
                                ELSE settling_samples
        BY <3>1 DEF Measure
      <4> QED  BY <1>z, <3>3, <4>1, <4>2
    <3>7. /\ smoothed_power' = SettledBlocks(gap, last + 1)
          /\ valid' <=> smoothed_power' # {}
      <4>1. CASE settling_samples # 0
        BY <2>3, <3>1, <3>4, <3>5, <4>1 DEF Measure
      <4>2. CASE settling_samples = 0
        <5>1. /\ smoothed_power' = (IF valid THEN smoothed_power ELSE {}) \cup {last + 1}
              /\ valid' = TRUE
          BY <3>1, <4>2 DEF Measure
        <5>2. (IF valid THEN smoothed_power ELSE {}) = smoothed_power  BY <2>3
        <5>3. smoothed_power' = smoothed_power \cup {last + 1}  BY <5>1, <5>2
        <5> QED  BY <2>3, <3>4, <3>5, <4>2, <5>1, <5>3
      <4> QED  BY <4>1, <4>2
    <3>8. gap' <= Measured'
      BY <1>z, <2>1, <2>2, <2>3, <3>1
    <3>9. settling_samples' = LET left == SettlingSamples - (Measured' - gap') * BlockSamples
                              IN  IF left > 0 THEN left ELSE 0
      <4>1. (Measured' - gap') * BlockSamples = before + BlockSamples
        <5>1. Measured' - gap' = last + 1 - gap  BY <1>z, <2>2, <2>3, <3>1
        <5> QED  BY <3>2, <3>3, <5>1
      <4> QED  BY <3>6, <4>1
    <3>10. IsOfThisReception(gap, Measured)'
      BY <2>2, <3>1, <3>7 DEF IsOfThisReception, SettledBlocks
    <3> QED  BY <3>8, <3>9, <3>10 DEF QualityInvariant
  <2>6. CASE ~(input_valid /\ finite)
    <3>1. /\ settling_samples' = SettlingSamples /\ smoothed_power' = {} /\ valid' = FALSE
          /\ gap' = block
      BY <2>4, <2>6 DEF fm_quality_process_block, fm_quality_reset
    <3>2. Measured' = block /\ Measured' - gap' = 0  BY <1>z, <2>2, <3>1
    <3>3. gap' <= Measured'  BY <1>z, <2>1, <3>1, <3>2
    <3>4. SettledBlocks(block, block) = {}  BY <1>z, NothingSettled
    <3>5. IsOfThisReception(gap, Measured)'
      BY <3>1, <3>2, <3>4 DEF IsOfThisReception, SettledBlocks
    <3> QED  BY <1>z, <3>1, <3>2, <3>3, <3>5 DEF QualityInvariant
  <2> QED  BY <2>5, <2>6
<1>3. CASE stream_session_configure
  <2>1. /\ settling_samples' = SettlingSamples /\ smoothed_power' = {} /\ valid' = FALSE
        /\ gap' = block /\ block' = block /\ place = "read" /\ place' = place
    BY <1>3 DEF stream_session_configure
  <2>2. Measured' = block /\ Measured' - gap' = 0  BY <1>z, <2>1 DEF Measured
  <2>3. gap' <= Measured'  BY <1>z, <2>1, <2>2
  <2>4. SettledBlocks(block, block) = {}  BY <1>z, NothingSettled
  <2>5. IsOfThisReception(gap, Measured)'
    BY <2>1, <2>2, <2>4 DEF IsOfThisReception, SettledBlocks
  <2> QED  BY <1>z, <2>1, <2>2, <2>3, <2>5 DEF QualityInvariant
<1>4. CASE UNCHANGED <<settling_samples, smoothed_power, valid, gap, block, Measured>>
  BY <1>0, <1>4 DEF QualityInvariant, IsOfThisReception
<1>5. CASE DecimateIq \/ SaveIq \/ Demodulate \/ FilterMpx \/ StartAudio \/ DecimateAudio
           \/ SaveAudio
  <2>1. UNCHANGED <<settling_samples, smoothed_power, valid, gap, block>>
    BY <1>5 DEF DecimateIq, SaveIq, Demodulate, FilterMpx, StartAudio, DecimateAudio, SaveAudio,
                qualityVars
  <2>2. place' = place \/ (place = "decimate" /\ place' = "demodulate")
        \/ (place \in {"filter", "audio"} /\ place' \in {"audio", "read"})
    BY <1>5 DEF DecimateIq, SaveIq, Demodulate, FilterMpx, StartAudio, DecimateAudio, SaveAudio,
                GoTo
  <2>3. Measured' = Measured  BY <2>1, <2>2 DEF Measured
  <2> QED  BY <1>4, <2>1, <2>3
<1>6. CASE Report
  <2>1. /\ UNCHANGED <<settling_samples, smoothed_power, valid, gap, block>>
        /\ place = "report" /\ place' = "filter"
    BY <1>6 DEF Report, fm_quality_report, GoTo
  <2>2. Measured' = Measured  BY <2>1 DEF Measured
  <2> QED  BY <1>4, <2>1, <2>2
<1>7. CASE UNCHANGED vars
  BY <1>4, <1>7 DEF vars, qualityVars, Measured
<1> QED  BY <1>1, <1>2, <1>3, <1>5, <1>6, <1>7 DEF Next

LEMMA ReportKept ==
    ASSUME PipelineInvariant, [Next]_vars
    PROVE  ReportInvariant'
<1>0. FlowTypeOK /\ ReportInvariant  BY DEF PipelineInvariant
<1>1. CASE Report
  <2>1. PICK elapsed \in {1, ReportInterval} : now' = now + elapsed
    BY <1>1 DEF Report
  <2>2. fm_quality_report(now') /\ place' = "filter" /\ now' \in Nat
    BY <1>0, <1>1, <2>1, Sizes DEF Report, GoTo, FlowTypeOK
  <2>3. CASE ~valid
    <3>1. /\ valid' = valid /\ have_reported' = TRUE /\ reported_valid' = FALSE
          /\ told' = IF ~have_reported \/ reported_valid
                     THEN [line |-> "unavailable", at |-> now'] ELSE told
      BY <2>2, <2>3 DEF fm_quality_report
    <3>2. told'.line = "unavailable"
      BY <1>0, <3>1 DEF ReportInvariant
    <3> QED  BY <2>3, <3>1, <3>2 DEF ReportInvariant
  <2>4. CASE valid /\ ToldRecently(now')
    <3>1. UNCHANGED <<told, have_reported, reported_valid, last_report_time, valid>>
      BY <2>2, <2>4 DEF fm_quality_report
    <3>2. have_reported /\ reported_valid /\ now' - last_report_time < ReportInterval
      BY <2>4 DEF ToldRecently
    <3> QED  BY <1>0, <2>4, <3>1, <3>2 DEF ReportInvariant
  <2>5. CASE valid /\ ~ToldRecently(now')
    <3>1. /\ valid' = valid /\ have_reported' = TRUE /\ reported_valid' = TRUE
          /\ told' = [line |-> "available", at |-> now'] /\ last_report_time' = now'
      BY <2>2, <2>5 DEF fm_quality_report
    <3>2. now' - now' < ReportInterval
      <4>1. now' \in Int  BY <2>2
      <4>2. ReportInterval > 0  BY Sizes
      <4>3. PICK t \in Int : t = now'  BY <4>1
      <4>4. t - t = 0  OBVIOUS
      <4> QED  BY <4>2, <4>3, <4>4
    <3> QED  BY <2>5, <3>1, <3>2 DEF ReportInvariant
  <2> QED  BY <2>3, <2>4, <2>5
<1>2. CASE stream_session_configure
  BY <1>2 DEF stream_session_configure, ReportInvariant
<1>3. CASE MeasureQuality
  <2>1. UNCHANGED <<have_reported, reported_valid, last_report_time, told>> /\ place' = "report"
    BY <1>3 DEF MeasureQuality, GoTo, fm_quality_process_block
  <2> QED  BY <1>0, <2>1 DEF ReportInvariant
<1>4. CASE ReadFails \/ ReadBlock \/ DecimateIq \/ SaveIq \/ Demodulate \/ FilterMpx \/ StartAudio
           \/ DecimateAudio \/ SaveAudio \/ UNCHANGED vars
  <2>1. UNCHANGED <<have_reported, reported_valid, last_report_time, told, valid, now>>
    BY <1>4 DEF ReadFails, ReadBlock, DecimateIq, SaveIq, Demodulate, FilterMpx, StartAudio,
                DecimateAudio, SaveAudio, vars, qualityVars
  <2>2. place' \in {"filter", "audio"} => place \in {"filter", "audio"}
    BY <1>4 DEF ReadFails, ReadBlock, DecimateIq, SaveIq, Demodulate, FilterMpx, StartAudio,
                DecimateAudio, SaveAudio, GoTo, vars
  <2> QED  BY <1>0, <2>1, <2>2 DEF ReportInvariant
<1> QED  BY <1>1, <1>2, <1>3, <1>4 DEF Next

-----------------------------------------------------------------------------
(* The theorems *)

\* PipelineInvariant is inductive: after any number of blocks, failed reads and
\* sessions, every filter's history is the tail of its stream and the quality estimate
\* agrees with the blocks received.
THEOREM PipelineIsConsistent == Spec => []PipelineInvariant
<1>1. Init => PipelineInvariant  BY InitHolds
<1>2. PipelineInvariant /\ [Next]_vars => PipelineInvariant'
  <2> SUFFICES ASSUME PipelineInvariant, [Next]_vars PROVE PipelineInvariant'  OBVIOUS
  <2>1. FlowTypeOK'  BY TypesKept
  <2>2. IqInvariant' /\ (iq_used = Newest(iq_count, IqTaps))'  BY IqKept
  <2>3. /\ DiscriminatorInvariant'
        /\ (mpx_used = IF mpx_count > 1 THEN <<mpx_count - 1, mpx_count>> ELSE <<0, 0>>)'
    BY DiscriminatorKept
  <2>4. RingInvariant' /\ (fir_used = Newest(fir_count, MpxTaps))'  BY RingKept
  <2>5. AudioInvariant' /\ (audio_used = Newest(audio_count, MpxTaps))'  BY AudioKept
  <2>6. CountsInvariant'  BY CountsKept
  <2>7. QualityInvariant'  BY QualityKept
  <2>8. ReportInvariant'  BY ReportKept
  <2>9. WindowsAreNewest'  BY <2>2, <2>3, <2>4, <2>5 DEF WindowsAreNewest
  <2> QED
    BY <2>1, <2>2, <2>3, <2>4, <2>5, <2>6, <2>7, <2>8, <2>9 DEF PipelineInvariant
<1> QED  BY <1>1, <1>2, PTL DEF Spec

\* No sample is lost or used twice between two blocks, whatever the number of taps, the
\* factors and the size of a block.
THEOREM NoSampleIsLost == Spec => []WindowsAreNewest
<1>1. PipelineInvariant => WindowsAreNewest  BY DEF PipelineInvariant
<1> QED  BY <1>1, PipelineIsConsistent, PTL

\* A block is a chunk of audio, with nothing missing and nothing left over.
THEOREM EveryChunkIsWhole == Spec => []AudioIsWhole
<1>1. PipelineInvariant => AudioIsWhole
  BY DEF PipelineInvariant, CountsInvariant, FlowTypeOK, AudioIsWhole
<1> QED  BY <1>1, PipelineIsConsistent, PTL

\* The quality estimate is of this reception only.
THEOREM EstimateIsOfThisReception == Spec => []ResultIsOfThisReception
<1>1. PipelineInvariant => ResultIsOfThisReception
  BY DEF PipelineInvariant, QualityInvariant, ResultIsOfThisReception
<1> QED  BY <1>1, PipelineIsConsistent, PTL

\* What was last logged of the quality is true when a chunk is sent.
THEOREM LogIsCurrent == Spec => []ReportIsCurrent
<1>1. PipelineInvariant => ReportIsCurrent
  <2> SUFFICES ASSUME PipelineInvariant, place \in {"filter", "audio"} PROVE IsCurrent(now)
    BY DEF ReportIsCurrent
  <2>1. ReportInvariant  BY DEF PipelineInvariant
  <2>2. CASE valid
    <3>1. told.line = "available" /\ told.at = last_report_time
          /\ now - last_report_time < ReportInterval
      BY <2>1, <2>2 DEF ReportInvariant
    <3> QED  BY <2>2, <3>1 DEF IsCurrent
  <2>3. CASE ~valid
    <3>1. told.line = "unavailable"  BY <2>1, <2>3 DEF ReportInvariant
    <3> QED  BY <2>3, <3>1 DEF IsCurrent
  <2> QED  BY <2>2, <2>3
<1> QED  BY <1>1, PipelineIsConsistent, PTL
=============================================================================
