------------------------------ MODULE RdsClock ------------------------------
(***************************************************************************)
(* From symbols to bits: rds_demod_process_symbol_sample of                *)
(* src/dsp/rds_demod.c.  A bit of RDS is differentially encoded and sent   *)
(* as two symbols of opposite sign.  The symbol clock does not tell which  *)
(* symbols belong together: the demodulator takes the difference of every  *)
(* two successive symbols, and every HistoryLength of them decides by      *)
(* their amplitudes which half of the differences are the bits.            *)
(*                                                                         *)
(* The carrier loop (src/dsp/rds_demod.c) and the symbol synchronisation   *)
(* of liquid-dsp are the channel: it may invert every symbol from some     *)
(* moment on, receive one wrong, drop one or repeat one.  A symbol is 1 or *)
(* -1, quadrature is left out: nothing reads it.                           *)
(***************************************************************************)
EXTENDS Integers, FiniteSets

CONSTANTS
    HistoryLength,  \* RDS_BIPHASE_CLOCK_HISTORY_LENGTH
    MaxFaults       \* bound on the faults of the channel

ASSUME ClockAssumption ==
    /\ HistoryLength \in Nat \ {0} /\ HistoryLength % 2 = 0
    /\ MaxFaults \in Nat

VARIABLES
    level, half, bit,                   \* the transmitter: half is the symbol sent next
    inverted, faults,                   \* the channel
    prev_symbol, have_prev_symbol,      \* rds_phase_state
    biphase_clock, biphase_clock_history, biphase_clock_polarity,
    prev_biphase_bit, have_prev_biphase_bit,
    decoded,       \* the bit pushed to the block stream by the last symbol, or None
    clean, seen,   \* history: no fault in this window so far, and a one in it
    settled,       \* history: such a window has passed since the last fault
    steady         \* history: bits decoded since, up to 2

transmitterVars == <<level, half, bit>>
channelVars == <<inverted, faults>>
phaseVars == <<prev_symbol, have_prev_symbol, biphase_clock, biphase_clock_history,
               biphase_clock_polarity, prev_biphase_bit, have_prev_biphase_bit, decoded>>
windowVars == <<clean, seen, settled, steady>>
clockVars == <<transmitterVars, channelVars, phaseVars, windowVars>>

None == 2  \* no bit

Empty == [i \in 0..(HistoryLength - 1) |-> 0]

\* rds_demod_init, while a transmission is under way.
ClockInit ==
    /\ level \in {1, -1} /\ half \in {1, 2} /\ bit = 0
    /\ inverted \in BOOLEAN /\ faults = 0
    /\ prev_symbol = 0 /\ have_prev_symbol = FALSE
    /\ biphase_clock = 0 /\ biphase_clock_history = Empty /\ biphase_clock_polarity = 0
    /\ prev_biphase_bit = FALSE /\ have_prev_biphase_bit = FALSE
    /\ decoded = None
    /\ clean = TRUE /\ seen = FALSE /\ settled = FALSE /\ steady = 0

Abs(x) == IF x < 0 THEN -x ELSE x

-----------------------------------------------------------------------------
(* The demodulator *)

\* The amplitudes of one half added up: each is 0 or 1, so that the ones are counted.
Sum(of, start) == Cardinality({i \in 0..(HistoryLength - 1) : i % 2 = start /\ of[i] = 1})

\* Mutant: never goes back.
PolarityNeverBack(amplitudes) ==
    IF Sum(amplitudes, 1) > Sum(amplitudes, 0) THEN 1 ELSE biphase_clock_polarity

\* The stronger half of the differences are the bits; a tie changes nothing.
PolarityAfter(amplitudes) ==
    IF Sum(amplitudes, 0) > Sum(amplitudes, 1) THEN 0
    ELSE IF Sum(amplitudes, 1) > Sum(amplitudes, 0) THEN 1
    ELSE biphase_clock_polarity

\* Mutant: the bit is not decoded differentially.
PlainBit(biphase_bit) == IF biphase_bit THEN 1 ELSE 0

DecodedBit(biphase_bit) == IF biphase_bit # prev_biphase_bit THEN 1 ELSE 0

rds_demod_process_symbol_sample(symbol_i) ==
    LET biphase_symbol_i == (symbol_i - prev_symbol) \div 2
        biphase_bit == biphase_symbol_i >= 0
        amplitudes == [biphase_clock_history EXCEPT ![biphase_clock] = Abs(biphase_symbol_i)]
        isBit == biphase_clock % 2 = biphase_clock_polarity
        full == biphase_clock + 1 = HistoryLength
    IN  /\ prev_symbol' = symbol_i
        /\ have_prev_symbol' = TRUE
        /\ IF ~have_prev_symbol
           THEN /\ decoded' = None
                /\ UNCHANGED <<biphase_clock, biphase_clock_history, biphase_clock_polarity,
                               prev_biphase_bit, have_prev_biphase_bit>>
           ELSE /\ decoded' = IF isBit /\ have_prev_biphase_bit
                              THEN DecodedBit(biphase_bit) ELSE None
                /\ prev_biphase_bit' = IF isBit THEN biphase_bit ELSE prev_biphase_bit
                /\ have_prev_biphase_bit' = (isBit \/ have_prev_biphase_bit)
                /\ biphase_clock' = IF full THEN 0 ELSE biphase_clock + 1
                /\ biphase_clock_history' = IF full THEN Empty ELSE amplitudes
                /\ biphase_clock_polarity' = IF full THEN PolarityAfter(amplitudes)
                                             ELSE biphase_clock_polarity

-----------------------------------------------------------------------------
(* The transmitter and the channel *)

Flip(symbol) == IF inverted' THEN -symbol ELSE symbol

\* The symbol that is sent next, of this bit or of the next one, which is b.
SendSymbol(b) ==
    IF half = 2
    THEN /\ half' = 1
         /\ UNCHANGED <<level, bit>>
    ELSE /\ half' = 2
         /\ bit' = b
         /\ level' = IF b = 1 THEN -level ELSE level

SymbolSent == IF half = 2 THEN -level ELSE level'

\* What the window that is being filled has seen.
FollowWindow(fault, one) ==
    LET ok == clean /\ ~fault
        some == seen \/ one
        full == have_prev_symbol /\ biphase_clock + 1 = HistoryLength
    IN  /\ clean' = IF full THEN ~fault ELSE ok
        /\ seen' = IF full THEN FALSE ELSE some
        /\ settled' = ((settled /\ ~fault) \/ (full /\ ok /\ some))
        /\ steady' = IF ~settled \/ fault THEN 0
                     ELSE IF decoded' # None /\ steady < 2 THEN steady + 1 ELSE steady

\* A one shows in the difference across the boundary before its first symbol.
Receive(b) ==
    /\ SendSymbol(b)
    /\ UNCHANGED channelVars
    /\ rds_demod_process_symbol_sample(Flip(SymbolSent))
    /\ FollowWindow(FALSE, have_prev_symbol /\ half = 1 /\ b = 1)

ReceiveZero == Receive(0)
ReceiveOne == Receive(1)

Fault == faults < MaxFaults /\ faults' = faults + 1

\* The carrier loop locks half a turn away.
Invert ==
    /\ Fault /\ inverted' = ~inverted
    /\ \E b \in {0, 1} : SendSymbol(b)
    /\ rds_demod_process_symbol_sample(Flip(SymbolSent))
    /\ FollowWindow(TRUE, FALSE)

ReceiveWrong ==
    /\ Fault /\ UNCHANGED inverted
    /\ \E b \in {0, 1} : SendSymbol(b)
    /\ rds_demod_process_symbol_sample(-Flip(SymbolSent))
    /\ FollowWindow(TRUE, FALSE)

\* The symbol clock slips by one.
MissSymbol ==
    /\ Fault /\ UNCHANGED inverted
    /\ \E b \in {0, 1} : SendSymbol(b)
    /\ clean' = FALSE /\ settled' = FALSE /\ steady' = 0
    /\ UNCHANGED <<phaseVars, seen>>

RepeatSymbol ==
    /\ Fault /\ UNCHANGED <<inverted, transmitterVars>>
    /\ have_prev_symbol
    /\ rds_demod_process_symbol_sample(prev_symbol)
    /\ FollowWindow(TRUE, FALSE)

ClockNext ==
    \/ ReceiveZero \/ ReceiveOne
    \/ Invert \/ ReceiveWrong \/ MissSymbol \/ RepeatSymbol

ClockSpec == ClockInit /\ [][ClockNext]_clockVars

-----------------------------------------------------------------------------
(* Properties *)

AsSent == decoded = IF half = 1 THEN bit ELSE None

\* Once rds_demod_process_symbol_sample has seen a window with a one in it without a
\* fault, it decodes every bit from the second on as it was sent, whether the carrier is
\* inverted or not, and leaves none out; windows without a one, in which both halves are
\* as strong, do not change that.
BitsAreAsSent == steady = 2 => AsSent

\* Whatever the channel did, when it is done the bits come right and stay so.
BitsComeRight == <>[]AsSent
=============================================================================
