----------------------------- MODULE MCRdsBits ------------------------------
(***************************************************************************)
(* The two steps before block synchronisation: the clock that makes bits   *)
(* of symbols (RdsClock), and the code that makes a block of bits          *)
(* (RdsBlockCode).  Neither reads what the other writes, so a behaviour is *)
(* either about the clock or about one block.                              *)
(***************************************************************************)
EXTENDS MCRdsBlockCode, RdsClock

bitsVars == <<vars, clockVars>>

\* No block is looked at: the behaviour is about the clock.
AtTheClock == stage = "none"

ClockAlone ==
    /\ ClockInit
    /\ sent = {} /\ sent_offset = "A" /\ error = {} /\ weak = {}
    /\ expected_offset = "A" /\ stage = "none"
    /\ had_errors = FALSE /\ corrected_bits = {} /\ corrected_bit_count = 0

BlockAlone == Init /\ ClockInit /\ level = 1 /\ half = 1 /\ ~inverted

BitsNext ==
    \/ AtTheClock /\ ClockNext /\ UNCHANGED vars
    \/ Next /\ UNCHANGED clockVars

\* Symbols keep coming, and no broadcast is a row of zeros: the offset words are not.
BitsFairness ==
    /\ WF_bitsVars(AtTheClock /\ (ReceiveZero \/ ReceiveOne) /\ UNCHANGED vars)
    /\ SF_bitsVars(AtTheClock /\ half = 1 /\ ReceiveOne /\ UNCHANGED vars)

BitsSpec == (ClockAlone \/ BlockAlone) /\ [][BitsNext]_bitsVars /\ BitsFairness

\* BitsComeRight, of the behaviours about the clock: whatever the channel did, when it is
\* done rds_demod_process_symbol_sample pushes the bits that were sent, and goes on so.
ClockComesRight == AtTheClock => BitsComeRight
=============================================================================
