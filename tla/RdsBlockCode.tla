---------------------------- MODULE RdsBlockCode ----------------------------
(***************************************************************************)
(* Recognising and correcting one RDS block, src/rds/block_sync.c: 16 bits *)
(* of data and 10 check bits, to which one of five offset words was added. *)
(*                                                                         *)
(* A word is the set of the positions of its one bits, position 0 being    *)
(* the bit received last; so ^ is the symmetric difference.  A block is    *)
(* followed from the register to where it is taken or given up.            *)
(***************************************************************************)
EXTENDS Integers, FiniteSets, FiniteSetsExt

CONSTANTS
    Datas,      \* data transmitted, as words of 16 bits
    Errors,     \* bits that may be received wrong together
    WeakBits    \* bits that may be received with low confidence together

Bits == 0..25
CheckBits == 0..9
Offsets == {"A", "B", "C", "C2", "D"}

ASSUME WordsAssumption ==
    /\ Datas \subseteq SUBSET (0..15)
    /\ Errors \subseteq SUBSET Bits

VARIABLES
    sent, sent_offset,    \* the block as transmitted, and its kind
    error, weak,          \* bits received wrong, and with the lowest confidence
    expected_offset,
    stage,                \* how far rds_find_block_in_register is with it
    had_errors, corrected_bits, corrected_bit_count

blockVars == <<sent, sent_offset, error, weak>>
vars == <<blockVars, expected_offset, stage, had_errors, corrected_bits,
          corrected_bit_count>>

-----------------------------------------------------------------------------
(* The code *)

parity_check_matrix ==
  <<
    {9}, {8}, {7}, {6}, {5}, {4}, {3}, {2}, {1}, {0}, {9, 7, 6, 4, 3, 2},
    {8, 6, 5, 3, 2, 1}, {7, 5, 4, 2, 1, 0}, {9, 7, 2, 1, 0},
    {9, 8, 7, 4, 3, 2, 1, 0}, {9, 8, 4, 1, 0}, {9, 8, 6, 4, 2, 0},
    {9, 8, 6, 5, 4, 2, 1}, {8, 7, 5, 4, 3, 1, 0}, {9, 0}, {9, 8, 7, 6, 4, 3, 2},
    {8, 7, 6, 5, 3, 2, 1}, {7, 6, 5, 4, 2, 1, 0}, {9, 7, 5, 2, 1, 0},
    {9, 8, 7, 3, 2, 1, 0}, {9, 8, 4, 3, 1, 0}
  >>

\* The bits of the check matrix's columns that are added up an odd number of times.
rds_calculate_syndrome(word) ==
    {b \in CheckBits :
        Cardinality({k \in word : b \in parity_check_matrix[26 - k]}) % 2 = 1}

OffsetWord ==
    [A |-> {7, 6, 5, 4, 3, 2},
     B |-> {8, 7, 4, 3},
     C |-> {8, 6, 5, 3},
     C2 |-> {9, 8, 6, 4},
     D |-> {8, 7, 5, 4, 2}]

OffsetSyndrome ==
    [A |-> {9, 8, 7, 6, 4, 3},
     B |-> {9, 8, 7, 6, 4, 2},
     C |-> {9, 6, 4, 3, 2},
     C2 |-> {9, 8, 7, 6, 3, 2},
     D |-> {9, 6, 4, 3}]

\* rds_get_offset_for_syndrome
OffsetFor(syndrome) ==
    IF \E o \in Offsets : OffsetSyndrome[o] = syndrome
    THEN CHOOSE o \in Offsets : OffsetSyndrome[o] = syndrome
    ELSE "invalid"

Failure(raw) ==
    [corrected_bits |-> raw, corrected_bit_count |-> 0, succeeded |-> FALSE]

Success(raw, mask, count) ==
    [corrected_bits |-> SymDiff(raw, mask), corrected_bit_count |-> count,
     succeeded |-> TRUE]

-----------------------------------------------------------------------------
(* rds_correct_burst_errors: one wrong bit, else two neighbours *)

\* Mutant: two wrong neighbours are not tried.
SingleBits == [n \in 1..26 |-> {n - 1}]

Bursts == [n \in 1..52 |-> IF n <= 26 THEN {n - 1} ELSE {n - 27, n - 26} \cap Bits]

BurstSyndromes ==
    [o \in Offsets |->
        [n \in DOMAIN Bursts |-> rds_calculate_syndrome(SymDiff(Bursts[n], OffsetWord[o]))]]

rds_correct_burst_errors(raw, expected) ==
    LET syndrome == rds_calculate_syndrome(raw)
        found == {n \in DOMAIN Bursts : BurstSyndromes[expected][n] = syndrome}
    IN  IF found = {} THEN Failure(raw)
        ELSE Success(raw, Bursts[Min(found)], IF Min(found) <= 26 THEN 1 ELSE 2)

-----------------------------------------------------------------------------
(* rds_correct_soft_errors: up to three of the six weakest bits *)

RDS_SOFT_CANDIDATE_BITS == 6
RDS_SOFT_MAX_FLIPS == 3

\* The weakest bits, weakest first and oldest first among equals: confidences are
\* abstracted to two values.
Candidates(weakest) ==
    LET weaker(k) == {j \in Bits : IF (j \in weakest) = (k \in weakest) THEN j > k
                                                                   ELSE j \in weakest}
    IN  [i \in 1..RDS_SOFT_CANDIDATE_BITS |->
            CHOOSE k \in Bits : Cardinality(weaker(k)) = i - 1]

\* The sets of candidates flipped together.
Flips == {f \in SUBSET (1..RDS_SOFT_CANDIDATE_BITS) :
            f # {} /\ Cardinality(f) <= RDS_SOFT_MAX_FLIPS}

\* The order of the nested loops.
TriedBefore(f, g) ==
    \/ Cardinality(f) < Cardinality(g)
    \/ Cardinality(f) = Cardinality(g) /\ f # g /\ Min(SymDiff(f, g)) \in f

rds_correct_soft_errors(raw, expected, weakest) ==
    LET candidate == Candidates(weakest)
        Mask(f) == {candidate[i] : i \in f}
        found == {f \in Flips :
                    rds_calculate_syndrome(SymDiff(raw, Mask(f))) = OffsetWord[expected]}
    IN  IF found = {} THEN Failure(raw)
        ELSE LET f == CHOOSE f \in found : \A g \in found \ {f} : TriedBefore(f, g)
             IN  Success(raw, Mask(f), Cardinality(f))

-----------------------------------------------------------------------------
(* The transmitter: data, check bits and offset word, such that the syndrome *)
(* is the offset's. *)

\* The check bits of each single data bit; those of a sum are the sum.
CheckOfBit ==
    [k \in 0..15 |-> CHOOSE c \in SUBSET CheckBits :
                        rds_calculate_syndrome(c \cup {k + 10}) = {}]

CheckOf(data) ==
    {b \in CheckBits : Cardinality({k \in data : b \in CheckOfBit[k]}) % 2 = 1}

Transmitted(data, o) == SymDiff({k + 10 : k \in data} \cup CheckOf(data), OffsetWord[o])

-----------------------------------------------------------------------------
(* From rds_find_block_in_register *)

raw_block == SymDiff(sent, error)

\* The kinds of block a station may send where the receiver expects one: rds_get_next_offset_for
\* never gives C', which takes the place of C in a group of version B.  (With C' as
\* expected_offset a synchronisation begins, on a block that was just recognised as such.)
Sendable(expected) == IF expected = "C" THEN {"C", "C2"} ELSE {expected}

Init ==
    /\ expected_offset \in Offsets \ {"C2"}
    /\ sent_offset \in Sendable(expected_offset)
    /\ \E data \in Datas : sent = Transmitted(data, sent_offset)
    /\ error \in Errors
    /\ weak \in WeakBits \cup {error}
    /\ stage = "received"
    /\ had_errors = FALSE
    /\ corrected_bits = raw_block
    /\ corrected_bit_count = 0

\* Mutant: a C' is taken wherever it seems to be.
CPrimeAnywhere(offset) == IF offset = "C2" THEN "C2" ELSE expected_offset

\* The kind of block to expect once the syndrome is known: only an undamaged C' tells
\* that this is the third block of version B.
ExpectedAfter(offset) ==
    IF expected_offset = "C" /\ offset = "C2" THEN "C2" ELSE expected_offset

\* The syndrome tells whether this is the block that is expected.
RecogniseBlock ==
    LET offset == OffsetFor(rds_calculate_syndrome(raw_block))
    IN  /\ stage = "received"
        /\ expected_offset' = ExpectedAfter(offset)
        /\ had_errors' = (offset # expected_offset')
        /\ stage' = IF had_errors' THEN "burst" ELSE "taken"
        /\ UNCHANGED <<blockVars, corrected_bits, corrected_bit_count>>

Take(correction, otherwise) ==
    /\ stage' = IF correction.succeeded THEN "taken" ELSE otherwise
    /\ corrected_bits' = correction.corrected_bits
    /\ corrected_bit_count' = correction.corrected_bit_count
    /\ UNCHANGED <<blockVars, expected_offset, had_errors>>

CorrectBurst ==
    /\ stage = "burst"
    /\ Take(rds_correct_burst_errors(raw_block, expected_offset), "soft")

CorrectSoft ==
    /\ stage = "soft"
    /\ Take(rds_correct_soft_errors(raw_block, expected_offset, weak), "lost")

Next == RecogniseBlock \/ CorrectBurst \/ CorrectSoft

Spec == Init /\ [][Next]_vars
-----------------------------------------------------------------------------
(* Properties *)

\* A block is taken without correction only if it arrived as it was sent and as what it
\* was sent, for errors of one or two bits anywhere: the tables of the matrix and the
\* syndromes fit together, and no such error makes a C' of a C, or a C of a C'.
ErrorsAreNoticed ==
    stage = "taken" /\ ~had_errors /\ Cardinality(error) <= 2 =>
        error = {} /\ expected_offset = sent_offset

Burst == {{k} : k \in Bits} \cup {{k, k + 1} : k \in 0..24}

\* A block without an error is taken as it is, C' where C is expected too.  One wrong
\* bit, or two neighbours, are put right wherever they are, in every block but C':
\* with an error in it a C' is not told from a C, and is corrected as one.
BurstIsRepaired ==
    stage \in {"soft", "taken", "lost"} =>
        /\ error = {} => /\ stage = "taken" /\ ~had_errors
                         /\ corrected_bits = sent /\ expected_offset = sent_offset
        /\ error \in Burst /\ sent_offset # "C2" =>
               /\ stage = "taken"
               /\ corrected_bits = sent
               /\ corrected_bit_count = Cardinality(error)

\* Whatever is taken as corrected is a block with the expected offset.
CorrectedIsABlock ==
    stage = "taken" => OffsetFor(rds_calculate_syndrome(corrected_bits)) = expected_offset
=============================================================================
