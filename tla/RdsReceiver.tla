---------------------------- MODULE RdsReceiver -----------------------------
(***************************************************************************)
(* Finding and keeping block synchronisation: src/rds/block_sync.c, and    *)
(* what src/dsp/rds_demod.c does with its results after every bit.         *)
(*                                                                         *)
(* The bits come from a transmitter that sends groups of four blocks, each *)
(* of L bits.  Of the register only the offset its syndrome belongs to     *)
(* matters: noise corrupts blocks, makes a register look like a block      *)
(* ("spurious"), and slips lose or insert a bit.  RdsBlockCode says what   *)
(* the syndromes and corrections of a block are.                           *)
(***************************************************************************)
EXTENDS Integers, Sequences, FiniteSets

CONSTANTS
    L,             \* RDS_BLOCK_LENGTH
    Window,        \* blocks whose errors are remembered
    Tolerated,     \* RDS_MAX_ERRORS_TOLERATED_OVER_50_BLOCKS
    Pulses,        \* size of the sync buffer
    Groups,        \* transmitted groups are numbered modulo this
    MaxNoise       \* bound on corrupted blocks, spurious ones and slips

ASSUME SizesAssumption ==
    /\ {L, Window, Groups} \subseteq Nat \ {0}
    /\ Tolerated \in Nat
    /\ Pulses \in Nat /\ Pulses >= 3

VARIABLES
    bits_until_next_block, is_in_sync, sync_acquired_event, sync_lost_event,
    expected_offset, current_group, ready_group, has_group_ready,
    recent,           \* the recent_block_errors fields
    sync_buffer,      \* the sync_offsets, with their ages instead of their positions
    active_phase,     \* of the demodulator
    consumed,         \* whether the demodulator has seen the results of the last bit
    tx_bit, tx_block, tx_group, tx_third,      \* the transmitter
    corrupted, spurious, slips                 \* noise so far

syncVars == <<bits_until_next_block, is_in_sync, expected_offset, sync_buffer, recent>>
eventVars == <<sync_acquired_event, sync_lost_event, has_group_ready>>
groupVars == <<current_group, ready_group>>
txVars == <<tx_bit, tx_block, tx_group, tx_third>>
noiseVars == <<corrupted, spurious, slips>>
vars == <<syncVars, eventVars, groupVars, active_phase, consumed, txVars, noiseVars>>

Offsets == {"A", "B", "C", "C2", "D"}
Numbers == 0..3

\* The data of a block that is not one of the transmitter's.
Garbage == << >>

NoBlock == [is_received |-> FALSE, had_errors |-> FALSE, data |-> Garbage]
NoGroup == [n \in Numbers |-> NoBlock]
NoErrors == [flags |-> [i \in 0..(Window - 1) |-> FALSE], pos |-> 0, count |-> 0, sum |-> 0]
NoPulse == [offset |-> "invalid", age |-> 0]

Init ==
    /\ bits_until_next_block = 1
    /\ is_in_sync = FALSE
    /\ sync_acquired_event = FALSE /\ sync_lost_event = FALSE
    /\ expected_offset = "invalid"
    /\ current_group = NoGroup /\ ready_group = NoGroup
    /\ has_group_ready = FALSE
    /\ recent = NoErrors
    /\ sync_buffer = [i \in 1..Pulses |-> NoPulse]
    /\ active_phase = -1
    /\ consumed = TRUE
    /\ tx_bit = 0 /\ tx_block \in Numbers /\ tx_group = 0 /\ tx_third = "C"
    /\ corrupted = 0 /\ spurious = 0 /\ slips = 0

-----------------------------------------------------------------------------
(* What the register shows after the next bit *)

\* The offset the transmitter adds to its block n.
TxOffset(n) == IF n = 2 THEN tx_third ELSE <<"A", "B", "C", "D">>[n + 1]

TxData == <<tx_group, tx_block>>

BlockIsComplete == tx_bit = L - 1

\* The last L bits are a block as it was sent; or, with noise, they look like another
\* block or like none.
Signals ==
    (IF BlockIsComplete THEN {[offset |-> TxOffset(tx_block), data |-> TxData]} ELSE {})
    \cup [offset : Offsets \cup {"invalid"}, data : {Garbage}]

Corrupts(s) == BlockIsComplete /\ s.data = Garbage
Misleads(s) == s.data = Garbage /\ s.offset # "invalid"

Noise(s) ==
    /\ corrupted' = corrupted + (IF Corrupts(s) THEN 1 ELSE 0)
    /\ spurious' = spurious + (IF Misleads(s) THEN 1 ELSE 0)
    /\ corrupted' + spurious' + slips <= MaxNoise
    /\ UNCHANGED slips

Transmit ==
    /\ tx_bit' = (tx_bit + 1) % L
    /\ tx_block' = IF BlockIsComplete THEN (tx_block + 1) % 4 ELSE tx_block
    /\ IF BlockIsComplete /\ tx_block = 3
       THEN tx_group' = (tx_group + 1) % Groups /\ tx_third' \in {"C", "C2"}
       ELSE UNCHANGED <<tx_group, tx_third>>

\* The demodulator's clock loses a bit.
LoseBit ==
    /\ corrupted + spurious + slips < MaxNoise
    /\ slips' = slips + 1
    /\ Transmit
    /\ UNCHANGED <<syncVars, eventVars, groupVars, active_phase, consumed, corrupted, spurious>>

-----------------------------------------------------------------------------
(* Helpers *)

\* rds_get_block_number_for_offset
BlockNumber(offset) ==
    CASE offset = "B" -> 1 [] offset \in {"C", "C2"} -> 2 [] offset = "D" -> 3 [] OTHER -> 0

\* rds_get_next_offset_for
NextOffset(offset) ==
    CASE offset = "A" -> "B" [] offset = "B" -> "C" [] offset \in {"C", "C2"} -> "D"
      [] OTHER -> "A"

\* Only differences of positions count, and none beyond six blocks: a pulse twice that old
\* follows nothing and is followed by nothing that is.
MaxAge == 12 * L

Aged(buffer) ==
    [i \in DOMAIN buffer |->
        IF buffer[i].offset = "invalid" \/ buffer[i].age = MaxAge THEN NoPulse
        ELSE [buffer[i] EXCEPT !.age = @ + 1]]

\* Mutant: the distance must be of less than one block.
FollowsNever(pulse, other) ==
    /\ (other.age - pulse.age) % L = 0 /\ (other.age - pulse.age) \div L < 1
    /\ pulse.offset # "invalid" /\ other.offset # "invalid"
    /\ BlockNumber(other.offset) = BlockNumber(pulse.offset)

\* rds_sync_pulse_could_follow
CouldFollow(pulse, other) ==
    LET distance == other.age - pulse.age
    IN  /\ distance % L = 0
        /\ distance \div L <= 6
        /\ pulse.offset # "invalid" /\ other.offset # "invalid"
        /\ (BlockNumber(other.offset) + distance \div L) % 4 = BlockNumber(pulse.offset)

\* rds_sync_buffer_push
Pushed(buffer, offset) == Append(Tail(buffer), [offset |-> offset, age |-> 0])

\* Mutant: two pulses are enough.
IsPairFound(buffer) ==
    \E i \in 1..(Pulses - 1) : CouldFollow(buffer[Pulses], buffer[i])

\* rds_sync_buffer_is_sequence_found
IsSequenceFound(buffer) ==
    \E i \in 1..(Pulses - 2) : \E j \in (i + 1)..(Pulses - 1) :
        CouldFollow(buffer[Pulses], buffer[j]) /\ CouldFollow(buffer[j], buffer[i])

\* Mutant: the flag that leaves the window is still counted.
PushNoForget(r, had_error) ==
    [flags |-> [r.flags EXCEPT ![r.pos] = had_error],
     pos |-> (r.pos + 1) % Window,
     count |-> IF r.count = Window THEN Window ELSE r.count + 1,
     sum |-> r.sum + (IF had_error THEN 1 ELSE 0)]

\* rds_recent_error_push
ErrorPush(r, had_error) ==
    LET forgotten == IF r.count = Window /\ r.flags[r.pos] THEN 1 ELSE 0
    IN  [flags |-> [r.flags EXCEPT ![r.pos] = had_error],
         pos |-> (r.pos + 1) % Window,
         count |-> IF r.count = Window THEN Window ELSE r.count + 1,
         sum |-> r.sum - forgotten + (IF had_error THEN 1 ELSE 0)]

-----------------------------------------------------------------------------
(* rds_block_stream_push_bit_with_confidence *)

\* In sync the register is looked at once per block.
CountBit ==
    /\ bits_until_next_block > 1
    /\ bits_until_next_block' = bits_until_next_block - 1
    /\ sync_buffer' = Aged(sync_buffer)
    /\ UNCHANGED <<is_in_sync, expected_offset, recent, eventVars, groupVars>>

Acquires(offset) == ~is_in_sync /\ offset # "invalid"
                        /\ IsSequenceFound(Pushed(Aged(sync_buffer), offset))

\* The state of the block that is expected, after rds_acquire_sync(offset).
Expected(offset) ==
    LET expected == IF Acquires(offset) THEN offset ELSE expected_offset
    IN  IF expected = "C" /\ offset = "C2" THEN "C2" ELSE expected

ErrorsBefore(offset) == IF Acquires(offset) THEN NoErrors ELSE recent

\* Mutant: the group begun before the sync was lost is continued.
GroupKept(offset) == current_group

GroupBefore(offset) == IF Acquires(offset) THEN NoGroup ELSE current_group

\* The register is looked at and there is no sync.
SearchSync(offset) ==
    /\ ~is_in_sync /\ ~Acquires(offset)
    /\ sync_buffer' = IF offset = "invalid" THEN Aged(sync_buffer)
                      ELSE Pushed(Aged(sync_buffer), offset)
    /\ UNCHANGED <<bits_until_next_block, is_in_sync, expected_offset, recent, eventVars,
                   groupVars>>

\* Too many errors: the sync is lost.
LoseSync(offset, errors) ==
    /\ errors.sum > Tolerated
    /\ is_in_sync' = FALSE
    /\ sync_lost_event' = TRUE
    /\ recent' = NoErrors
    /\ bits_until_next_block' = 1
    /\ expected_offset' = Expected(offset)
    /\ current_group' = GroupBefore(offset)
    /\ UNCHANGED <<ready_group, has_group_ready>>

Taken(had_errors, fixed) == ~had_errors \/ fixed

\* The block is put into its group, if it is as expected or could be corrected, and the
\* group is handed over after its last block.
TakeBlock(offset, errors, fixed, data) ==
    LET expected == Expected(offset)
        had_errors == offset # expected
        block == [is_received |-> TRUE, had_errors |-> had_errors, data |-> data]
        group == IF Taken(had_errors, fixed)
                 THEN [GroupBefore(offset) EXCEPT ![BlockNumber(expected)] = block]
                 ELSE GroupBefore(offset)
    IN  /\ errors.sum <= Tolerated
        /\ is_in_sync' = TRUE
        /\ recent' = errors
        /\ bits_until_next_block' = L
        /\ expected_offset' = NextOffset(expected)
        /\ IF NextOffset(expected) = "A"
           THEN /\ ready_group' = group
                /\ has_group_ready' = TRUE
                /\ current_group' = NoGroup
           ELSE /\ current_group' = group
                /\ UNCHANGED <<ready_group, has_group_ready>>
        /\ UNCHANGED sync_lost_event

\* What a correction makes of an erroneous block, if it succeeds: the block that was
\* sent, or another one.
CorrectedData(offset) ==
    IF BlockIsComplete /\ BlockNumber(Expected(offset)) = tx_block THEN {TxData, Garbage}
    ELSE {Garbage}

\* The register is looked at and there is sync.
FindBlock(s) ==
    LET had_errors == s.offset # Expected(s.offset)
        errors == ErrorPush(ErrorsBefore(s.offset), had_errors)
    IN  /\ is_in_sync \/ Acquires(s.offset)
        /\ sync_buffer' = IF is_in_sync THEN Aged(sync_buffer)
                          ELSE Pushed(Aged(sync_buffer), s.offset)
        /\ sync_acquired_event' = (sync_acquired_event \/ Acquires(s.offset))
        /\ \/ LoseSync(s.offset, errors)
           \/ ~had_errors /\ TakeBlock(s.offset, errors, FALSE, s.data)
           \/ had_errors /\ TakeBlock(s.offset, errors, FALSE, Garbage)
           \/ /\ had_errors
              /\ \E data \in CorrectedData(s.offset) : TakeBlock(s.offset, errors, TRUE, data)

rds_find_block_in_register(s) ==
    /\ bits_until_next_block = 1
    /\ SearchSync(s.offset) \/ FindBlock(s)

PushBit ==
    /\ consumed
    /\ consumed' = FALSE
    /\ Transmit
    /\ \/ CountBit /\ UNCHANGED noiseVars
       \/ \E s \in Signals : rds_find_block_in_register(s) /\ Noise(s)
    /\ UNCHANGED active_phase

\* The demodulator's clock makes up a bit: the register shows no block.
PushExtraBit ==
    /\ consumed
    /\ corrupted + spurious + slips < MaxNoise
    /\ slips' = slips + 1
    /\ consumed' = FALSE
    /\ \/ CountBit
       \/ rds_find_block_in_register([offset |-> "invalid", data |-> Garbage])
    /\ UNCHANGED <<active_phase, txVars, corrupted, spurious>>

-----------------------------------------------------------------------------
(* rds_demod_process_symbol_sample, after the bit *)

\* Mutant: losing the sync is not noticed.
PhaseKept == IF sync_acquired_event /\ active_phase < 0 THEN 0 ELSE active_phase

PhaseAfterEvents ==
    LET acquired == IF sync_acquired_event /\ active_phase < 0 THEN 0 ELSE active_phase
    IN  IF sync_lost_event /\ acquired = 0 THEN -1 ELSE acquired

\* The events and the ready group are consumed; the group goes to the parser.
ConsumeResults ==
    /\ ~consumed
    /\ consumed' = TRUE
    /\ active_phase' = PhaseAfterEvents
    /\ sync_acquired_event' = FALSE
    /\ sync_lost_event' = FALSE
    /\ has_group_ready' = FALSE
    /\ UNCHANGED <<syncVars, groupVars, txVars, noiseVars>>

Next == PushBit \/ PushExtraBit \/ LoseBit \/ ConsumeResults

Spec == Init /\ [][Next]_vars

\* Bits keep coming and are worked off.
Fairness == WF_vars(PushBit) /\ WF_vars(ConsumeResults)

FairSpec == Spec /\ Fairness
-----------------------------------------------------------------------------
(* Properties *)

Block == [is_received : BOOLEAN, had_errors : BOOLEAN,
          data : {Garbage} \cup ((0..(Groups - 1)) \X Numbers)]

Pulse == [offset : Offsets \cup {"invalid"}, age : 0..MaxAge]

TransmitterTypeOK ==
    /\ tx_bit \in 0..(L - 1) /\ tx_block \in Numbers
    /\ tx_group \in 0..(Groups - 1) /\ tx_third \in {"C", "C2"}

TypeOK ==
    /\ bits_until_next_block \in 1..L
    /\ is_in_sync \in BOOLEAN
    /\ sync_acquired_event \in BOOLEAN /\ sync_lost_event \in BOOLEAN
    /\ has_group_ready \in BOOLEAN
    /\ expected_offset \in Offsets \cup {"invalid"}
    /\ current_group \in [Numbers -> Block] /\ ready_group \in [Numbers -> Block]
    /\ recent.flags \in [0..(Window - 1) -> BOOLEAN]
    /\ recent.pos \in 0..(Window - 1)
    /\ recent.count \in 0..Window
    /\ sync_buffer \in [1..Pulses -> Pulse]
    /\ active_phase \in {-1, 0}
    /\ consumed \in BOOLEAN
    /\ TransmitterTypeOK

\* The running sum is the number of errors among the last blocks, through wrap-around of
\* the window and clearing.
ErrorSumAgrees ==
    /\ recent.sum = Cardinality({i \in 0..(Window - 1) : recent.flags[i]})
    /\ recent.count < Window => recent.pos = recent.count
    /\ \A i \in 0..(Window - 1) : i >= recent.count => ~recent.flags[i]

\* Between two bits the demodulator's active phase says whether there is sync: no event
\* is lost or applied in the wrong order.
PhaseFollowsSync == consumed => (active_phase = 0 <=> is_in_sync)

\* The events that are waiting are those that lead the active phase there, and sync is
\* only lost when more blocks were wrong than are tolerated.
EventsLeadToSync ==
    /\ consumed => ~sync_acquired_event /\ ~sync_lost_event /\ ~has_group_ready
    /\ PhaseAfterEvents = 0 <=> is_in_sync
    /\ is_in_sync => expected_offset # "invalid" /\ recent.sum <= Tolerated
    /\ ~is_in_sync => bits_until_next_block = 1

\* Inductive: the receiver's bookkeeping of errors, events and groups agrees with its sync
\* and with the demodulator, after every bit and whatever the bits are.
ReceiverInvariant == TypeOK /\ ErrorSumAgrees /\ EventsLeadToSync /\ PhaseFollowsSync

\* The receiver looks at the register when a block is complete, for that block.
InStep ==
    /\ is_in_sync
    /\ bits_until_next_block = L - tx_bit
    /\ BlockNumber(expected_offset) = tx_block

\* While the bit clock is right, sync is acquired in step with the transmitter, unless noise
\* has looked like a block three times: whatever pulses are left over from earlier, and in
\* whatever order they came, two are not enough.  (After a slip the pulses of before, true
\* ones, stand for another clock.)
AcquiresInStep ==
    [][~is_in_sync /\ is_in_sync' /\ slips' = 0 /\ spurious' < 3 => InStep']_vars

\* The blocks of a group that were received without an error were sent as one group, each
\* at its place.
IsWhole(group) ==
    \E g \in 0..(Groups - 1) : \A n \in Numbers :
        LET block == group[n]
        IN  block.is_received /\ ~block.had_errors /\ block.data # Garbage =>
                block.data = <<g, n>>

\* A group that is handed over is never put together from two, across losses of sync and
\* slips, until as many bits have slipped as a group has: the next group's blocks then
\* come where those of this one were expected.
GroupsAreWhole == has_group_ready /\ slips < 4 * L => IsWhole(ready_group)

\* When the noise is over, the receiver gets in step with the transmitter for good, even
\* when a slip has left it in sync with a wrong clock.
Recovers == <>[]InStep
=============================================================================
