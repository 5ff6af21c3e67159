------------------------- MODULE RdsReceiverProofs --------------------------
(***************************************************************************)
(* Theorems about RdsReceiver, for every length of a block, of the error   *)
(* window and of the pulse buffer, and for any noise: the running error    *)
(* sum, the events and the demodulator's phase agree with the sync after   *)
(* every bit, groups are handed over as they were sent, and sync is        *)
(* acquired in step with the transmitter.                                  *)
(***************************************************************************)
EXTENDS RdsReceiver, FiniteSetTheorems, SequenceTheorems, TLAPS

Window0 == 0..(Window - 1)

\* What TypeOK and ErrorSumAgrees say of the error window.
WindowIsRight(r) ==
    /\ r.flags \in [Window0 -> BOOLEAN]
    /\ r.pos \in Window0
    /\ r.count \in 0..Window
    /\ r.sum = Cardinality({i \in Window0 : r.flags[i]})
    /\ r.count < Window => r.pos = r.count
    /\ \A i \in Window0 : i >= r.count => ~r.flags[i]

LEMMA NoErrorsIsRight == WindowIsRight(NoErrors)
<1>1. {i \in Window0 : NoErrors.flags[i]} = {}
  BY DEF NoErrors, Window0
<1>2. Cardinality({i \in Window0 : NoErrors.flags[i]}) = 0
  BY <1>1, FS_EmptySet
<1>. QED
  BY <1>2, SizesAssumption DEF WindowIsRight, NoErrors, Window0

\* Pushing a flag takes off the one it replaces, and adds the new one.
LEMMA ErrorPushIsRight ==
    ASSUME NEW r, WindowIsRight(r), NEW had_error \in BOOLEAN
    PROVE  /\ WindowIsRight(ErrorPush(r, had_error))
           /\ ErrorPush(r, had_error).sum \in Nat
<1>. DEFINE new == ErrorPush(r, had_error)
            before == {i \in Window0 : r.flags[i]}
            after == {i \in Window0 : new.flags[i]}
<1>1. /\ Window \in Nat \ {0} /\ IsFiniteSet(Window0)
      /\ r.pos \in Window0 /\ r.flags \in [Window0 -> BOOLEAN]
      /\ r.count \in 0..Window
  <2>1. Window \in Nat \ {0} /\ Window - 1 \in Int
    BY SizesAssumption
  <2>2. IsFiniteSet(Window0)
    BY <2>1, FS_Interval DEF Window0
  <2>. QED
    BY <2>1, <2>2 DEF WindowIsRight
<1>2. IsFiniteSet(before) /\ r.sum = Cardinality(before)
  <2>1. before \in SUBSET Window0
    OBVIOUS
  <2>. QED
    BY <1>1, <2>1, FS_Subset DEF WindowIsRight
<1>3. /\ new.flags = [r.flags EXCEPT ![r.pos] = had_error]
      /\ new.pos = (r.pos + 1) % Window
      /\ new.count = (IF r.count = Window THEN Window ELSE r.count + 1)
      /\ new.sum = r.sum - (IF r.count = Window /\ r.flags[r.pos] THEN 1 ELSE 0)
                       + (IF had_error THEN 1 ELSE 0)
  BY DEF ErrorPush
<1>4. r.flags[r.pos] => r.count = Window
  BY <1>1 DEF WindowIsRight, Window0
<1>5. after = IF had_error THEN before \cup {r.pos} ELSE before \ {r.pos}
  BY <1>1, <1>3, Zenon
<1>6. Cardinality(before) \in Nat
  BY <1>2, FS_CardinalityType
<1>7. /\ new.sum = Cardinality(after)
      /\ IsFiniteSet(after)
  <2>1. /\ IsFiniteSet(before \cup {r.pos})
        /\ Cardinality(before \cup {r.pos})
              = IF r.pos \in before THEN Cardinality(before) ELSE Cardinality(before) + 1
    BY <1>2, FS_AddElement
  <2>2. /\ IsFiniteSet(before \ {r.pos})
        /\ Cardinality(before \ {r.pos})
              = IF r.pos \in before THEN Cardinality(before) - 1 ELSE Cardinality(before)
    BY <1>2, FS_RemoveElement
  <2>3. r.pos \in before <=> r.flags[r.pos]
    BY <1>1
  <2>. HIDE DEF before, after, new
  <2>4. CASE had_error
    BY <2>4, <2>1, <2>3, <1>2, <1>3, <1>4, <1>5, <1>6
  <2>5. CASE ~had_error
    BY <2>5, <2>2, <2>3, <1>2, <1>3, <1>4, <1>5, <1>6
  <2>. QED
    BY <2>4, <2>5
<1>8. new.sum \in Nat
  BY <1>7, FS_CardinalityType
<1>9. new.pos \in Window0 /\ new.count \in 0..Window
  BY <1>1, <1>3 DEF Window0
<1>10. new.count < Window => new.pos = new.count
  <2>. SUFFICES ASSUME new.count < Window PROVE new.pos = new.count
    OBVIOUS
  <2>1. r.count # Window /\ new.count = r.count + 1 /\ r.count + 1 < Window
    BY <1>1, <1>3
  <2>2. r.pos = r.count
    BY <1>1, <2>1 DEF WindowIsRight
  <2>3. (r.count + 1) % Window = r.count + 1
    BY <1>1, <2>1
  <2>. QED
    BY <1>3, <2>1, <2>2, <2>3
<1>11. \A i \in Window0 : i >= new.count => ~new.flags[i]
  <2>. SUFFICES ASSUME NEW i \in Window0, i >= new.count
                PROVE  ~new.flags[i]
    OBVIOUS
  <2>1. r.count # Window /\ i >= r.count + 1
    BY <1>1, <1>3 DEF Window0
  <2>2. r.pos = r.count /\ ~r.flags[i]
    BY <1>1, <2>1 DEF WindowIsRight, Window0
  <2>. QED
    BY <1>1, <1>3, <2>1, <2>2 DEF Window0
<1>. QED
  BY <1>1, <1>3, <1>7, <1>8, <1>9, <1>10, <1>11 DEF WindowIsRight

LEMMA WindowInvariant ==
    ASSUME TypeOK, ErrorSumAgrees
    PROVE  WindowIsRight(recent)
BY DEF TypeOK, ErrorSumAgrees, WindowIsRight, Window0

-----------------------------------------------------------------------------
(* The pulse buffer *)

LEMMA BufferIsASequence ==
    ASSUME NEW buffer \in [1..Pulses -> Pulse]
    PROVE  buffer \in Seq(Pulse) /\ Len(buffer) = Pulses
BY SizesAssumption, SeqDef

LEMMA NoPulseType == MaxAge \in Nat /\ NoPulse \in Pulse
<1>1. MaxAge \in Nat
  BY SizesAssumption DEF MaxAge
<1>. QED
  BY <1>1 DEF NoPulse, Pulse, Offsets

LEMMA AgedKeepsType ==
    ASSUME NEW buffer \in [1..Pulses -> Pulse]
    PROVE  Aged(buffer) \in [1..Pulses -> Pulse]
<1>1. MaxAge \in Nat
  BY NoPulseType
<1>2. NoPulse \in Pulse
  BY NoPulseType
<1>3. ASSUME NEW i \in 1..Pulses, buffer[i].age # MaxAge
      PROVE  [buffer[i] EXCEPT !.age = @ + 1] \in Pulse
  <2>1. buffer[i] \in Pulse
    OBVIOUS
  <2>. QED
    BY <1>1, <1>3, <2>1 DEF Pulse
<1>. QED
  BY <1>2, <1>3 DEF Aged

LEMMA PushedKeepsType ==
    ASSUME NEW buffer \in [1..Pulses -> Pulse], NEW offset \in Offsets \cup {"invalid"}
    PROVE  Pushed(buffer, offset) \in [1..Pulses -> Pulse]
<1>. DEFINE new == [offset |-> offset, age |-> 0]
<1>1. buffer \in Seq(Pulse) /\ Len(buffer) = Pulses /\ buffer # << >>
  BY BufferIsASequence, SizesAssumption
<1>2. new \in Pulse
  BY SizesAssumption DEF Pulse, MaxAge
<1>3. Tail(buffer) \in Seq(Pulse) /\ Len(Tail(buffer)) = Pulses - 1
  BY <1>1, HeadTailProperties
<1>. HIDE DEF new
<1>4. Append(Tail(buffer), new) \in Seq(Pulse) /\ Len(Append(Tail(buffer), new)) = Pulses
  BY <1>2, <1>3, AppendProperties, SizesAssumption
<1>5. Append(Tail(buffer), new) \in [1..Pulses -> Pulse]
  BY <1>4, LenProperties
<1>. QED
  BY <1>5 DEF Pushed, new

-----------------------------------------------------------------------------
(* The steps of the receiver.  Transmission and noise touch none of it.    *)

LEMMA InitReceiver == Init => ReceiverInvariant
<1>. SUFFICES ASSUME Init PROVE ReceiverInvariant
  OBVIOUS
<1>1. WindowIsRight(recent)
  BY NoErrorsIsRight DEF Init
<1>2. NoGroup \in [Numbers -> Block]
  BY DEF NoGroup, NoBlock, Block
<1>3. TypeOK
  <2>1. L \in Nat \ {0} /\ Groups \in Nat \ {0}
    BY SizesAssumption
  <2>2. TransmitterTypeOK
    BY <2>1 DEF Init, TransmitterTypeOK
  <2>3. sync_buffer \in [1..Pulses -> Pulse]
    BY NoPulseType DEF Init
  <2>4. bits_until_next_block \in 1..L
    BY <2>1 DEF Init
  <2>5. /\ recent.flags \in [0..(Window - 1) -> BOOLEAN]
        /\ recent.pos \in 0..(Window - 1)
        /\ recent.count \in 0..Window
    BY <1>1 DEF WindowIsRight, Window0
  <2>. QED
    BY <1>2, <2>2, <2>3, <2>4, <2>5 DEF Init, TypeOK
<1>4. ErrorSumAgrees
  BY <1>1 DEF WindowIsRight, Window0, ErrorSumAgrees
<1>. QED
  BY <1>3, <1>4 DEF Init, ReceiverInvariant, EventsLeadToSync, PhaseFollowsSync, PhaseAfterEvents

LEMMA TransmitKeepsType ==
    ASSUME TransmitterTypeOK, Transmit
    PROVE  TransmitterTypeOK'
BY SizesAssumption DEF TransmitterTypeOK, Transmit, Numbers

\* What a step of the receiver leaves behind, between the bit and the consumption of its
\* results.
ReceiverVars == <<syncVars, eventVars, groupVars, active_phase>>

\* The part of the invariant that is about ReceiverVars, before a bit.
BetweenBits ==
    /\ consumed /\ TypeOK /\ ErrorSumAgrees
    /\ ~sync_acquired_event /\ ~sync_lost_event /\ ~has_group_ready
    /\ active_phase = 0 <=> is_in_sync
    /\ is_in_sync => expected_offset # "invalid" /\ recent.sum <= Tolerated
    /\ ~is_in_sync => bits_until_next_block = 1

\* The part that is about them, after it.
AfterBit ==
    /\ bits_until_next_block \in 1..L
    /\ is_in_sync \in BOOLEAN
    /\ sync_acquired_event \in BOOLEAN /\ sync_lost_event \in BOOLEAN
    /\ has_group_ready \in BOOLEAN
    /\ expected_offset \in Offsets \cup {"invalid"}
    /\ current_group \in [Numbers -> Block] /\ ready_group \in [Numbers -> Block]
    /\ WindowIsRight(recent)
    /\ sync_buffer \in [1..Pulses -> Pulse]
    /\ PhaseAfterEvents = 0 <=> is_in_sync
    /\ is_in_sync => expected_offset # "invalid" /\ recent.sum <= Tolerated
    /\ ~is_in_sync => bits_until_next_block = 1

LEMMA InvariantBetweenBits == ReceiverInvariant /\ consumed => BetweenBits
BY DEF ReceiverInvariant, BetweenBits, EventsLeadToSync, PhaseFollowsSync

LEMMA InvariantAfterBit ==
    ASSUME AfterBit', consumed' = FALSE, active_phase' \in {-1, 0}, TransmitterTypeOK'
    PROVE  ReceiverInvariant'
BY DEF AfterBit, ReceiverInvariant, TypeOK, ErrorSumAgrees, EventsLeadToSync,
   PhaseFollowsSync, WindowIsRight, Window0

LEMMA CountBitStep ==
    ASSUME BetweenBits, CountBit, UNCHANGED active_phase
    PROVE  AfterBit'
<1>1. WindowIsRight(recent)
  BY WindowInvariant DEF BetweenBits
<1>2. sync_buffer' \in [1..Pulses -> Pulse]
  BY AgedKeepsType DEF CountBit, BetweenBits, TypeOK
<1>3. bits_until_next_block' \in 1..L
  BY SizesAssumption DEF CountBit, BetweenBits, TypeOK
<1>4. ~is_in_sync => FALSE
  BY SizesAssumption DEF CountBit, BetweenBits
<1>. QED
  BY <1>1, <1>2, <1>3, <1>4
  DEF CountBit, BetweenBits, AfterBit, TypeOK, PhaseAfterEvents, eventVars, groupVars

LEMMA SearchStep ==
    ASSUME BetweenBits, NEW offset \in Offsets \cup {"invalid"}, SearchSync(offset),
           UNCHANGED active_phase
    PROVE  AfterBit'
<1>1. WindowIsRight(recent)
  BY WindowInvariant DEF BetweenBits
<1>2. Aged(sync_buffer) \in [1..Pulses -> Pulse]
  BY AgedKeepsType DEF BetweenBits, TypeOK
<1>3. sync_buffer' \in [1..Pulses -> Pulse]
  BY <1>2, PushedKeepsType DEF SearchSync
<1>. QED
  BY <1>1, <1>3
  DEF SearchSync, BetweenBits, AfterBit, TypeOK, PhaseAfterEvents, eventVars, groupVars

LEMMA BlockNumberType == \A offset \in Offsets : BlockNumber(offset) \in Numbers
BY DEF Offsets, BlockNumber, Numbers

LEMMA NextOffsetType == \A offset \in Offsets : NextOffset(offset) \in Offsets
BY DEF Offsets, NextOffset

LEMMA TakeBlockStep ==
    ASSUME NEW offset, NEW errors, NEW fixed \in BOOLEAN,
           NEW data \in {Garbage} \cup ((0..(Groups - 1)) \X Numbers),
           Expected(offset) \in Offsets, GroupBefore(offset) \in [Numbers -> Block],
           ready_group \in [Numbers -> Block], has_group_ready \in BOOLEAN,
           TakeBlock(offset, errors, fixed, data)
    PROVE  /\ current_group' \in [Numbers -> Block] /\ ready_group' \in [Numbers -> Block]
           /\ has_group_ready' \in BOOLEAN
           /\ is_in_sync' = TRUE /\ errors.sum <= Tolerated /\ recent' = errors
           /\ bits_until_next_block' = L
           /\ expected_offset' \in Offsets
           /\ sync_lost_event' = sync_lost_event
<1>. DEFINE block == [is_received |-> TRUE, had_errors |-> offset # Expected(offset),
                      data |-> data]
            group == IF Taken(offset # Expected(offset), fixed)
                     THEN [GroupBefore(offset) EXCEPT ![BlockNumber(Expected(offset))] = block]
                     ELSE GroupBefore(offset)
<1>1. block \in Block
  BY DEF Block
<1>2. group \in [Numbers -> Block]
  BY <1>1, BlockNumberType
<1>3. NoGroup \in [Numbers -> Block]
  BY DEF NoGroup, NoBlock, Block
<1>4. /\ errors.sum <= Tolerated
      /\ is_in_sync' = TRUE /\ recent' = errors /\ bits_until_next_block' = L
      /\ expected_offset' = NextOffset(Expected(offset))
      /\ \/ ready_group' = group /\ has_group_ready' = TRUE /\ current_group' = NoGroup
         \/ current_group' = group /\ UNCHANGED <<ready_group, has_group_ready>>
      /\ UNCHANGED sync_lost_event
  BY Zenon DEF TakeBlock
<1>. HIDE DEF group
<1>5. expected_offset' \in Offsets
  BY <1>4, NextOffsetType
<1>. QED
  BY <1>2, <1>3, <1>4, <1>5

\* A register that is looked at while there is sync, or that acquires it.
LEMMA FindStep ==
    ASSUME BetweenBits, NEW s \in Signals, FindBlock(s), UNCHANGED active_phase
    PROVE  AfterBit'
<1>. DEFINE offset == s.offset
            had_errors == offset # Expected(offset)
            errors == ErrorPush(ErrorsBefore(offset), had_errors)
<1>1. /\ offset \in Offsets \cup {"invalid"}
      /\ s.data \in {Garbage} \cup ((0..(Groups - 1)) \X Numbers)
      /\ TxData \in (0..(Groups - 1)) \X Numbers
  BY DEF Signals, TxOffset, TxData, BetweenBits, TypeOK, TransmitterTypeOK, Offsets, Numbers
<1>2. WindowIsRight(errors) /\ errors.sum \in Nat
  <2>1. WindowIsRight(ErrorsBefore(offset))
    BY WindowInvariant, NoErrorsIsRight DEF ErrorsBefore, BetweenBits
  <2>. QED
    BY <2>1, ErrorPushIsRight
<1>3. Aged(sync_buffer) \in [1..Pulses -> Pulse]
  BY AgedKeepsType DEF BetweenBits, TypeOK
<1>4. sync_buffer' \in [1..Pulses -> Pulse]
  BY <1>1, <1>3, PushedKeepsType DEF FindBlock
<1>5. Expected(offset) \in Offsets
  BY <1>1 DEF FindBlock, Expected, Acquires, BetweenBits, TypeOK, Offsets
<1>6. GroupBefore(offset) \in [Numbers -> Block]
  <2>1. NoGroup \in [Numbers -> Block]
    BY DEF NoGroup, NoBlock, Block
  <2>. QED
    BY <2>1 DEF GroupBefore, BetweenBits, TypeOK
<1>7. /\ is_in_sync \/ Acquires(offset)
      /\ sync_acquired_event' = (sync_acquired_event \/ Acquires(offset))
  BY DEF FindBlock
<1>8. active_phase' = 0 \/ sync_acquired_event'
  BY <1>7 DEF BetweenBits
<1>8a. active_phase' \in {-1, 0} /\ sync_acquired_event' \in BOOLEAN
  BY <1>7 DEF BetweenBits, TypeOK, Acquires
<1>9. CASE LoseSync(offset, errors)
  <2>1. /\ is_in_sync' = FALSE /\ sync_lost_event' = TRUE /\ recent' = NoErrors
        /\ bits_until_next_block' = 1 /\ expected_offset' = Expected(offset)
        /\ current_group' = GroupBefore(offset)
        /\ UNCHANGED <<ready_group, has_group_ready>>
    BY <1>9 DEF LoseSync
  <2>2. PhaseAfterEvents' = -1
    BY <1>8, <1>8a, <2>1 DEF PhaseAfterEvents
  <2>3. WindowIsRight(recent)'
    BY <2>1, NoErrorsIsRight DEF WindowIsRight, Window0
  <2>4. 1 \in 1..L
    BY SizesAssumption
  <2>5. has_group_ready' \in BOOLEAN /\ ready_group' \in [Numbers -> Block]
    BY <2>1 DEF BetweenBits, TypeOK
  <2>6. expected_offset' \in Offsets \cup {"invalid"} /\ current_group' \in [Numbers -> Block]
    BY <1>5, <1>6, <2>1
  <2>7. ~(PhaseAfterEvents' = 0)
    BY <2>2
  <2>. QED
    BY <1>4, <1>8a, <2>1, <2>3, <2>4, <2>5, <2>6, <2>7 DEF AfterBit
<1>10. CASE \E fixed \in BOOLEAN, data \in {Garbage} \cup ((0..(Groups - 1)) \X Numbers) :
               TakeBlock(offset, errors, fixed, data)
  <2>. PICK fixed \in BOOLEAN, data \in {Garbage} \cup ((0..(Groups - 1)) \X Numbers) :
               TakeBlock(offset, errors, fixed, data)
    BY <1>10
  <2>. HIDE DEF errors
  <2>1. /\ current_group' \in [Numbers -> Block] /\ ready_group' \in [Numbers -> Block]
        /\ has_group_ready' \in BOOLEAN
        /\ is_in_sync' = TRUE /\ errors.sum <= Tolerated /\ recent' = errors
        /\ bits_until_next_block' = L
        /\ expected_offset' \in Offsets
        /\ sync_lost_event' = sync_lost_event
    BY <1>5, <1>6, TakeBlockStep DEF BetweenBits, TypeOK
  <2>2. PhaseAfterEvents' = 0
    BY <1>8, <1>8a, <2>1 DEF PhaseAfterEvents, BetweenBits
  <2>3. WindowIsRight(recent)'
    BY <1>2, <2>1 DEF WindowIsRight, Window0
  <2>. QED
    BY <1>4, <1>8a, <2>1, <2>2, <2>3, SizesAssumption DEF AfterBit, BetweenBits, TypeOK, Offsets
<1>11. \/ LoseSync(offset, errors)
       \/ \E fixed \in BOOLEAN, data \in {Garbage} \cup ((0..(Groups - 1)) \X Numbers) :
             TakeBlock(offset, errors, fixed, data)
  <2>1. CorrectedData(offset) \subseteq {Garbage} \cup ((0..(Groups - 1)) \X Numbers)
    BY <1>1 DEF CorrectedData
  <2>. QED
    BY <1>1, <2>1, Zenon DEF FindBlock
<1>. QED
  BY <1>9, <1>10, <1>11

LEMMA FindInRegister ==
    ASSUME BetweenBits, NEW s \in Signals, rds_find_block_in_register(s),
           UNCHANGED active_phase
    PROVE  AfterBit'
<1>1. s.offset \in Offsets \cup {"invalid"}
  BY DEF Signals, TxOffset, BetweenBits, TypeOK, TransmitterTypeOK, Offsets, Numbers
<1>. QED
  BY <1>1, SearchStep, FindStep DEF rds_find_block_in_register

LEMMA NextReceiver ==
    ASSUME ReceiverInvariant, [Next]_vars
    PROVE  ReceiverInvariant'
<1>1. CASE PushBit
  <2>1. BetweenBits
    BY <1>1, InvariantBetweenBits DEF PushBit
  <2>2. AfterBit'
    BY <1>1, <2>1, CountBitStep, FindInRegister DEF PushBit
  <2>3. TransmitterTypeOK'
    BY <1>1, TransmitKeepsType DEF PushBit, ReceiverInvariant, TypeOK
  <2>4. consumed' = FALSE /\ active_phase' \in {-1, 0}
    BY <1>1 DEF PushBit, ReceiverInvariant, TypeOK
  <2>. QED
    BY <2>2, <2>3, <2>4, InvariantAfterBit
<1>2. CASE PushExtraBit
  <2>1. BetweenBits
    BY <1>2, InvariantBetweenBits DEF PushExtraBit
  <2>2. [offset |-> "invalid", data |-> Garbage] \in Signals
    BY DEF Signals
  <2>3. AfterBit'
    BY <1>2, <2>1, <2>2, CountBitStep, FindInRegister DEF PushExtraBit
  <2>4. TransmitterTypeOK'
    BY <1>2 DEF PushExtraBit, txVars, ReceiverInvariant, TypeOK, TransmitterTypeOK
  <2>5. consumed' = FALSE /\ active_phase' \in {-1, 0}
    BY <1>2 DEF PushExtraBit, ReceiverInvariant, TypeOK
  <2>. QED
    BY <2>3, <2>4, <2>5, InvariantAfterBit
<1>3. CASE LoseBit
  <2>1. TransmitterTypeOK'
    BY <1>3, TransmitKeepsType DEF LoseBit, ReceiverInvariant, TypeOK
  <2>. QED
    BY <1>3, <2>1 DEF LoseBit, ReceiverInvariant, TypeOK, ErrorSumAgrees, EventsLeadToSync,
       PhaseFollowsSync, PhaseAfterEvents, syncVars, eventVars, groupVars
<1>4. CASE ConsumeResults
  <2>1. active_phase' \in {-1, 0} /\ (active_phase' = 0 <=> is_in_sync')
    BY <1>4 DEF ConsumeResults, ReceiverInvariant, EventsLeadToSync, PhaseAfterEvents, syncVars,
       TypeOK
  <2>. QED
    BY <1>4, <2>1 DEF ConsumeResults, ReceiverInvariant, TypeOK, TransmitterTypeOK, ErrorSumAgrees,
       EventsLeadToSync, PhaseFollowsSync, PhaseAfterEvents, syncVars, eventVars, groupVars,
       txVars, noiseVars
<1>5. CASE UNCHANGED vars
  BY <1>5 DEF vars, ReceiverInvariant, TypeOK, TransmitterTypeOK, ErrorSumAgrees,
     EventsLeadToSync, PhaseFollowsSync, PhaseAfterEvents, syncVars, eventVars, groupVars,
     txVars, noiseVars
<1>. QED
  BY <1>1, <1>2, <1>3, <1>4, <1>5 DEF Next

-----------------------------------------------------------------------------
\* ReceiverInvariant is inductive: for blocks, windows and buffers of any size, and under
\* any noise, the error sum, the events and the demodulator's phase agree with the sync.
THEOREM ReceiverIsConsistent == Spec => []ReceiverInvariant
BY InitReceiver, NextReceiver, PTL DEF Spec

\* The running sum never drifts from the errors of the window.
THEOREM ErrorSumIsExact == Spec => []ErrorSumAgrees
<1>1. ReceiverInvariant => ErrorSumAgrees
  BY DEF ReceiverInvariant
<1>. QED
  BY <1>1, ReceiverIsConsistent, PTL

\* The demodulator decodes with a phase exactly while there is sync.
THEOREM PhaseIsThatOfTheSync == Spec => []PhaseFollowsSync
<1>1. ReceiverInvariant => PhaseFollowsSync
  BY DEF ReceiverInvariant
<1>. QED
  BY <1>1, ReceiverIsConsistent, PTL

-----------------------------------------------------------------------------
(***************************************************************************)
(* Groups are whole.  A receiver in sync has the place Expects in a group, *)
(* the transmitter the place Sends.  Once a block of the group is in, the  *)
(* transmitter is drift bits further than the receiver, which only slips   *)
(* change.  A further block can only be received without an error where    *)
(* it is expected, so that the drift is a number of whole groups, and none *)
(* when fewer bits have slipped than a group has.                          *)
(***************************************************************************)
Expects == BlockNumber(expected_offset) * L + L - bits_until_next_block
Sends == tx_block * L + tx_bit

IsClean(block) == block.is_received /\ ~block.had_errors /\ block.data # Garbage

\* The clean blocks are those of transmitted group g.
IsOf(group, g) == \A n \in Numbers : IsClean(group[n]) => group[n].data = <<g, n>>

After(g) == (g + 1) % Groups

\* Place sends of the transmitted group t is place ahead of group g, if that is in it, or
\* in the group before it or after it.
IsAt(t, sends, g, ahead) ==
    \/ t = g /\ sends = ahead
    \/ t = After(g) /\ sends = ahead - 4 * L
    \/ g = After(t) /\ sends = ahead + 4 * L

\* The clean blocks, if there are any, are of a group that the transmitter is in, when the
\* receiver is at the given place, but for what has slipped.
WholeAt(group, place, t, sends, slipped) ==
    \/ \A n \in Numbers : ~IsClean(group[n])
    \/ \E g \in 0..(Groups - 1), drift \in (-slipped)..slipped :
          IsOf(group, g) /\ IsAt(t, sends, g, place + drift)

CurrentIsWhole ==
    is_in_sync /\ slips < 4 * L => WholeAt(current_group, Expects, tx_group, Sends, slips)

WholeInvariant ==
    /\ slips \in Nat
    /\ CurrentIsWhole
    /\ slips < 4 * L => IsWhole(ready_group)

LEMMA WholeIsOfOne == \A group : IsWhole(group) <=> \E g \in 0..(Groups - 1) : IsOf(group, g)
BY DEF IsWhole, IsOf, IsClean

LEMMA NoGroupIsWhole == (\A n \in Numbers : ~IsClean(NoGroup[n])) /\ IsWhole(NoGroup)
<1>1. \A n \in Numbers : ~IsClean(NoGroup[n])
  BY DEF NoGroup, NoBlock, IsClean
<1>2. 0 \in 0..(Groups - 1)
  BY SizesAssumption
<1>. QED
  BY <1>1, <1>2, WholeIsOfOne DEF IsOf

\* The places in a group, by arithmetic with the four blocks.
LEMMA Places ==
    /\ L \in Nat \ {0}
    /\ \A n \in Numbers : n * L \in Nat /\ n * L + L <= 4 * L /\ (n + 1) * L = n * L + L
    /\ 0 * L = 0 /\ 3 * L + L = 4 * L
<1>1. L \in Nat \ {0}
  BY SizesAssumption
<1>2. \A n \in {0, 1, 2, 3} : n * L \in Nat /\ n * L + L <= 4 * L /\ (n + 1) * L = n * L + L
  BY <1>1
<1>3. Numbers = {0, 1, 2, 3}
  BY DEF Numbers
<1>. QED
  BY <1>1, <1>2, <1>3

LEMMA SamePlace ==
    ASSUME NEW m \in Numbers, NEW n \in Numbers, NEW s \in 0..(L - 1), NEW t \in 0..(L - 1),
           m * L + s = n * L + t
    PROVE  m = n /\ s = t
<1>1. L \in Nat \ {0}
  BY SizesAssumption
<1>2. ASSUME NEW a \in Numbers, NEW b \in Numbers, a < b
      PROVE  a * L + L <= b * L
  <2>1. (a + 1) * L <= b * L
    BY <1>1, <1>2 DEF Numbers
  <2>. QED  BY <1>1, <2>1 DEF Numbers
<1>3. ~(m < n)
  BY <1>1, <1>2, Places
<1>4. ~(n < m)
  BY <1>1, <1>2, Places
<1>5. m = n
  BY <1>3, <1>4 DEF Numbers
<1>. QED  BY <1>1, <1>5, Places

\* One more bit is sent.
LEMMA NextPlace ==
    ASSUME NEW t, NEW sends \in 0..(4 * L - 1), NEW g, NEW ahead \in Int, ahead < 8 * L - 1,
           IsAt(t, sends, g, ahead)
    PROVE  IF sends = 4 * L - 1 THEN IsAt(After(t), 0, g, ahead + 1)
                                ELSE IsAt(t, sends + 1, g, ahead + 1)
BY Places DEF IsAt

LEMMA TransmitMoves ==
    ASSUME TransmitterTypeOK, Transmit
    PROVE  /\ Sends \in 0..(4 * L - 1)
           /\ IF Sends = 4 * L - 1 THEN tx_group' = After(tx_group) /\ Sends' = 0
                                   ELSE tx_group' = tx_group /\ Sends' = Sends + 1
<1>1. /\ L \in Nat \ {0}
      /\ tx_bit \in 0..(L - 1) /\ tx_block \in Numbers
      /\ tx_block * L \in Nat /\ tx_block * L + L <= 4 * L /\ (tx_block + 1) * L = tx_block * L + L
  BY Places DEF TransmitterTypeOK
<1>2. Sends \in 0..(4 * L - 1)
  BY <1>1 DEF Sends
<1>3. CASE ~BlockIsComplete
  <2>1. tx_bit + 1 < L /\ tx_bit' = tx_bit + 1 /\ tx_block' = tx_block /\ tx_group' = tx_group
    <3>1. tx_bit + 1 \in 0..(L - 1)
      BY <1>1, <1>3 DEF BlockIsComplete
    <3>2. (tx_bit + 1) % L = tx_bit + 1
      BY <1>1, <3>1
    <3>. QED  BY <1>1, <1>3, <3>1, <3>2 DEF Transmit
  <2>2. Sends # 4 * L - 1 /\ Sends' = Sends + 1
    BY <1>1, <2>1 DEF Sends
  <2>. QED  BY <1>2, <2>1, <2>2
<1>4. CASE BlockIsComplete /\ tx_block # 3
  <2>1. tx_bit' = 0 /\ tx_block' = tx_block + 1 /\ tx_group' = tx_group /\ tx_bit = L - 1
    BY <1>1, <1>4 DEF Transmit, BlockIsComplete, Numbers
  <2>2. tx_block + 1 \in Numbers
    BY <1>1, <1>4 DEF Numbers
  <2>3. Sends' = Sends + 1
    BY <1>1, <2>1 DEF Sends
  <2>4. Sends # 4 * L - 1
    BY <1>1, <2>1, <2>2, Places DEF Sends
  <2>. QED  BY <1>2, <2>1, <2>3, <2>4
<1>5. CASE BlockIsComplete /\ tx_block = 3
  <2>1. tx_bit' = 0 /\ tx_block' = 0 /\ tx_group' = After(tx_group) /\ tx_bit = L - 1
    BY <1>1, <1>5 DEF Transmit, BlockIsComplete, After
  <2>2. Sends' = 0 /\ Sends = 4 * L - 1
    BY <1>1, <1>5, <2>1, Places DEF Sends
  <2>. QED  BY <1>2, <2>1, <2>2
<1>. QED  BY <1>3, <1>4, <1>5

\* The receiver's place, in sync.
LEMMA ExpectsType ==
    ASSUME ReceiverInvariant, is_in_sync
    PROVE  /\ expected_offset \in Offsets
           /\ Expects \in 0..(4 * L - 1)
<1>1. expected_offset \in Offsets /\ bits_until_next_block \in 1..L
  BY DEF ReceiverInvariant, TypeOK, EventsLeadToSync
<1>2. BlockNumber(expected_offset) \in Numbers
  BY <1>1, BlockNumberType
<1>. QED  BY <1>1, <1>2, Places DEF Expects

\* With a bit sent and a bit received a group stays whole.
LEMMA StaysWhole ==
    ASSUME TransmitterTypeOK, Transmit, NEW group, NEW place \in 0..(4 * L - 1),
           slips \in Nat, slips < 4 * L, WholeAt(group, place, tx_group, Sends, slips)
    PROVE  WholeAt(group, place + 1, tx_group', Sends', slips)
<1>1. CASE \A n \in Numbers : ~IsClean(group[n])
  BY <1>1 DEF WholeAt
<1>2. CASE \E g \in 0..(Groups - 1), drift \in (-slips)..slips :
              IsOf(group, g) /\ IsAt(tx_group, Sends, g, place + drift)
  <2>1. PICK g \in 0..(Groups - 1), drift \in (-slips)..slips :
               IsOf(group, g) /\ IsAt(tx_group, Sends, g, place + drift)
    BY <1>2
  <2>2. /\ Sends \in 0..(4 * L - 1)
        /\ IF Sends = 4 * L - 1 THEN tx_group' = After(tx_group) /\ Sends' = 0
                                ELSE tx_group' = tx_group /\ Sends' = Sends + 1
    BY TransmitMoves
  <2>. DEFINE ahead == place + drift
  <2>3. ahead \in Int /\ ahead < 8 * L - 1 /\ place + 1 + drift = ahead + 1
    BY Places
  <2>4. IsAt(tx_group, Sends, g, ahead)
    BY <2>1
  <2>. HIDE DEF ahead
  <2>5. IF Sends = 4 * L - 1 THEN IsAt(After(tx_group), 0, g, ahead + 1)
                             ELSE IsAt(tx_group, Sends + 1, g, ahead + 1)
    BY <2>2, <2>3, <2>4, NextPlace
  <2>6. IsAt(tx_group', Sends', g, place + 1 + drift)
    BY <2>2, <2>3, <2>5
  <2>. QED  BY <2>1, <2>6 DEF WholeAt
<1>. QED  BY <1>1, <1>2 DEF WholeAt

\* With a bit lost, or one made up, it stays whole, too: one more has slipped.
LEMMA StaysWholeWhenOneIsLost ==
    ASSUME TransmitterTypeOK, Transmit, NEW group, NEW place \in 0..(4 * L - 1),
           slips \in Nat, slips + 1 < 4 * L, WholeAt(group, place, tx_group, Sends, slips)
    PROVE  WholeAt(group, place, tx_group', Sends', slips + 1)
<1>1. WholeAt(group, place + 1, tx_group', Sends', slips)
  BY StaysWhole, Places
<1>2. \A drift \in (-slips)..slips :
         /\ drift + 1 \in (-(slips + 1))..(slips + 1)
         /\ place + 1 + drift = place + (drift + 1)
  BY Places
<1>. QED  BY <1>1, <1>2 DEF WholeAt

LEMMA StaysWholeWhenOneIsMadeUp ==
    ASSUME NEW group, NEW place \in 0..(4 * L - 1), slips \in Nat,
           WholeAt(group, place, tx_group, Sends, slips)
    PROVE  WholeAt(group, place + 1, tx_group, Sends, slips + 1)
<1>1. \A drift \in (-slips)..slips :
         /\ drift - 1 \in (-(slips + 1))..(slips + 1)
         /\ place + drift = place + 1 + (drift - 1)
  BY Places
<1>. QED  BY <1>1 DEF WholeAt

\* The block that is expected, received without an error: it is of the group of those
\* before it.
LEMMA CleanBlockFits ==
    ASSUME TransmitterTypeOK, NEW group, NEW n \in Numbers, slips \in Nat, slips < 4 * L,
           group \in [Numbers -> Block],
           WholeAt(group, n * L + L - 1, tx_group, Sends, slips),
           NEW block, IsClean(block) => BlockIsComplete /\ tx_block = n /\ block.data = TxData
    PROVE  WholeAt([group EXCEPT ![n] = block], n * L + L - 1, tx_group, Sends, slips)
<1>. DEFINE new == [group EXCEPT ![n] = block]
            place == n * L + L - 1
<1>1. /\ L \in Nat \ {0} /\ place \in 0..(4 * L - 1)
      /\ tx_group \in 0..(Groups - 1)
  BY Places DEF TransmitterTypeOK
<1>2. \A m \in Numbers : new[m] = IF m = n THEN block ELSE group[m]
  OBVIOUS
<1>. HIDE DEF new
<1>3. CASE ~IsClean(block)
  <2>1. \A m \in Numbers : IsClean(new[m]) => IsClean(group[m]) /\ new[m] = group[m]
    BY <1>2, <1>3
  <2>2. \A g : IsOf(group, g) => IsOf(new, g)
    BY <2>1 DEF IsOf
  <2>. QED  BY <2>1, <2>2 DEF WholeAt, new
<1>4. CASE IsClean(block)
  <2>1. Sends = place /\ block.data = <<tx_group, n>>
    BY <1>1, <1>4, Places DEF Sends, BlockIsComplete, TxData
  <2>2. IsOf(group, tx_group)
    <3>1. CASE \A m \in Numbers : ~IsClean(group[m])
      BY <3>1 DEF IsOf
    <3>2. CASE \E g \in 0..(Groups - 1), drift \in (-slips)..slips :
                  IsOf(group, g) /\ IsAt(tx_group, Sends, g, place + drift)
      <4>1. PICK g \in 0..(Groups - 1), drift \in (-slips)..slips :
                   IsOf(group, g) /\ IsAt(tx_group, Sends, g, place + drift)
        BY <3>2
      <4>2. tx_group = g
        BY <1>1, <2>1, <4>1 DEF IsAt
      <4>. QED  BY <4>1, <4>2
    <3>. QED  BY <3>1, <3>2 DEF WholeAt
  <2>3. IsOf(new, tx_group)
    BY <1>2, <2>1, <2>2 DEF IsOf
  <2>4. 0 \in (-slips)..slips /\ IsAt(tx_group, Sends, tx_group, place + 0)
    BY <1>1, <2>1 DEF IsAt
  <2>5. WholeAt(new, place, tx_group, Sends, slips)
    BY <1>1, <2>3, <2>4 DEF WholeAt
  <2>. QED  BY <2>5 DEF new
<1>. QED  BY <1>3, <1>4

LEMMA OffsetsInOrder ==
    \A offset \in Offsets :
        IF BlockNumber(offset) = 3 THEN NextOffset(offset) = "A"
        ELSE NextOffset(offset) # "A" /\ BlockNumber(NextOffset(offset)) = BlockNumber(offset) + 1
BY DEF Offsets, NextOffset, BlockNumber

\* What the receiver has of a group after a bit, before the transmitter's place is counted on.
GroupMoves ==
    /\ is_in_sync' =>
          \/ current_group' = NoGroup
          \/ \E place \in 0..(4 * L - 1) :
                /\ Expects' = place + 1
                /\ WholeAt(current_group', place, tx_group, Sends, slips)
    /\ IsWhole(ready_group')

LEMMA TakeKeepsWhole ==
    ASSUME ReceiverInvariant, WholeInvariant, slips < 4 * L, bits_until_next_block = 1,
           NEW s \in Signals, is_in_sync \/ Acquires(s.offset), NEW errors,
           NEW fixed \in BOOLEAN, NEW data \in {Garbage} \cup ((0..(Groups - 1)) \X Numbers),
           s.offset = Expected(s.offset) => data = s.data,
           TakeBlock(s.offset, errors, fixed, data)
    PROVE  GroupMoves
<1>. DEFINE expected == Expected(s.offset)
            n == BlockNumber(expected)
            before == GroupBefore(s.offset)
            block == [is_received |-> TRUE, had_errors |-> s.offset # expected, data |-> data]
            place == n * L + L - 1
            group == IF Taken(s.offset # expected, fixed) THEN [before EXCEPT ![n] = block]
                     ELSE before
<1>1. /\ TransmitterTypeOK /\ slips \in Nat
      /\ current_group \in [Numbers -> Block]
      /\ is_in_sync => expected_offset \in Offsets
  BY ExpectsType DEF ReceiverInvariant, TypeOK, WholeInvariant
<1>2. /\ s.offset \in Offsets \cup {"invalid"}
      /\ s.data # Garbage => /\ BlockIsComplete /\ s.data = TxData
                             /\ s.offset \in Offsets /\ BlockNumber(s.offset) = tx_block
  BY <1>1 DEF Signals, TxOffset, TransmitterTypeOK, Offsets, Numbers, BlockNumber
<1>3. expected \in Offsets
  BY <1>1, <1>2 DEF Expected, Acquires, Offsets
<1>4. n \in Numbers /\ place \in 0..(4 * L - 1) /\ L \in Nat \ {0}
  BY <1>3, BlockNumberType, Places
<1>5. before \in [Numbers -> Block] /\ WholeAt(before, place, tx_group, Sends, slips)
  <2>1. CASE Acquires(s.offset)
    <3>1. before = NoGroup
      BY <2>1 DEF GroupBefore
    <3>2. NoGroup \in [Numbers -> Block]
      BY DEF NoGroup, NoBlock, Block
    <3>. QED  BY <3>1, <3>2, NoGroupIsWhole DEF WholeAt
  <2>2. CASE ~Acquires(s.offset)
    <3>1. before = current_group /\ is_in_sync
      BY <2>2 DEF GroupBefore
    <3>2. n = BlockNumber(expected_offset)
      BY <2>2 DEF Expected, BlockNumber
    <3>3. Expects = place
      BY <1>4, <3>2 DEF Expects
    <3>4. WholeAt(current_group, Expects, tx_group, Sends, slips)
      BY <3>1 DEF WholeInvariant, CurrentIsWhole
    <3>. HIDE DEF n, place, before
    <3>. QED  BY <1>1, <3>1, <3>3, <3>4
  <2>. QED  BY <2>1, <2>2
<1>6. IsClean(block) => BlockIsComplete /\ tx_block = n /\ block.data = TxData
  BY <1>2 DEF IsClean
<1>7. /\ IF NextOffset(expected) = "A"
         THEN ready_group' = group /\ current_group' = NoGroup
         ELSE current_group' = group /\ ready_group' = ready_group
      /\ bits_until_next_block' = L
      /\ expected_offset' = NextOffset(expected)
  BY Zenon DEF TakeBlock
<1>8. WholeAt(group, place, tx_group, Sends, slips)
  <2>. HIDE DEF block, before, n
  <2>1. WholeAt([before EXCEPT ![n] = block], n * L + L - 1, tx_group, Sends, slips)
    BY <1>1, <1>4, <1>5, <1>6, CleanBlockFits
  <2>. QED  BY <1>5, <2>1
<1>. HIDE DEF group, place
<1>9. CASE n = 3
  <2>1. ready_group' = group /\ current_group' = NoGroup
    BY <1>3, <1>7, <1>9, OffsetsInOrder
  <2>2. \E g \in 0..(Groups - 1) : IsOf(group, g)
    <3>1. 0 \in 0..(Groups - 1)
      BY SizesAssumption
    <3>. QED  BY <1>8, <3>1 DEF WholeAt, IsOf
  <2>3. IsWhole(group)
    BY <2>2, WholeIsOfOne
  <2>. QED  BY <2>1, <2>3 DEF GroupMoves
<1>10. CASE n # 3
  <2>1. current_group' = group /\ ready_group' = ready_group
    BY <1>3, <1>7, <1>10, OffsetsInOrder
  <2>2. BlockNumber(expected_offset') = n + 1
    BY <1>3, <1>7, <1>10, OffsetsInOrder
  <2>3. Expects' = place + 1
    <3>1. Expects' = (n + 1) * L + L - L
      BY <1>7, <2>2 DEF Expects
    <3>. HIDE DEF n
    <3>2. (n + 1) * L = n * L + L /\ n * L \in Nat
      BY <1>4, Places
    <3>. QED  BY <1>4, <3>1, <3>2 DEF place
  <2>4. IsWhole(ready_group)
    BY DEF WholeInvariant
  <2>. QED  BY <1>4, <1>8, <2>1, <2>3, <2>4 DEF GroupMoves
<1>. QED  BY <1>9, <1>10

LEMMA ReceivingKeepsWhole ==
    ASSUME ReceiverInvariant, WholeInvariant, slips < 4 * L,
           CountBit \/ \E s \in Signals : rds_find_block_in_register(s)
    PROVE  GroupMoves
<1>1. IsWhole(ready_group)
  BY DEF WholeInvariant
<1>2. CASE CountBit
  <2>1. is_in_sync
    BY <1>2 DEF CountBit, ReceiverInvariant, EventsLeadToSync
  <2>2. Expects \in 0..(4 * L - 1) /\ WholeAt(current_group, Expects, tx_group, Sends, slips)
    BY <2>1, ExpectsType DEF WholeInvariant, CurrentIsWhole
  <2>3. Expects' = Expects + 1
    <3>1. BlockNumber(expected_offset) \in Numbers /\ bits_until_next_block \in 1..L
      BY <2>1, ExpectsType, BlockNumberType DEF ReceiverInvariant, TypeOK
    <3>. QED  BY <1>2, <3>1, Places DEF CountBit, Expects
  <2>4. current_group' = current_group /\ ready_group' = ready_group
    BY <1>2 DEF CountBit, groupVars
  <2>. QED  BY <1>1, <2>2, <2>3, <2>4 DEF GroupMoves
<1>3. ASSUME NEW s \in Signals, rds_find_block_in_register(s)
      PROVE  GroupMoves
  <2>1. CASE SearchSync(s.offset)
    BY <1>1, <2>1 DEF SearchSync, groupVars, GroupMoves
  <2>2. CASE FindBlock(s)
    <3>. DEFINE errors == ErrorPush(ErrorsBefore(s.offset), s.offset # Expected(s.offset))
    <3>1. is_in_sync \/ Acquires(s.offset)
      BY <2>2 DEF FindBlock
    <3>2. TxData \in (0..(Groups - 1)) \X Numbers
      BY DEF TxData, ReceiverInvariant, TypeOK, TransmitterTypeOK
    <3>3. s.data \in {Garbage} \cup ((0..(Groups - 1)) \X Numbers)
      BY <3>2 DEF Signals
    <3>4. CorrectedData(s.offset) \subseteq {Garbage} \cup ((0..(Groups - 1)) \X Numbers)
      BY <3>2 DEF CorrectedData
    <3>5. CASE LoseSync(s.offset, errors)
      BY <1>1, <3>5 DEF LoseSync, GroupMoves
    <3>6. CASE \E fixed \in BOOLEAN, data \in {Garbage} \cup ((0..(Groups - 1)) \X Numbers) :
                  /\ s.offset = Expected(s.offset) => data = s.data
                  /\ TakeBlock(s.offset, errors, fixed, data)
      <4>1. bits_until_next_block = 1
        BY <1>3 DEF rds_find_block_in_register
      <4>. HIDE DEF errors
      <4>. QED  BY <3>1, <3>6, <4>1, TakeKeepsWhole
    <3>7. \/ LoseSync(s.offset, errors)
          \/ \E fixed \in BOOLEAN, data \in {Garbage} \cup ((0..(Groups - 1)) \X Numbers) :
                /\ s.offset = Expected(s.offset) => data = s.data
                /\ TakeBlock(s.offset, errors, fixed, data)
      BY <2>2, <3>3, <3>4, Zenon DEF FindBlock
    <3>. QED  BY <3>5, <3>6, <3>7
  <2>. QED  BY <1>3, <2>1, <2>2 DEF rds_find_block_in_register
<1>. QED  BY <1>2, <1>3

LEMMA InitWhole == Init => WholeInvariant
BY NoGroupIsWhole DEF Init, WholeInvariant, CurrentIsWhole

LEMMA NextWhole ==
    ASSUME ReceiverInvariant, ReceiverInvariant', WholeInvariant, [Next]_vars
    PROVE  WholeInvariant'
<1>1. TransmitterTypeOK /\ slips \in Nat
  BY DEF ReceiverInvariant, TypeOK, WholeInvariant
<1>2. CASE PushBit
  <2>1. slips' = slips /\ Transmit
    BY <1>2 DEF PushBit, noiseVars, Noise
  <2>2. CountBit \/ \E s \in Signals : rds_find_block_in_register(s)
    BY <1>2 DEF PushBit
  <2>3. ASSUME slips < 4 * L
        PROVE  CurrentIsWhole' /\ IsWhole(ready_group')
    <3>1. GroupMoves
      BY <2>2, <2>3, ReceivingKeepsWhole
    <3>2. CASE is_in_sync' /\ current_group' # NoGroup
      <4>1. PICK place \in 0..(4 * L - 1) :
                   Expects' = place + 1 /\ WholeAt(current_group', place, tx_group, Sends, slips)
        BY <3>1, <3>2 DEF GroupMoves
      <4>2. WholeAt(current_group', place + 1, tx_group', Sends', slips)
        BY <1>1, <2>1, <2>3, <4>1, StaysWhole
      <4>. QED  BY <2>1, <3>1, <4>1, <4>2 DEF GroupMoves, CurrentIsWhole
    <3>3. CASE current_group' = NoGroup
      BY <3>1, <3>3, NoGroupIsWhole DEF GroupMoves, CurrentIsWhole, WholeAt
    <3>4. CASE ~is_in_sync'
      BY <3>1, <3>4 DEF GroupMoves, CurrentIsWhole
    <3>. QED  BY <3>2, <3>3, <3>4
  <2>. QED  BY <1>1, <2>1, <2>3 DEF WholeInvariant, CurrentIsWhole
<1>3. CASE PushExtraBit
  <2>1. slips' = slips + 1 /\ tx_group' = tx_group /\ Sends' = Sends
    BY <1>3 DEF PushExtraBit, txVars, Sends
  <2>2. CountBit \/ \E s \in Signals : rds_find_block_in_register(s)
    <3>1. [offset |-> "invalid", data |-> Garbage] \in Signals
      BY DEF Signals
    <3>. QED  BY <1>3, <3>1 DEF PushExtraBit
  <2>3. ASSUME slips' < 4 * L
        PROVE  CurrentIsWhole' /\ IsWhole(ready_group')
    <3>1. GroupMoves
      BY <1>1, <2>1, <2>2, <2>3, ReceivingKeepsWhole, Places
    <3>2. CASE is_in_sync' /\ current_group' # NoGroup
      <4>1. PICK place \in 0..(4 * L - 1) :
                   Expects' = place + 1 /\ WholeAt(current_group', place, tx_group, Sends, slips)
        BY <3>1, <3>2 DEF GroupMoves
      <4>2. WholeAt(current_group', place + 1, tx_group, Sends, slips + 1)
        BY <1>1, <4>1, StaysWholeWhenOneIsMadeUp
      <4>. QED  BY <2>1, <3>1, <4>1, <4>2 DEF GroupMoves, CurrentIsWhole
    <3>3. CASE current_group' = NoGroup
      BY <3>1, <3>3, NoGroupIsWhole DEF GroupMoves, CurrentIsWhole, WholeAt
    <3>4. CASE ~is_in_sync'
      BY <3>1, <3>4 DEF GroupMoves, CurrentIsWhole
    <3>. QED  BY <3>2, <3>3, <3>4
  <2>. QED  BY <1>1, <2>1, <2>3 DEF WholeInvariant, CurrentIsWhole
<1>4. CASE LoseBit
  <2>1. /\ slips' = slips + 1 /\ Transmit /\ Expects' = Expects
        /\ is_in_sync' = is_in_sync /\ current_group' = current_group /\ ready_group' = ready_group
    BY <1>4 DEF LoseBit, syncVars, groupVars, Expects
  <2>2. slips' < 4 * L => slips < 4 * L
    BY <1>1, <2>1, Places
  <2>3. ASSUME slips' < 4 * L, is_in_sync
        PROVE  WholeAt(current_group', Expects', tx_group', Sends', slips')
    <3>1. Expects \in 0..(4 * L - 1) /\ WholeAt(current_group, Expects, tx_group, Sends, slips)
      BY <2>2, <2>3, ExpectsType DEF WholeInvariant, CurrentIsWhole
    <3>2. WholeAt(current_group, Expects, tx_group', Sends', slips + 1)
      BY <1>1, <2>1, <2>3, <3>1, StaysWholeWhenOneIsLost
    <3>. QED  BY <2>1, <3>2
  <2>. QED  BY <1>1, <2>1, <2>2, <2>3 DEF WholeInvariant, CurrentIsWhole
<1>5. CASE ConsumeResults \/ UNCHANGED vars
  BY <1>5 DEF ConsumeResults, vars, syncVars, groupVars, txVars, noiseVars, WholeInvariant,
     CurrentIsWhole, Expects, Sends
<1>. QED  BY <1>2, <1>3, <1>4, <1>5 DEF Next

\* For blocks of any length, error windows and pulse buffers of any size, and any noise: the
\* groups that are handed over are never put together from two.
THEOREM GroupsAreNeverMixed == Spec => []GroupsAreWhole
<1>1. WholeInvariant => GroupsAreWhole
  BY DEF WholeInvariant, GroupsAreWhole
<1>. QED
  BY <1>1, InitReceiver, NextReceiver, InitWhole, NextWhole, PTL DEF Spec

-----------------------------------------------------------------------------
(***************************************************************************)
(* Sync is acquired in step.  A pulse is true if the block it was taken    *)
(* for ended when one of that number did, in whatever group.  A pulse that *)
(* could follow another is true exactly if that is, so that a sequence is  *)
(* all true or all untrue, and while no bit has slipped each untrue pulse  *)
(* in the buffer stands for a time noise has looked like a block.          *)
(***************************************************************************)
IsTrue(pulse, sends) ==
    \E groups \in Int :
        sends + groups * (4 * L) = pulse.age + (BlockNumber(pulse.offset) + 1) * L

IsUntrue(pulse, sends) == pulse.offset # "invalid" /\ ~IsTrue(pulse, sends)

\* There are no more than count untrue pulses, if these are fewer than a sequence needs.
FewUntrue(buffer, sends, count) ==
    /\ count < 1 => \A i \in 1..Pulses : ~IsUntrue(buffer[i], sends)
    /\ count < 2 => \A i, j \in 1..Pulses :
                       i < j => ~(IsUntrue(buffer[i], sends) /\ IsUntrue(buffer[j], sends))
    /\ count < 3 => \A i, j, k \in 1..Pulses :
                       i < j /\ j < k => ~(/\ IsUntrue(buffer[i], sends)
                                          /\ IsUntrue(buffer[j], sends)
                                          /\ IsUntrue(buffer[k], sends))

PulsesInvariant ==
    /\ spurious \in Nat /\ slips \in Nat
    /\ slips = 0 => FewUntrue(sync_buffer, Sends, spurious)

NextSends(sends) == IF sends = 4 * L - 1 THEN 0 ELSE sends + 1

LEMMA AgedStaysTrue ==
    ASSUME NEW buffer \in [1..Pulses -> Pulse], NEW i \in 1..Pulses, NEW sends \in 0..(4 * L - 1),
           IsUntrue(Aged(buffer)[i], NextSends(sends))
    PROVE  IsUntrue(buffer[i], sends)
<1>1. /\ L \in Nat \ {0} /\ buffer[i] \in Pulse /\ buffer[i].age \in Nat
      /\ MaxAge \in Nat
  BY Places, NoPulseType DEF Pulse
<1>2. /\ buffer[i].offset # "invalid"
      /\ Aged(buffer)[i] = [buffer[i] EXCEPT !.age = @ + 1]
  BY DEF Aged, NoPulse, IsUntrue
<1>3. Aged(buffer)[i].age = buffer[i].age + 1 /\ Aged(buffer)[i].offset = buffer[i].offset
  BY <1>1, <1>2 DEF Pulse
<1>4. SUFFICES ASSUME IsTrue(buffer[i], sends) PROVE IsTrue(Aged(buffer)[i], NextSends(sends))
  BY <1>2 DEF IsUntrue
<1>5. PICK groups \in Int :
             sends + groups * (4 * L)
               = buffer[i].age + (BlockNumber(buffer[i].offset) + 1) * L
  BY <1>4 DEF IsTrue
<1>6. BlockNumber(buffer[i].offset) \in Numbers
  BY <1>1, <1>2, BlockNumberType DEF Pulse
<1>. DEFINE end == (BlockNumber(buffer[i].offset) + 1) * L
<1>7. end \in Nat
  BY <1>1, <1>6 DEF Numbers
<1>8. groups * (4 * L) \in Int /\ (groups + 1) * (4 * L) = groups * (4 * L) + 4 * L
  BY <1>1
<1>. HIDE DEF end
<1>9. CASE sends = 4 * L - 1
  <2>1. 0 + (groups + 1) * (4 * L) = (buffer[i].age + 1) + end
    BY <1>1, <1>5, <1>7, <1>8, <1>9 DEF end
  <2>. QED  BY <1>3, <1>9, <2>1 DEF IsTrue, NextSends, end
<1>10. CASE sends # 4 * L - 1
  <2>1. (sends + 1) + groups * (4 * L) = (buffer[i].age + 1) + end
    BY <1>1, <1>5, <1>7, <1>8 DEF end
  <2>. QED  BY <1>3, <1>10, <2>1 DEF IsTrue, NextSends, end
<1>. QED  BY <1>9, <1>10

LEMMA AgedHasFewUntrue ==
    ASSUME NEW buffer \in [1..Pulses -> Pulse], NEW sends \in 0..(4 * L - 1), NEW count \in Nat,
           FewUntrue(buffer, sends, count)
    PROVE  FewUntrue(Aged(buffer), NextSends(sends), count)
<1>1. \A i \in 1..Pulses :
         IsUntrue(Aged(buffer)[i], NextSends(sends)) => IsUntrue(buffer[i], sends)
  BY AgedStaysTrue
<1>. QED  BY <1>1, Zenon DEF FewUntrue

LEMMA PushedHasFewUntrue ==
    ASSUME NEW buffer \in [1..Pulses -> Pulse], NEW sends, NEW count \in Nat,
           FewUntrue(buffer, sends, count), NEW offset \in Offsets \cup {"invalid"},
           NEW misled \in {0, 1}, IsUntrue([offset |-> offset, age |-> 0], sends) => misled = 1
    PROVE  FewUntrue(Pushed(buffer, offset), sends, count + misled)
<1>. DEFINE pushed == Pushed(buffer, offset)
            new == [offset |-> offset, age |-> 0]
<1>1. buffer \in Seq(Pulse) /\ Len(buffer) = Pulses /\ buffer # << >> /\ Pulses \in Nat
  BY BufferIsASequence, SizesAssumption
<1>2. /\ Tail(buffer) \in Seq(Pulse) /\ Len(Tail(buffer)) = Pulses - 1
      /\ \A i \in 1..(Pulses - 1) : Tail(buffer)[i] = buffer[i + 1]
  BY <1>1, HeadTailProperties
<1>3. new \in Pulse
  BY SizesAssumption DEF Pulse, MaxAge
<1>. HIDE DEF new
<1>4. /\ \A i \in 1..(Pulses - 1) : Append(Tail(buffer), new)[i] = buffer[i + 1]
      /\ Append(Tail(buffer), new)[Pulses] = new
  BY <1>1, <1>2, <1>3, AppendProperties
<1>5. /\ \A i \in 1..(Pulses - 1) : pushed[i] = buffer[i + 1]
      /\ pushed[Pulses] = new
  BY <1>4 DEF Pushed, new
<1>. DEFINE Old(i) == IsUntrue(buffer[i], sends)
            Bad(i) == IsUntrue(pushed[i], sends)
<1>6. /\ \A i \in 1..Pulses : i < Pulses => i + 1 \in 1..Pulses /\ (Bad(i) => Old(i + 1))
      /\ Bad(Pulses) => misled = 1
  BY <1>1, <1>5 DEF new
<1>7. /\ count < 1 => \A i \in 1..Pulses : ~Old(i)
      /\ count < 2 => \A i, j \in 1..Pulses : i < j => ~(Old(i) /\ Old(j))
      /\ count < 3 => \A i, j, k \in 1..Pulses :
                         i < j /\ j < k => ~(Old(i) /\ Old(j) /\ Old(k))
  BY Zenon DEF FewUntrue
<1>. HIDE DEF Old, Bad, pushed
<1>8. count + misled < 1 => \A i \in 1..Pulses : ~Bad(i)
  BY <1>1, <1>6, <1>7
<1>9. count + misled < 2 => \A i, j \in 1..Pulses : i < j => ~(Bad(i) /\ Bad(j))
  <2>. SUFFICES ASSUME count + misled < 2, NEW i \in 1..Pulses, NEW j \in 1..Pulses, i < j,
                       Bad(i), Bad(j)
                PROVE  FALSE
    OBVIOUS
  <2>1. Old(i + 1) /\ i + 1 \in 1..Pulses
    BY <1>1, <1>6
  <2>2. CASE j = Pulses
    BY <1>6, <1>7, <2>1, <2>2
  <2>3. CASE j # Pulses
    <3>1. Old(j + 1) /\ j + 1 \in 1..Pulses /\ i + 1 < j + 1
      BY <1>1, <1>6, <2>3
    <3>. QED  BY <1>7, <2>1, <3>1
  <2>. QED  BY <2>2, <2>3
<1>10. count + misled < 3 => \A i, j, k \in 1..Pulses :
                               i < j /\ j < k => ~(Bad(i) /\ Bad(j) /\ Bad(k))
  <2>. SUFFICES ASSUME count + misled < 3, NEW i \in 1..Pulses, NEW j \in 1..Pulses,
                       NEW k \in 1..Pulses, i < j, j < k, Bad(i), Bad(j), Bad(k)
                PROVE  FALSE
    OBVIOUS
  <2>1. /\ Old(i + 1) /\ i + 1 \in 1..Pulses
        /\ Old(j + 1) /\ j + 1 \in 1..Pulses /\ i + 1 < j + 1
    BY <1>1, <1>6
  <2>2. CASE k = Pulses
    BY <1>6, <1>7, <2>1, <2>2
  <2>3. CASE k # Pulses
    <3>1. Old(k + 1) /\ k + 1 \in 1..Pulses /\ j + 1 < k + 1
      BY <1>1, <1>6, <2>3
    <3>. QED  BY <1>7, <2>1, <3>1
  <2>. QED  BY <2>2, <2>3
<1>. QED  BY <1>8, <1>9, <1>10, Zenon DEF FewUntrue, Bad, pushed

LEMMA FollowersAreAlike ==
    ASSUME NEW pulse \in Pulse, NEW other \in Pulse, NEW sends \in 0..(4 * L - 1),
           CouldFollow(pulse, other)
    PROVE  /\ pulse.offset # "invalid" /\ other.offset # "invalid"
           /\ IsTrue(pulse, sends) <=> IsTrue(other, sends)
<1>. DEFINE distance == other.age - pulse.age
            blocks == distance \div L
            m == BlockNumber(pulse.offset)
            n == BlockNumber(other.offset)
            ahead == (n + blocks) \div 4
<1>1. /\ L \in Nat \ {0} /\ pulse.age \in Nat /\ other.age \in Nat
      /\ pulse.offset \in Offsets /\ other.offset \in Offsets
  BY Places, NoPulseType DEF Pulse, CouldFollow
<1>2. m \in Numbers /\ n \in Numbers
  BY <1>1, BlockNumberType
<1>3. distance % L = 0 /\ (n + blocks) % 4 = m
  BY DEF CouldFollow
<1>4. distance \in Int
  BY <1>1
<1>5. blocks \in Int /\ distance = L * blocks
  <2>. HIDE DEF distance
  <2>. QED  BY <1>1, <1>3, <1>4
<1>6. other.age = pulse.age + L * blocks
  BY <1>1, <1>5
<1>. HIDE DEF blocks, m, n
<1>7. ahead \in Int /\ n + blocks = 4 * ahead + m
  BY <1>2, <1>3, <1>5 DEF Numbers
<1>. HIDE DEF ahead
<1>8. L * blocks = L * (4 * ahead) + L * m - L * n
  <2>1. blocks = 4 * ahead + m - n
    BY <1>2, <1>5, <1>7 DEF Numbers
  <2>. QED  BY <1>1, <1>2, <1>7, <2>1 DEF Numbers
<1>9. other.age + (n + 1) * L = pulse.age + (m + 1) * L + ahead * (4 * L)
  BY <1>1, <1>2, <1>6, <1>7, <1>8 DEF Numbers
<1>. DEFINE endOfPulse == (m + 1) * L
            endOfOther == (n + 1) * L
<1>10. endOfPulse \in Int /\ endOfOther \in Int /\ sends \in Int
  BY <1>1, <1>2 DEF Numbers
<1>11. ASSUME NEW groups \in Int, NEW more \in Int
       PROVE  /\ (groups + more) * (4 * L) = groups * (4 * L) + more * (4 * L)
              /\ groups * (4 * L) \in Int /\ more * (4 * L) \in Int
  BY <1>1
<1>12. ASSUME IsTrue(pulse, sends)
       PROVE  IsTrue(other, sends)
  <2>1. PICK groups \in Int : sends + groups * (4 * L) = pulse.age + endOfPulse
    BY <1>12 DEF IsTrue, m
  <2>. DEFINE sum == (groups + ahead) * (4 * L)
              sent == groups * (4 * L)
              more == ahead * (4 * L)
  <2>2. sum = sent + more /\ sent \in Int /\ more \in Int
    BY <1>7, <1>11
  <2>3. other.age + endOfOther = pulse.age + endOfPulse + more
    BY <1>9
  <2>4. sends + sum = other.age + endOfOther
    <3>1. sends + sent = pulse.age + endOfPulse
      BY <2>1
    <3>. HIDE DEF sum, sent, more, endOfPulse, endOfOther
    <3>. QED  BY <1>1, <1>10, <2>2, <2>3, <3>1
  <2>5. groups + ahead \in Int
    BY <1>7
  <2>. QED  BY <2>4, <2>5 DEF IsTrue, n
<1>13. ASSUME IsTrue(other, sends)
       PROVE  IsTrue(pulse, sends)
  <2>1. PICK groups \in Int : sends + groups * (4 * L) = other.age + endOfOther
    BY <1>13 DEF IsTrue, n
  <2>. DEFINE back == groups - ahead
              sum == back * (4 * L)
              sent == groups * (4 * L)
              more == ahead * (4 * L)
  <2>2. back \in Int /\ back + ahead = groups
    BY <1>7
  <2>3. sent = sum + more /\ sum \in Int /\ more \in Int /\ sent \in Int
    <3>. HIDE DEF back
    <3>1. (back + ahead) * (4 * L) = back * (4 * L) + ahead * (4 * L)
      BY <1>7, <1>11, <2>2
    <3>. QED  BY <1>7, <1>11, <2>2, <3>1
  <2>4. other.age + endOfOther = pulse.age + endOfPulse + more
    BY <1>9
  <2>5. sends + sum = pulse.age + endOfPulse
    <3>1. sends + sent = other.age + endOfOther
      BY <2>1
    <3>. HIDE DEF sum, sent, more, endOfPulse, endOfOther, back
    <3>2. \A x, y, a, b, c \in Int : sends + a = x /\ a = b + c /\ x = y + c => sends + b = y
      BY <1>10
    <3>3. other.age + endOfOther \in Int /\ pulse.age + endOfPulse \in Int
      BY <1>1, <1>10
    <3>. QED  BY <2>3, <2>4, <3>1, <3>2, <3>3
  <2>. QED  BY <2>2, <2>5 DEF IsTrue, m
<1>. QED  BY <1>1, <1>12, <1>13 DEF Offsets

\* With fewer than three untrue pulses the last one of a sequence is true.
LEMMA SequenceIsTrue ==
    ASSUME NEW buffer \in [1..Pulses -> Pulse], NEW sends \in 0..(4 * L - 1), NEW count \in Nat,
           FewUntrue(buffer, sends, count), count < 3, IsSequenceFound(buffer)
    PROVE  IsTrue(buffer[Pulses], sends)
<1>1. PICK i \in 1..(Pulses - 2) : \E j \in (i + 1)..(Pulses - 1) :
             CouldFollow(buffer[Pulses], buffer[j]) /\ CouldFollow(buffer[j], buffer[i])
  BY DEF IsSequenceFound
<1>1a. PICK j \in (i + 1)..(Pulses - 1) :
             CouldFollow(buffer[Pulses], buffer[j]) /\ CouldFollow(buffer[j], buffer[i])
  BY <1>1
<1>2. /\ i \in 1..Pulses /\ j \in 1..Pulses /\ Pulses \in 1..Pulses
      /\ i < j /\ j < Pulses
  BY SizesAssumption
<1>3. /\ \A n \in {i, j, Pulses} : buffer[n] \in Pulse /\ buffer[n].offset # "invalid"
      /\ IsTrue(buffer[Pulses], sends) <=> IsTrue(buffer[j], sends)
      /\ IsTrue(buffer[j], sends) <=> IsTrue(buffer[i], sends)
  BY <1>1a, <1>2, FollowersAreAlike
<1>4. ~(/\ IsUntrue(buffer[i], sends)
        /\ IsUntrue(buffer[j], sends)
        /\ IsUntrue(buffer[Pulses], sends))
  BY <1>2 DEF FewUntrue
<1>. QED  BY <1>3, <1>4 DEF IsUntrue

LEMMA SendsMove ==
    ASSUME TransmitterTypeOK, Transmit
    PROVE  Sends \in 0..(4 * L - 1) /\ Sends' \in 0..(4 * L - 1) /\ Sends' = NextSends(Sends)
BY TransmitMoves, Places DEF NextSends

\* A pulse that is untrue is noise's.
LEMMA UntrueIsMisleading ==
    ASSUME TransmitterTypeOK, Transmit, NEW s \in Signals,
           IsUntrue([offset |-> s.offset, age |-> 0], Sends')
    PROVE  Misleads(s)
<1>. SUFFICES ASSUME s.data # Garbage
              PROVE  IsTrue([offset |-> s.offset, age |-> 0], Sends')
  BY DEF Misleads, IsUntrue
<1>1. BlockIsComplete /\ BlockNumber(s.offset) = tx_block
  BY DEF Signals, TxOffset, TransmitterTypeOK, Numbers, BlockNumber
<1>2. /\ L \in Nat \ {0} /\ tx_block \in Numbers /\ tx_block * L \in Nat
      /\ (tx_block + 1) * L = tx_block * L + L
      /\ 3 * L + L = 4 * L /\ 0 * (4 * L) = 0 /\ 1 * (4 * L) = 4 * L
  BY Places DEF TransmitterTypeOK
<1>3. Sends = tx_block * L + (L - 1)
  BY <1>1 DEF Sends, BlockIsComplete
<1>4. \/ Sends' + 0 * (4 * L) = 0 + (tx_block + 1) * L
      \/ Sends' + 1 * (4 * L) = 0 + (tx_block + 1) * L
  BY <1>2, <1>3, SendsMove DEF NextSends
<1>. QED  BY <1>1, <1>4 DEF IsTrue

LEMMA TruePulseIsInStep ==
    ASSUME NEW n \in Numbers, NEW block \in Numbers, NEW bit \in 0..(L - 1), NEW groups \in Int,
           (block * L + bit) + groups * (4 * L) = (n + 1) * L
    PROVE  bit = 0 /\ block = (n + 1) % 4
<1>1. /\ L \in Nat \ {0} /\ n * L \in Nat /\ block * L \in Nat
      /\ n * L + L <= 4 * L /\ block * L + L <= 4 * L /\ (n + 1) * L = n * L + L
  BY Places
<1>2. groups \in {0, 1}
  <2>1. CASE groups >= 2
    <3>1. groups * (4 * L) >= 2 * (4 * L)
      BY <1>1, <2>1
    <3>. QED  BY <1>1, <3>1
  <2>2. CASE groups <= -1
    <3>1. groups * (4 * L) <= -(4 * L)
      BY <1>1, <2>2
    <3>. QED  BY <1>1, <3>1
  <2>. QED  BY <2>1, <2>2
<1>3. CASE groups = 0
  <2>1. block * L + bit = (n + 1) * L
    BY <1>1, <1>3
  <2>2. n # 3
    BY <1>1, <2>1, Places
  <2>3. n + 1 \in Numbers /\ (n + 1) % 4 = n + 1
    BY <2>2 DEF Numbers
  <2>4. block * L + bit = (n + 1) * L + 0 /\ 0 \in 0..(L - 1)
    BY <1>1, <2>1
  <2>. QED  BY <2>3, <2>4, SamePlace
<1>4. CASE groups = 1
  <2>1. block * L + bit + 4 * L = n * L + L
    BY <1>1, <1>4
  <2>2. block * L = 0 /\ bit = 0 /\ n * L + L = 4 * L
    BY <1>1, <2>1
  <2>3. block = 0
    BY <1>1, <2>2 DEF Numbers
  <2>4. n = 3
    <3>1. 0 \in 0..(L - 1) /\ 3 \in Numbers /\ n * L + 0 = 3 * L + 0
      BY <1>1, <2>2, Places DEF Numbers
    <3>. QED  BY <3>1, SamePlace
  <2>. QED  BY <2>2, <2>3, <2>4
<1>. QED  BY <1>2, <1>3, <1>4

\* A receiver that acquires sync with a true pulse is in step.
LEMMA TruePulseAcquires ==
    ASSUME ReceiverInvariant, consumed, Transmit, NEW s \in Signals, FindBlock(s),
           ~is_in_sync, is_in_sync',
           IsTrue([offset |-> s.offset, age |-> 0], Sends')
    PROVE  InStep'
<1>1. TransmitterTypeOK /\ TransmitterTypeOK'
  BY TransmitKeepsType DEF ReceiverInvariant, TypeOK
<1>2. Acquires(s.offset) /\ s.offset \in Offsets
  BY <1>1 DEF FindBlock, Acquires, Signals, TxOffset, TransmitterTypeOK, Offsets, Numbers
<1>3. Expected(s.offset) = s.offset
  BY <1>2 DEF Expected
<1>4. bits_until_next_block' = L /\ expected_offset' = NextOffset(s.offset)
  <2>. DEFINE errors == ErrorPush(ErrorsBefore(s.offset), s.offset # Expected(s.offset))
  <2>1. LoseSync(s.offset, errors) \/ \E fixed, data : TakeBlock(s.offset, errors, fixed, data)
    BY Zenon DEF FindBlock
  <2>. HIDE DEF errors
  <2>2. ~LoseSync(s.offset, errors)
    BY DEF LoseSync
  <2>. QED  BY <1>3, <2>1, <2>2 DEF TakeBlock
<1>5. BlockNumber(s.offset) \in Numbers
  BY <1>2, BlockNumberType
<1>6. PICK groups \in Int : Sends' + groups * (4 * L) = 0 + (BlockNumber(s.offset) + 1) * L
  BY DEF IsTrue
<1>7. tx_block' \in Numbers /\ tx_bit' \in 0..(L - 1)
  BY <1>1 DEF TransmitterTypeOK
<1>8. (tx_block' * L + tx_bit') + groups * (4 * L) = (BlockNumber(s.offset) + 1) * L
  <2>1. (BlockNumber(s.offset) + 1) * L \in Int
    BY <1>5, Places DEF Numbers
  <2>. QED  BY <1>6, <2>1 DEF Sends
<1>9. tx_bit' = 0 /\ tx_block' = (BlockNumber(s.offset) + 1) % 4
  BY <1>5, <1>7, <1>8, TruePulseIsInStep
<1>10. BlockNumber(NextOffset(s.offset)) = (BlockNumber(s.offset) + 1) % 4
  BY <1>2 DEF Offsets, NextOffset, BlockNumber
<1>. QED  BY <1>4, <1>9, <1>10, Places DEF InStep

LEMMA InitPulses == Init => PulsesInvariant
BY DEF Init, PulsesInvariant, FewUntrue, IsUntrue, NoPulse

LEMMA PushBitPulses ==
    ASSUME ReceiverInvariant, PulsesInvariant, PushBit
    PROVE  /\ PulsesInvariant'
           /\ ~is_in_sync /\ is_in_sync' /\ slips' = 0 /\ spurious' < 3 => InStep'
<1>1. /\ TransmitterTypeOK /\ sync_buffer \in [1..Pulses -> Pulse]
      /\ spurious \in Nat /\ slips \in Nat /\ Transmit /\ slips' = slips /\ consumed
  BY DEF ReceiverInvariant, TypeOK, PulsesInvariant, PushBit, noiseVars, Noise
<1>2. Sends \in 0..(4 * L - 1) /\ Sends' \in 0..(4 * L - 1) /\ Sends' = NextSends(Sends)
  BY <1>1, SendsMove
<1>3. Aged(sync_buffer) \in [1..Pulses -> Pulse]
  BY <1>1, AgedKeepsType
<1>4. slips = 0 => FewUntrue(Aged(sync_buffer), Sends', spurious)
  BY <1>1, <1>2, AgedHasFewUntrue DEF PulsesInvariant
<1>5. CASE CountBit /\ UNCHANGED noiseVars
  BY <1>1, <1>4, <1>5 DEF CountBit, noiseVars, PulsesInvariant
<1>6. ASSUME NEW s \in Signals, rds_find_block_in_register(s), Noise(s)
      PROVE  /\ PulsesInvariant'
             /\ ~is_in_sync /\ is_in_sync' /\ slips' = 0 /\ spurious' < 3 => InStep'
  <2>. DEFINE misled == IF Misleads(s) THEN 1 ELSE 0
              pulse == [offset |-> s.offset, age |-> 0]
  <2>1. spurious' = spurious + misled /\ misled \in {0, 1} /\ spurious' \in Nat
    BY <1>1, <1>6 DEF Noise
  <2>2. s.offset \in Offsets \cup {"invalid"}
    BY <1>1 DEF Signals, TxOffset, TransmitterTypeOK, Offsets, Numbers
  <2>3. IsUntrue(pulse, Sends') => misled = 1
    BY <1>1, UntrueIsMisleading
  <2>. HIDE DEF misled
  <2>4. slips = 0 => FewUntrue(Pushed(Aged(sync_buffer), s.offset), Sends', spurious')
    BY <1>1, <1>3, <1>4, <2>1, <2>2, <2>3, PushedHasFewUntrue
  <2>5. slips = 0 => FewUntrue(Aged(sync_buffer), Sends', spurious')
    <3>1. /\ spurious' < 1 => spurious < 1
          /\ spurious' < 2 => spurious < 2
          /\ spurious' < 3 => spurious < 3
      BY <1>1, <2>1
    <3>. QED  BY <1>4, <3>1, Zenon DEF FewUntrue
  <2>6. \/ sync_buffer' = Aged(sync_buffer)
        \/ sync_buffer' = Pushed(Aged(sync_buffer), s.offset)
    BY <1>6 DEF rds_find_block_in_register, SearchSync, FindBlock
  <2>7. PulsesInvariant'
    BY <1>1, <2>1, <2>4, <2>5, <2>6 DEF PulsesInvariant
  <2>8. ASSUME ~is_in_sync, is_in_sync', slips' = 0, spurious' < 3
        PROVE  InStep'
    <3>1. FindBlock(s)
      BY <1>6, <2>8 DEF rds_find_block_in_register, SearchSync
    <3>2. IsSequenceFound(Pushed(Aged(sync_buffer), s.offset))
      BY <2>8, <3>1 DEF FindBlock, Acquires
    <3>. DEFINE buffer == Pushed(Aged(sync_buffer), s.offset)
    <3>3. buffer \in [1..Pulses -> Pulse]
      BY <1>3, <2>2, PushedKeepsType
    <3>4. FewUntrue(buffer, Sends', spurious')
      BY <1>1, <2>4, <2>8
    <3>5. buffer[Pulses] = pulse
      <4>1. Aged(sync_buffer) \in Seq(Pulse) /\ Len(Aged(sync_buffer)) = Pulses
            /\ Aged(sync_buffer) # << >>
        BY <1>3, BufferIsASequence, SizesAssumption
      <4>2. Tail(Aged(sync_buffer)) \in Seq(Pulse) /\ Len(Tail(Aged(sync_buffer))) = Pulses - 1
        BY <4>1, HeadTailProperties
      <4>3. pulse \in Pulse
        BY <2>2, NoPulseType DEF Pulse
      <4>. HIDE DEF pulse
      <4>4. Append(Tail(Aged(sync_buffer)), pulse)[Pulses] = pulse
        BY <4>2, <4>3, AppendProperties, SizesAssumption
      <4>. QED  BY <4>4 DEF Pushed, pulse
    <3>. HIDE DEF buffer
    <3>6. IsTrue(buffer[Pulses], Sends')
      BY <1>2, <2>1, <2>8, <3>2, <3>3, <3>4, SequenceIsTrue DEF buffer
    <3>. QED  BY <1>1, <2>8, <3>1, <3>5, <3>6, TruePulseAcquires
  <2>. QED  BY <2>7, <2>8
<1>. QED  BY <1>5, <1>6 DEF PushBit, CountBit

LEMMA NextPulses ==
    ASSUME ReceiverInvariant, PulsesInvariant, [Next]_vars
    PROVE  /\ PulsesInvariant'
           /\ ~is_in_sync /\ is_in_sync' /\ slips' = 0 /\ spurious' < 3 => InStep'
<1>1. CASE PushBit
  BY <1>1, PushBitPulses
<1>2. CASE PushExtraBit
  <2>1. slips' = slips + 1 /\ spurious' = spurious
    BY <1>2 DEF PushExtraBit
  <2>2. slips' # 0 /\ slips' \in Nat
    BY <2>1 DEF PulsesInvariant
  <2>. QED  BY <2>1, <2>2 DEF PulsesInvariant
<1>3. CASE LoseBit
  <2>1. slips' = slips + 1 /\ spurious' = spurious
    BY <1>3 DEF LoseBit
  <2>2. slips' # 0 /\ slips' \in Nat
    BY <2>1 DEF PulsesInvariant
  <2>. QED  BY <2>1, <2>2 DEF PulsesInvariant
<1>4. CASE ConsumeResults \/ UNCHANGED vars
  <2>1. /\ sync_buffer' = sync_buffer /\ Sends' = Sends /\ is_in_sync' = is_in_sync
        /\ slips' = slips /\ spurious' = spurious
    BY <1>4 DEF ConsumeResults, vars, syncVars, txVars, noiseVars, Sends
  <2>. QED  BY <2>1 DEF PulsesInvariant
<1>. QED  BY <1>1, <1>2, <1>3, <1>4 DEF Next

\* For blocks of any length and buffers of any size: while no bit slips, sync is acquired in
\* step with the transmitter unless noise has looked like a block three times.
THEOREM SyncIsAcquiredInStep == Spec => AcquiresInStep
<1>1. ReceiverInvariant /\ PulsesInvariant /\ [Next]_vars
        => /\ PulsesInvariant'
           /\ [~is_in_sync /\ is_in_sync' /\ slips' = 0 /\ spurious' < 3 => InStep']_vars
  BY NextPulses
<1>. QED
  BY <1>1, InitReceiver, NextReceiver, InitPulses, PTL DEF Spec, AcquiresInStep
=============================================================================
