-------------------------- MODULE IcyStreamProofs ---------------------------
(***************************************************************************)
(* Proof that a player keeps in step with its ICY stream, for every        *)
(* distance of the blocks, container and text.                             *)
(***************************************************************************)
EXTENDS IcyStream, TLAPS

\* The blocks that are ever built are as long as their length byte says, and fit.
LEMMA BuiltBlocksAreRight ==
    ASSUME NEW title \in Titles
    PROVE  BlockIsRight(icy_build_metadata_block(title))
<1>1. CASE title = << >>
  <2>1. icy_build_metadata_block(title) = [units |-> 0, length |-> 1, title |-> << >>]
    BY <1>1 DEF icy_build_metadata_block
  <2> QED BY <2>1 DEF BlockIsRight, BlockUnit, ICY_METADATA_BLOCK_CAPACITY
<1>2. CASE title # << >>
  <2>1. PICK rt \in Radiotexts : title = icy_copy_text(rt.text)
    BY <1>2 DEF Titles
  <2> DEFINE b == icy_build_metadata_block(title)
  <2>2. b.units \in Nat /\ b.length <= ICY_METADATA_BLOCK_CAPACITY
    BY <2>1, BlocksFit
  <2>3. b.length = 1 + b.units * BlockUnit
    BY <1>2 DEF icy_build_metadata_block
  <2> QED BY <2>2, <2>3 DEF BlockIsRight
<1> QED BY <1>1, <1>2

LEMMA InitEstablishes == Init => InductiveInvariant
<1> SUFFICES ASSUME Init PROVE InductiveInvariant
  OBVIOUS
<1>1. << >> \in Titles
  BY DEF Titles
<1>2. BlockIsRight(metadata) /\ block = metadata
  BY <1>1, BuiltBlocksAreRight DEF Init
<1>3. CountersAgree
  BY LengthsAssumption DEF Init, CountersAgree
<1>4. RoomIsLeft
  BY DEF Init, RoomIsLeft
<1> QED BY <1>1, <1>2, <1>3, <1>4 DEF Init, InductiveInvariant

\* The session's part: a text only changes the title and the session's block.
LEMMA RefreshPreserves ==
    ASSUME InductiveInvariant, NEW rt \in Radiotexts, stream_session_fill_pcm_chunk(rt)
    PROVE  InductiveInvariant'
<1>1. TitleOf(rt) \in Titles
  BY DEF TitleOf, Titles, InductiveInvariant
<1>2. BlockIsRight(metadata)'
  <2>1. metadata' = icy_build_metadata_block(TitleOf(rt))
    BY DEF stream_session_fill_pcm_chunk
  <2>2. BlockIsRight(icy_build_metadata_block(TitleOf(rt)))
    BY <1>1, BuiltBlocksAreRight
  <2> QED BY <2>1, <2>2 DEF BlockIsRight
<1>3. stable_title' \in Titles
  BY <1>1 DEF stream_session_fill_pcm_chunk, InductiveInvariant
<1>4. UNCHANGED <<audio_bytes_until_metadata, block, stage, format, body_offset,
                  output_offset, expects, in_sync, shown>>
  BY DEF stream_session_fill_pcm_chunk, client, player
<1>5. Titles' = Titles
  OBVIOUS
<1>6. BlockIsRight(block)' /\ CountersAgree' /\ RoomIsLeft'
  BY <1>4 DEF InductiveInvariant, BlockIsRight, CountersAgree, RoomIsLeft
<1> QED BY <1>2, <1>3, <1>4, <1>6 DEF InductiveInvariant

LEMMA JoinPreserves ==
    ASSUME InductiveInvariant, Join
    PROVE  InductiveInvariant'
<1>1. /\ stage = "absent" /\ stage' = "new" /\ block' = metadata
      /\ UNCHANGED <<radiotext, stable_title, metadata, audio_bytes_until_metadata, format,
                     body_offset, output_offset, expects, in_sync, shown>>
  BY DEF Join, session, player
<1>2. CountersAgree' /\ RoomIsLeft' /\ BlockIsRight(block)' /\ BlockIsRight(metadata)'
  BY <1>1 DEF InductiveInvariant, CountersAgree, RoomIsLeft, BlockIsRight
<1> QED BY <1>1, <1>2 DEF InductiveInvariant

LEMMA PreludePreserves ==
    ASSUME InductiveInvariant, client_stream_build_prelude
    PROVE  InductiveInvariant'
<1> DEFINE n == format.prelude
<1>1. /\ n \in 0..(ICY_METAINT - 1) /\ n <= Capacity
      /\ ICY_METAINT \in Nat \ {0} /\ Capacity \in Nat
  BY LengthsAssumption DEF InductiveInvariant
<1>2. /\ stage = "new" /\ stage' = "idle"
      /\ audio_bytes_until_metadata' = icy_bytes_until_next_metadata(n)
      /\ in_sync' = (in_sync /\ n <= expects)
      /\ expects' = expects - n
      /\ UNCHANGED <<radiotext, stable_title, metadata, block, format, body_offset,
                     output_offset>>
  BY <1>1 DEF client_stream_build_prelude, Plays, session
<1>3. expects = ICY_METAINT /\ in_sync = TRUE /\ audio_bytes_until_metadata = ICY_METAINT
  BY <1>2 DEF InductiveInvariant, CountersAgree
<1>4. n % ICY_METAINT = n
  BY <1>1
<1>5. CountersAgree' /\ in_sync' = TRUE
  <2>1. CountersAgree'
    BY <1>1, <1>2, <1>3, <1>4 DEF CountersAgree, icy_bytes_until_next_metadata
  <2>2. n <= expects
    BY <1>1, <1>3
  <2> QED BY <1>2, <1>3, <2>1, <2>2
<1>6. RoomIsLeft'
  BY <1>2 DEF RoomIsLeft
<1>7. BlockIsRight(block)' /\ BlockIsRight(metadata)'
  BY <1>2 DEF InductiveInvariant, BlockIsRight
<1> QED BY <1>2, <1>5, <1>6, <1>7 DEF InductiveInvariant

LEMMA PackPreserves ==
    ASSUME InductiveInvariant, client_stream_pack_chunk
    PROVE  InductiveInvariant'
<1>1. /\ stage = "idle" /\ stage' = "wrapping" /\ block' = metadata
      /\ body_offset' = 0 /\ output_offset' = 0
      /\ UNCHANGED <<radiotext, stable_title, metadata, audio_bytes_until_metadata, format,
                     expects, in_sync, shown>>
  BY DEF client_stream_pack_chunk, session, player
<1>2. RoomIsLeft'
  <2>1. format.body \in Nat
    BY LengthsAssumption DEF InductiveInvariant
  <2> QED BY <1>1, <2>1 DEF RoomIsLeft
<1>3. CountersAgree' /\ BlockIsRight(block)' /\ BlockIsRight(metadata)'
  BY <1>1 DEF InductiveInvariant, CountersAgree, BlockIsRight
<1> QED BY <1>1, <1>2, <1>3 DEF InductiveInvariant

\* A pass sends the rest of the chunk, or up to the block's place and the block.
LEMMA PassPreserves ==
    ASSUME InductiveInvariant, icy_metadata_wrap
    PROVE  InductiveInvariant'
<1> DEFINE size == format.body
           u == audio_bytes_until_metadata
           cap == ICY_METADATA_BLOCK_CAPACITY
<1>1. /\ ICY_METAINT \in Nat \ {0} /\ Capacity \in Nat
      /\ size \in 1..ICY_METAINT /\ size + cap <= Capacity
  BY LengthsAssumption DEF InductiveInvariant
<1>2. /\ stage = "wrapping" /\ body_offset \in 0..size /\ body_offset < size
      /\ \/ output_offset = body_offset
         \/ /\ output_offset \in Nat /\ output_offset <= body_offset + cap
            /\ size - body_offset < u
  BY DEF icy_metadata_wrap, InductiveInvariant, RoomIsLeft
<1>3. u \in 1..ICY_METAINT /\ expects = u /\ in_sync = TRUE
  BY DEF InductiveInvariant, CountersAgree
<1>4. /\ block.units \in Nat /\ block.length = 1 + block.units * BlockUnit
      /\ block.length \in Nat /\ block.length <= cap /\ cap = 256
  <2>1. block.units \in Nat /\ block.length = 1 + block.units * 16 /\ block.length <= cap
    BY DEF InductiveInvariant, BlockIsRight, BlockUnit
  <2> QED BY <2>1 DEF BlockUnit, ICY_METADATA_BLOCK_CAPACITY
<1>5. /\ Part \in Nat /\ Part > 0 /\ Part <= size - body_offset /\ Part <= u
      /\ Part = size - body_offset \/ Part = u
  BY <1>1, <1>2, <1>3 DEF Part, Smaller
<1>6. ~(NeededRoom > Capacity)
  <2>1. CASE PassReachesBlock
    <3>1. output_offset = body_offset
      BY <1>1, <1>2, <1>3, <1>5, <2>1 DEF PassReachesBlock
    <3>2. NeededRoom = output_offset + Part + block.length
      BY <2>1 DEF NeededRoom
    <3> QED BY <1>1, <1>2, <1>4, <1>5, <3>1, <3>2
  <2>2. CASE ~PassReachesBlock
    <3>1. NeededRoom = output_offset + Part + 0
      BY <2>2 DEF NeededRoom
    <3> QED BY <1>1, <1>2, <1>4, <1>5, <3>1
  <2> QED BY <2>1, <2>2
<1>7. /\ IF PassReachesBlock THEN PassWithBlock ELSE PassWithoutBlock
      /\ body_offset' = body_offset + Part /\ stage' = stage
      /\ UNCHANGED <<radiotext, stable_title, metadata, block, format>>
  BY <1>6 DEF icy_metadata_wrap, session
<1>8. BlockIsRight(block)' /\ BlockIsRight(metadata)'
  BY <1>7 DEF InductiveInvariant, BlockIsRight
<1>9. CASE PassReachesBlock
  <2>1. /\ u' = ICY_METAINT /\ expects' = ICY_METAINT
        /\ output_offset' = output_offset + Part + block.length
        /\ in_sync' = (in_sync /\ Part = expects /\ block.length = 1 + block.units * BlockUnit)
        /\ Part = u
    BY <1>7, <1>9 DEF PassWithBlock, PassReachesBlock
  <2>2. CountersAgree'
    BY <1>1, <1>2, <1>7, <2>1 DEF CountersAgree
  <2>4. in_sync' = TRUE
    <3>1. Part = expects /\ block.length = 1 + block.units * BlockUnit
      BY <1>3, <1>4, <2>1
    <3> QED BY <1>3, <2>1, <3>1
  <2>3. RoomIsLeft'
    <3>1. output_offset = body_offset
      BY <1>1, <1>2, <1>3, <1>5, <2>1
    <3>2. /\ output_offset' \in Nat /\ output_offset' <= body_offset' + cap
          /\ size - body_offset' < u' /\ body_offset' \in 0..size
      BY <1>1, <1>2, <1>4, <1>5, <1>7, <2>1, <3>1
    <3> QED BY <1>7, <3>2 DEF RoomIsLeft
  <2> QED BY <1>2, <1>7, <1>8, <2>2, <2>3, <2>4 DEF InductiveInvariant
<1>10. CASE ~PassReachesBlock
  <2>1. /\ u' = u - Part /\ expects' = expects - Part
        /\ output_offset' = output_offset + Part
        /\ in_sync' = (in_sync /\ Part <= expects)
        /\ Part # u
    BY <1>7, <1>10 DEF PassWithoutBlock, PassReachesBlock, Plays
  <2>2. CountersAgree'
    BY <1>1, <1>2, <1>3, <1>5, <1>7, <2>1 DEF CountersAgree
  <2>4. in_sync' = TRUE
    <3>1. Part <= expects
      BY <1>3, <1>5
    <3> QED BY <1>3, <2>1, <3>1
  <2>3. RoomIsLeft'
    <3>1. /\ body_offset' \in 0..size
          /\ \/ output_offset' = body_offset'
             \/ /\ output_offset' \in Nat /\ output_offset' <= body_offset' + cap
                /\ size - body_offset' < u'
      BY <1>1, <1>2, <1>3, <1>4, <1>5, <1>7, <2>1
    <3> QED BY <1>7, <3>1 DEF RoomIsLeft
  <2> QED BY <1>2, <1>7, <1>8, <2>2, <2>3, <2>4 DEF InductiveInvariant
<1> QED BY <1>9, <1>10

LEMMA SentPreserves ==
    ASSUME InductiveInvariant, ChunkSent
    PROVE  InductiveInvariant'
<1>1. /\ stage' = "idle" /\ stage = "wrapping"
      /\ UNCHANGED <<radiotext, stable_title, metadata, audio_bytes_until_metadata, block,
                     format, expects, in_sync, shown>>
  BY DEF ChunkSent, session, player
<1>2. CountersAgree' /\ RoomIsLeft' /\ BlockIsRight(block)' /\ BlockIsRight(metadata)'
  BY <1>1 DEF InductiveInvariant, CountersAgree, RoomIsLeft, BlockIsRight
<1> QED BY <1>1, <1>2 DEF InductiveInvariant

LEMMA StutterPreserves ==
    ASSUME InductiveInvariant, UNCHANGED vars
    PROVE  InductiveInvariant'
<1>1. UNCHANGED <<radiotext, stable_title, metadata, audio_bytes_until_metadata, block, stage,
                  format, body_offset, output_offset, expects, in_sync, shown>>
  BY DEF vars, session, client, player
<1>2. CountersAgree' /\ RoomIsLeft' /\ BlockIsRight(block)' /\ BlockIsRight(metadata)'
  BY <1>1 DEF InductiveInvariant, CountersAgree, RoomIsLeft, BlockIsRight
<1> QED BY <1>1, <1>2 DEF InductiveInvariant

LEMMA NextPreserves ==
    ASSUME InductiveInvariant, [Next]_vars
    PROVE  InductiveInvariant'
<1>1. ASSUME NEW rt \in Radiotexts, stream_session_fill_pcm_chunk(rt)
      PROVE  InductiveInvariant'
  BY <1>1, RefreshPreserves
<1>2. CASE client_stream_build_prelude
  BY <1>2, PreludePreserves
<1>3. CASE client_stream_pack_chunk
  BY <1>3, PackPreserves
<1>4. CASE icy_metadata_wrap
  BY <1>4, PassPreserves
<1>5. CASE ChunkSent
  BY <1>5, SentPreserves
<1>6. CASE Join
  BY <1>6, JoinPreserves
<1>7. CASE UNCHANGED vars
  BY <1>7, StutterPreserves
<1> QED BY <1>1, <1>2, <1>3, <1>4, <1>5, <1>6, <1>7 DEF Next, Sends

\* A player never takes audio for a block's length, nor a block for audio, and what a
\* client wraps fits in its buffer.
THEOREM PlayerStaysInSync == Spec => []PlayerInSync
<1>1. Init => InductiveInvariant
  BY InitEstablishes
<1>2. InductiveInvariant /\ [Next]_vars => InductiveInvariant'
  BY NextPreserves
<1>3. InductiveInvariant => PlayerInSync
  BY DEF InductiveInvariant, CountersAgree, PlayerInSync
<1> QED BY <1>1, <1>2, <1>3, PTL DEF Spec
=============================================================================
