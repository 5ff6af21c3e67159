----------------------------- MODULE IcyStream ------------------------------
(***************************************************************************)
(* ICY metadata from the session to a listener's player: src/stream/icy.c, *)
(* with its callers in session.c (a chunk refreshes the session's block)   *)
(* and server.c (a client takes over the block and wraps its chunk).       *)
(*                                                                         *)
(* The streams of sessions without RDS, and of clients that ask for no     *)
(* metadata, are passed on as they are and left out.                       *)
(*                                                                         *)
(* Bytes are counted, not listed: of what is sent only the lengths and the *)
(* title matter.  Which chunk a client sends is StreamServer's business;   *)
(* here there is always one.  A pass of the wrapping loop is one step, and *)
(* the player takes what it appends at once.                               *)
(***************************************************************************)
EXTENDS Integers, Sequences

CONSTANTS
    ICY_METAINT,    \* bytes of the stream between two blocks, 16384
    Capacity,       \* the size of a client's buffer, 32768
    Formats,        \* containers: [prelude, body], the lengths of what is sent of each
    Radiotexts      \* what the parser may have collected: [text, complete]

BlockUnit == 16                     \* a block's length byte counts these
Frame == 15                         \* StreamTitle='';
ICY_METADATA_BLOCK_CAPACITY == 256

VARIABLES
    radiotext,      \* the session's parser: its text, and whether it is complete
    stable_title, metadata,                 \* session.icy: the title and its block
    audio_bytes_until_metadata, block,      \* client.icy: its counter, its copy of the block
    stage,          \* the client: "absent", "new", "idle", "wrapping", or "failed"
    format, body_offset, output_offset,     \* its container and the call's progress
    expects,        \* the player: bytes until it takes one for a block's length,
    in_sync,        \* whether each of those was one,
    shown           \* and the title on its display

session == <<radiotext, stable_title, metadata>>
client == <<audio_bytes_until_metadata, block, stage, format, body_offset, output_offset>>
player == <<expects, in_sync, shown>>
vars == <<session, client, player>>

-----------------------------------------------------------------------------
(* Titles and blocks *)

\* Quotes, which would end the title, become blanks; what is not printable in ASCII is
\* dropped, and then the blanks at both ends.
icy_copy_text(text) ==
    LET printable == SelectSeq(text, LAMBDA c : c # "foreign")
        title == [n \in DOMAIN printable |->
                     IF printable[n] = "quote" THEN "blank" ELSE printable[n]]
        solid == {n \in DOMAIN title : title[n] # "blank"}
    IN  IF solid = {} THEN << >>
        ELSE SubSeq(title, CHOOSE n \in solid : \A m \in solid : n <= m,
                           CHOOSE n \in solid : \A m \in solid : n >= m)

Units(title) == (Frame + Len(title) + BlockUnit - 1) \div BlockUnit

\* A block: its length byte, its length, its title.  No title is a lone zero.
icy_build_metadata_block(title) ==
    IF title = << >> THEN [units |-> 0, length |-> 1, title |-> << >>]
    ELSE [units |-> Units(title), length |-> 1 + Units(title) * BlockUnit, title |-> title]

\* A radiotext has 64 characters, so its block fits and can always be built.
ASSUME BlocksFit ==
    \A rt \in Radiotexts :
        LET built == icy_build_metadata_block(icy_copy_text(rt.text))
        IN  built.units \in Nat /\ built.length <= ICY_METADATA_BLOCK_CAPACITY

\* The prelude ends before the first block's place, a chunk is no longer than what is
\* between two blocks, and a client's buffer has room for a chunk and a block.
ASSUME LengthsAssumption ==
    /\ ICY_METAINT \in Nat \ {0} /\ Capacity \in Nat
    /\ \A f \in Formats :
          /\ f.prelude \in 0..(ICY_METAINT - 1) /\ f.prelude <= Capacity
          /\ f.body \in 1..ICY_METAINT
          /\ f.body + ICY_METADATA_BLOCK_CAPACITY <= Capacity

\* Mutant: a text that is incomplete again takes the title away.
TitleLost(rt) == IF rt.complete THEN icy_copy_text(rt.text) ELSE << >>

\* The title stays until another text is complete.
TitleOf(rt) ==
    IF rt.complete /\ rt.text # << >> THEN icy_copy_text(rt.text) ELSE stable_title

\* Mutant: the prelude is not part of the stream.
PreludeNotCounted(bytes) == ICY_METAINT

icy_bytes_until_next_metadata(bytes) == ICY_METAINT - (bytes % ICY_METAINT)

-----------------------------------------------------------------------------
(* The session *)

NoText == [text |-> << >>, complete |-> FALSE]

\* A session has been configured; there is no text yet.
Init ==
    /\ radiotext = NoText
    /\ stable_title = << >>
    /\ metadata = icy_build_metadata_block(<< >>)
    /\ audio_bytes_until_metadata = ICY_METAINT
    /\ block = metadata
    /\ stage = "absent"
    /\ format \in Formats
    /\ body_offset = 0 /\ output_offset = 0
    /\ expects = ICY_METAINT /\ in_sync = TRUE /\ shown = << >>

\* A chunk is produced: the parser may have got further, and the block follows it.
stream_session_fill_pcm_chunk(rt) ==
    /\ radiotext' = rt
    /\ stable_title' = IF rt.complete /\ TitleOf(rt) # << >> THEN TitleOf(rt) ELSE stable_title
    /\ metadata' = icy_build_metadata_block(TitleOf(rt))
    /\ UNCHANGED <<client, player>>

-----------------------------------------------------------------------------
(* A client and its player *)

\* The player takes n bytes of the body.
Plays(n) == in_sync' = (in_sync /\ n <= expects)

\* A request joins the session and copies its state, at any time.
Join ==
    /\ stage = "absent"
    /\ stage' = "new"
    /\ block' = metadata
    /\ UNCHANGED <<session, audio_bytes_until_metadata, format, body_offset, output_offset,
                   player>>

client_stream_build_prelude ==
    /\ stage = "new"
    /\ IF format.prelude > Capacity
       THEN stage' = "failed" /\ UNCHANGED <<audio_bytes_until_metadata, player>>
       ELSE /\ stage' = "idle"
            /\ audio_bytes_until_metadata' = icy_bytes_until_next_metadata(format.prelude)
            /\ Plays(format.prelude)
            /\ expects' = expects - format.prelude
            /\ UNCHANGED shown
    /\ UNCHANGED <<session, block, format, body_offset, output_offset>>

\* The client takes the session's block as it is now, for a chunk that may be older.
client_stream_pack_chunk ==
    /\ stage = "idle"
    /\ block' = metadata
    /\ stage' = "wrapping"
    /\ body_offset' = 0 /\ output_offset' = 0
    /\ UNCHANGED <<session, audio_bytes_until_metadata, format, player>>

Smaller(m, n) == IF m < n THEN m ELSE n

Part == Smaller(format.body - body_offset, audio_bytes_until_metadata)

\* A pass that ends short of the block's place: the body is used up.
PassWithoutBlock ==
    /\ audio_bytes_until_metadata' = audio_bytes_until_metadata - Part
    /\ output_offset' = output_offset + Part
    /\ Plays(Part)
    /\ expects' = expects - Part
    /\ UNCHANGED shown

\* The player reads the length byte where it expects one, and shows the title if there
\* is one.
PassWithBlock ==
    /\ audio_bytes_until_metadata' = ICY_METAINT
    /\ output_offset' = output_offset + Part + block.length
    /\ in_sync' = (in_sync /\ Part = expects /\ block.length = 1 + block.units * BlockUnit)
    /\ expects' = ICY_METAINT
    /\ shown' = IF block.units = 0 THEN shown ELSE block.title

PassReachesBlock == Part = audio_bytes_until_metadata

NeededRoom == output_offset + Part + (IF PassReachesBlock THEN block.length ELSE 0)

icy_metadata_wrap ==
    /\ stage = "wrapping" /\ body_offset < format.body
    /\ IF NeededRoom > Capacity
       THEN /\ stage' = "failed"
            /\ UNCHANGED <<audio_bytes_until_metadata, body_offset, output_offset, player>>
       ELSE /\ IF PassReachesBlock THEN PassWithBlock ELSE PassWithoutBlock
            /\ body_offset' = body_offset + Part
            /\ UNCHANGED stage
    /\ UNCHANGED <<session, block, format>>

\* The wrapped chunk has been handed to the connection.
ChunkSent ==
    /\ stage = "wrapping" /\ body_offset = format.body
    /\ stage' = "idle"
    /\ body_offset' = 0 /\ output_offset' = 0
    /\ UNCHANGED <<session, audio_bytes_until_metadata, block, format, player>>

Sends == Join \/ client_stream_build_prelude \/ client_stream_pack_chunk \/ icy_metadata_wrap \/ ChunkSent

Next == (\E rt \in Radiotexts : stream_session_fill_pcm_chunk(rt)) \/ Sends

\* The client keeps reading: StreamServer shows that it is then served.
Spec == Init /\ [][Next]_vars /\ WF_vars(Sends)
-----------------------------------------------------------------------------
(* Properties *)

\* The player finds a block exactly where it looks for one, each as long as its length byte
\* says, whatever the container's prelude and chunks are and whenever the title changes;
\* and what is wrapped fits in the buffer.  So it never plays a title or shows audio.
PlayerInSync ==
    /\ stage # "failed"
    /\ in_sync
    /\ stage \notin {"absent", "new"} => expects = audio_bytes_until_metadata

\* The title of a text that stays complete is shown in the end, and stays on display while
\* another text is still incomplete.
TitleArrives ==
    \A rt \in {r \in Radiotexts : r.complete /\ icy_copy_text(r.text) # << >>} :
        (<>[](stable_title = icy_copy_text(rt.text) /\ (radiotext = rt \/ ~radiotext.complete)))
            => <>[](shown = icy_copy_text(rt.text))

Titles == {<< >>} \cup {icy_copy_text(rt.text) : rt \in Radiotexts}

BlockIsRight(b) ==
    /\ b.units \in Nat
    /\ b.length = 1 + b.units * BlockUnit
    /\ b.length <= ICY_METADATA_BLOCK_CAPACITY

CountersAgree ==
    /\ audio_bytes_until_metadata \in 1..ICY_METAINT
    /\ expects = audio_bytes_until_metadata
    /\ stage \in {"absent", "new"} => expects = ICY_METAINT

\* A chunk has met no block yet, or one, and then it ends before the next.
RoomIsLeft ==
    stage = "wrapping" =>
        /\ body_offset \in 0..format.body
        /\ \/ output_offset = body_offset
           \/ /\ output_offset \in Nat
              /\ output_offset <= body_offset + ICY_METADATA_BLOCK_CAPACITY
              /\ format.body - body_offset < audio_bytes_until_metadata

\* The invariant the proof rests on.
InductiveInvariant ==
    /\ stage \in {"absent", "new", "idle", "wrapping"}
    /\ in_sync = TRUE
    /\ format \in Formats
    /\ stable_title \in Titles
    /\ BlockIsRight(metadata) /\ BlockIsRight(block)
    /\ CountersAgree
    /\ RoomIsLeft
=============================================================================
