---------------------------- MODULE StreamServer ----------------------------
(***************************************************************************)
(* The live stream server of src/stream/server.c: the HTTP clients, the    *)
(* one session whose PCM chunks they share, the bounded list of buffered   *)
(* chunks and the session's pacing clock (src/stream/session.c).           *)
(*                                                                         *)
(* Every client is served by a thread of its own.  handle_request and      *)
(* stream_content_free run under server->lock, and each pass of the loop   *)
(* of stream_content_reader is one critical section of that lock, so each  *)
(* is one action.  What MHD does with a connection between two calls of    *)
(* the reader (write to the socket, notice that the peer has gone) is the  *)
(* freedom to take, or not to take, the client's next action.              *)
(*                                                                         *)
(* Time and audio are counted in chunks: one unit of now is the duration   *)
(* of a chunk and audio_frames_queued is in chunks.                        *)
(***************************************************************************)
EXTENDS Naturals, Sequences

CONSTANTS
    Clients,      \* connections the HTTP library may serve at a time
    Settings,     \* stream settings compared by stream_request_matches_session
    FrequencyOf,  \* the frequency each of the settings asks for
    MaxChunks,    \* STREAM_MAX_BUFFERED_CHUNKS
    NoSettings,   \* the zeroed request of a session or stream that never was
    NoFrequency   \* the tuner before its first tune, or left half way by a failed one

ASSUME MaxChunksAssumption == MaxChunks \in Nat \ {0}

ASSUME NoSettingsAssumption == NoSettings \notin Settings

VARIABLES
    \* struct server
    session_active, active_session_id, session_request,
    chunks,       \* the list from chunk_head to chunk_tail
    chunk_count,
    \* struct stream_session: the pacing clock
    stream_clock_started, stream_started_at, audio_frames_queued, now,
    \* struct rtl_source, as far as handle_request can tell
    tuned_frequency, async_started,
    \* struct client_stream, for each connection
    phase, session_id, next_chunk, prelude_pending, dropped_for_lag, request,
    \* history: number of the last chunk of its session a client was given
    position,
    \* history: setting the tuner has failed since the active session began
    tune_failed

clientVars == <<phase, session_id, next_chunk, prelude_pending,
                dropped_for_lag, request, position>>
clockVars == <<stream_clock_started, stream_started_at, audio_frames_queued>>
tunerVars == <<tuned_frequency, async_started, tune_failed>>
sessionVars == <<session_active, active_session_id, session_request>>
vars == <<sessionVars, chunks, chunk_count, clockVars, now, tunerVars, clientVars>>

\* The NULL of client->next_chunk, and of a list's last chunk->next.
NoChunk == [session |-> 0, number |-> 0]

(***************************************************************************)
(* A connection: no stream ("idle"), between two calls of its reader       *)
(* ("sending"), inside the reader's loop, where the library cannot free it *)
(* ("reading"), or told to end and not yet freed ("ended").                *)
(***************************************************************************)
Phases == {"idle", "sending", "reading", "ended"}

-----------------------------------------------------------------------------
(* Helpers of server.c *)

Registered == {c \in Clients : phase[c] # "idle"}

\* The clients server_client_count counts for active_session_id.
CurrentClients == {c \in Registered : session_id[c] = active_session_id}

stream_request_matches_session(s) == session_active /\ session_request = s

\* Mutant: skips a chunk.
SkipInList(list, chunk) ==
    LET i == CHOOSE i \in DOMAIN list : list[i] = chunk
    IN  IF i + 1 < Len(list) THEN list[i + 2] ELSE NoChunk

\* chunk->next.
NextInList(list, chunk) ==
    LET i == CHOOSE i \in DOMAIN list : list[i] = chunk
    IN  IF i < Len(list) THEN list[i + 1] ELSE NoChunk

Least(S) == CHOOSE i \in S : \A j \in S : i <= j

\* Mutant: frees one chunk too many.
PruneOneTooMany(list, cursors) ==
    LET needed == {i \in DOMAIN list : list[i] \in cursors}
    IN  IF needed = {} THEN <<>> ELSE SubSeq(list, Least(needed) + 1, Len(list))

\* Mutant: an if in place of the while.
PruneOnce(list, cursors) ==
    IF list = <<>> \/ Head(list) \in cursors THEN list ELSE Tail(list)

\* Frees chunks from the head until one of the cursors points at the head.
server_prune_chunks(list, cursors) ==
    LET needed == {i \in DOMAIN list : list[i] \in cursors}
    IN  IF needed = {} THEN <<>> ELSE SubSeq(list, Least(needed), Len(list))

Cursors(clients, next) == {next[c] : c \in clients}

Full == chunk_count >= MaxChunks

\* Mutant: drops whoever has something left to read.
Readers == {c \in CurrentClients : Full /\ next_chunk[c] # NoChunk}

\* The clients server_make_chunk_room drops: those whose next chunk is the head.
Laggards == {c \in CurrentClients : Full /\ next_chunk[c] = Head(chunks)}

RoomCanBeMade == Full => Laggards # {}

\* One pass of the loop makes room: the list never exceeds MaxChunks and, once
\* nobody points at the head, pruning frees at least the head.
ChunksWithRoom ==
    IF Full THEN server_prune_chunks(chunks, Cursors(CurrentClients \ Laggards, next_chunk))
            ELSE chunks

\* chunk_count is decremented for each chunk that pruning to this list frees.
CountAfterPrune(list) == chunk_count - (Len(chunks) - Len(list))

server_make_chunk_room ==
    /\ session_id' = [c \in Clients |-> IF c \in Laggards THEN 0 ELSE session_id[c]]
    /\ dropped_for_lag' = [c \in Clients |-> c \in Laggards \/ dropped_for_lag[c]]

-----------------------------------------------------------------------------
Init ==
    /\ session_active = FALSE
    /\ active_session_id = 0
    /\ session_request = NoSettings
    /\ chunks = <<>>
    /\ chunk_count = 0
    /\ stream_clock_started = FALSE
    /\ stream_started_at = 0
    /\ audio_frames_queued = 0
    /\ now = 0
    /\ tuned_frequency = NoFrequency
    /\ async_started = FALSE
    /\ tune_failed = FALSE
    /\ phase = [c \in Clients |-> "idle"]
    /\ session_id = [c \in Clients |-> 0]
    /\ next_chunk = [c \in Clients |-> NoChunk]
    /\ prelude_pending = [c \in Clients |-> FALSE]
    /\ dropped_for_lag = [c \in Clients |-> FALSE]
    /\ request = [c \in Clients |-> NoSettings]
    /\ position = [c \in Clients |-> 0]

-----------------------------------------------------------------------------
(* handle_request *)

\* The end of handle_request: the stream joins the session that is now active.
RegisterClient(c, s, id, live_edge) ==
    /\ phase' = [phase EXCEPT ![c] = "sending"]
    /\ session_id' = [session_id EXCEPT ![c] = id]
    /\ next_chunk' = [next_chunk EXCEPT ![c] = NoChunk]
    /\ prelude_pending' = [prelude_pending EXCEPT ![c] = TRUE]
    /\ dropped_for_lag' = [dropped_for_lag EXCEPT ![c] = FALSE]
    /\ request' = [request EXCEPT ![c] = s]
    /\ position' = [position EXCEPT ![c] = live_edge]

NextSessionId == active_session_id + 1

\* The request names the settings of the active session: share it.
JoinSession(c, s) ==
    /\ phase[c] = "idle"
    /\ stream_request_matches_session(s)
    /\ RegisterClient(c, s, active_session_id, audio_frames_queued)
    /\ UNCHANGED <<sessionVars, chunks, chunk_count, clockVars, now, tunerVars>>

\* Any other request: tune, then throw the active session away.
ReplaceSession(c, s) ==
    /\ phase[c] = "idle"
    /\ ~stream_request_matches_session(s)
    /\ tuned_frequency' = FrequencyOf[s]
    /\ async_started' = TRUE
    /\ tune_failed' = FALSE
    /\ chunks' = <<>>
    /\ chunk_count' = 0
    /\ stream_clock_started' = FALSE
    /\ stream_started_at' = 0
    /\ audio_frames_queued' = 0
    /\ session_request' = s
    /\ session_active' = TRUE
    /\ active_session_id' = NextSessionId
    /\ RegisterClient(c, s, NextSessionId, 0)
    /\ UNCHANGED now

\* What rtlsdr_set_center_freq may leave behind when it fails: the tuner where it
\* was, on the new frequency, or on neither.
LeftBehind(frequency) == {tuned_frequency, frequency, NoFrequency}

\* rtl_source_tune fails to set the tuner.  A session that is active plays on.
TuneFails(s) ==
    /\ tuned_frequency' \in LeftBehind(FrequencyOf[s])
    /\ tune_failed' = TRUE

\* Mutant: the buffer is reset on every tune, and that may fail.
EveryTuneResets(s) ==
    /\ tuned_frequency' = FrequencyOf[s]
    /\ UNCHANGED tune_failed

\* The first tune sets the tuner, and then resetting the buffer or starting the
\* capture thread fails.
CaptureFails(s) ==
    /\ ~async_started
    /\ tuned_frequency' = FrequencyOf[s]
    /\ UNCHANGED tune_failed

\* The client is answered 503, no stream is registered, and what is played goes on.
RefuseRequest(c, s) ==
    /\ phase[c] = "idle"
    /\ ~stream_request_matches_session(s)
    /\ TuneFails(s) \/ CaptureFails(s)
    /\ UNCHANGED <<async_started, sessionVars, chunks, chunk_count, clockVars, now, clientVars>>

-----------------------------------------------------------------------------
(* stream_content_reader *)

Serving(c) == phase[c] \in {"sending", "reading"}

StillCurrent(c) == session_active /\ session_id[c] = active_session_id

ReturnFromReader(c, outcome) == phase' = [phase EXCEPT ![c] = outcome]

\* The first call sends the container's prelude, outside the lock.
SendPrelude(c) ==
    /\ phase[c] = "sending"
    /\ prelude_pending[c]
    /\ \/ /\ ReturnFromReader(c, "sending")
          /\ prelude_pending' = [prelude_pending EXCEPT ![c] = FALSE]
       \/ /\ ReturnFromReader(c, "ended")
          /\ UNCHANGED prelude_pending
    /\ UNCHANGED <<sessionVars, chunks, chunk_count, clockVars, now, tunerVars,
                   session_id, next_chunk, dropped_for_lag, request, position>>

EndReader(c) ==
    /\ ReturnFromReader(c, "ended")
    /\ UNCHANGED <<sessionVars, chunks, chunk_count, clockVars, now, tunerVars,
                   session_id, next_chunk, prelude_pending, dropped_for_lag,
                   request, position>>

\* Mutant: only a stopped session ends its streams.
EndWhenStopped(c) ==
    Serving(c) /\ ~prelude_pending[c] /\ ~session_active /\ EndReader(c)

\* The session was replaced or stopped, or this client was dropped from it.
EndOfStream(c) ==
    Serving(c) /\ ~prelude_pending[c] /\ ~StillCurrent(c) /\ EndReader(c)

AdvanceCursor(c) ==
    /\ next_chunk' = [next_chunk EXCEPT ![c] = NextInList(chunks, next_chunk[c])]
    /\ position' = [position EXCEPT ![c] = next_chunk[c].number]

\* A buffered chunk is waiting: pack it, free what nobody needs, return it.
TakeChunk(c) ==
    /\ Serving(c) /\ ~prelude_pending[c]
    /\ StillCurrent(c)
    /\ next_chunk[c] # NoChunk
    /\ AdvanceCursor(c)
    /\ chunks' = server_prune_chunks(chunks, Cursors(CurrentClients, next_chunk'))
    /\ chunk_count' = CountAfterPrune(chunks')
    /\ ReturnFromReader(c, "sending")
    /\ UNCHANGED <<sessionVars, clockVars, now, tunerVars,
                   session_id, prelude_pending, dropped_for_lag, request>>

\* Packing fails after the cursor has moved, and returns without pruning.
PackFails(c) ==
    /\ Serving(c) /\ ~prelude_pending[c]
    /\ StillCurrent(c)
    /\ next_chunk[c] # NoChunk
    /\ AdvanceCursor(c)
    /\ ReturnFromReader(c, "ended")
    /\ UNCHANGED <<sessionVars, chunks, chunk_count, clockVars, now, tunerVars,
                   session_id, prelude_pending, dropped_for_lag, request>>

\* Mutant: the clock is started anew each time.
RestartClock ==
    /\ stream_clock_started' = TRUE
    /\ stream_started_at' = now

stream_session_start_clock ==
    /\ stream_clock_started' = TRUE
    /\ stream_started_at' = IF stream_clock_started THEN stream_started_at ELSE now

\* stream_session_compute_audio_delay is <= 0, on the clock just started.
AudioIsDue == stream_started_at' + audio_frames_queued <= now

AtLiveEdge(c) ==
    /\ Serving(c) /\ ~prelude_pending[c]
    /\ StillCurrent(c)
    /\ next_chunk[c] = NoChunk

\* Mutant: moves every client of the session to the new chunk.
EveryCursorToChunk(chunk) ==
    [d \in Clients |-> IF d \in CurrentClients THEN chunk ELSE next_chunk[d]]

\* The clients of the session that had reached the end are given the new chunk.
CursorsAfterAppend(chunk) ==
    [d \in Clients |-> IF d \in CurrentClients /\ next_chunk[d] = NoChunk
                       THEN chunk ELSE next_chunk[d]]

\* Nothing buffered for this client and a chunk is due: produce it for everyone.
server_produce_chunk(c) ==
    LET chunk == [session |-> active_session_id, number |-> audio_frames_queued + 1]
    IN  /\ AtLiveEdge(c)
        /\ stream_session_start_clock
        /\ AudioIsDue
        /\ RoomCanBeMade
        /\ server_make_chunk_room
        /\ chunks' = Append(ChunksWithRoom, chunk)
        /\ chunk_count' = CountAfterPrune(ChunksWithRoom) + 1
        /\ next_chunk' = CursorsAfterAppend(chunk)
        /\ audio_frames_queued' = audio_frames_queued + 1
        /\ ReturnFromReader(c, "reading")
        /\ UNCHANGED <<sessionVars, now, tunerVars, prelude_pending, request, position>>

\* No room although nobody is behind, or no memory once room was made.
ProduceFails(c) ==
    /\ AtLiveEdge(c)
    /\ stream_session_start_clock
    /\ AudioIsDue
    /\ \/ /\ ~RoomCanBeMade
          /\ UNCHANGED <<chunks, chunk_count, session_id, dropped_for_lag>>
       \/ /\ RoomCanBeMade
          /\ server_make_chunk_room
          /\ chunks' = ChunksWithRoom
          /\ chunk_count' = CountAfterPrune(ChunksWithRoom)
    /\ ReturnFromReader(c, "ended")
    /\ UNCHANGED <<sessionVars, audio_frames_queued, now, tunerVars, next_chunk,
                   prelude_pending, request, position>>

\* Ahead of the clock: sleep inside the reader and look again.
WaitForClock(c) ==
    /\ AtLiveEdge(c)
    /\ stream_session_start_clock
    /\ ~AudioIsDue
    /\ ReturnFromReader(c, "reading")
    /\ UNCHANGED <<sessionVars, chunks, chunk_count, audio_frames_queued, now, tunerVars,
                   session_id, next_chunk, prelude_pending, dropped_for_lag,
                   request, position>>

-----------------------------------------------------------------------------
\* Mutant: counts the clients of the stream's own session, as the log line does.
LastOfItsSession(c) ==
    session_active /\ {d \in Registered \ {c} : session_id[d] = session_id[c]} = {}

StopsSession(c) == session_active /\ CurrentClients \ {c} = {}

\* The connection is closed: the last current client stops the session.
stream_content_free(c) ==
    LET others == CurrentClients \ {c}
        stops == StopsSession(c)
    IN  /\ phase[c] \in {"sending", "ended"}
        /\ session_active' = (session_active /\ ~stops)
        /\ chunks' = IF stops THEN <<>>
                     ELSE server_prune_chunks(chunks, Cursors(others, next_chunk))
        /\ chunk_count' = IF stops THEN 0 ELSE CountAfterPrune(chunks')
        /\ phase' = [phase EXCEPT ![c] = "idle"]
        /\ session_id' = [session_id EXCEPT ![c] = 0]
        /\ next_chunk' = [next_chunk EXCEPT ![c] = NoChunk]
        /\ prelude_pending' = [prelude_pending EXCEPT ![c] = FALSE]
        /\ dropped_for_lag' = [dropped_for_lag EXCEPT ![c] = FALSE]
        /\ request' = [request EXCEPT ![c] = NoSettings]
        /\ position' = [position EXCEPT ![c] = 0]
        /\ UNCHANGED <<active_session_id, session_request, clockVars, now, tunerVars>>

Tick ==
    /\ now' = now + 1
    /\ UNCHANGED <<sessionVars, chunks, chunk_count, clockVars, tunerVars, clientVars>>

stream_content_reader(c) ==
    \/ SendPrelude(c)
    \/ EndOfStream(c)
    \/ TakeChunk(c)
    \/ PackFails(c)
    \/ server_produce_chunk(c)
    \/ ProduceFails(c)
    \/ WaitForClock(c)

handle_request(c) ==
    \E s \in Settings : JoinSession(c, s) \/ ReplaceSession(c, s) \/ RefuseRequest(c, s)

Next ==
    \/ Tick
    \/ \E c \in Clients :
          handle_request(c) \/ stream_content_reader(c) \/ stream_content_free(c)

Spec == Init /\ [][Next]_vars

-----------------------------------------------------------------------------
(***************************************************************************)
(* Fairness.  The library calls the reader of a connection whose peer      *)
(* takes the bytes, and frees a connection once its reader has ended it.   *)
(* A peer that stops reading leaves its connection between two calls: no   *)
(* fairness for the clients outside LivePeers, except inside the reader,   *)
(* whose loop runs whatever the peer does.                                 *)
(***************************************************************************)
FreeEnded(c) == phase[c] = "ended" /\ stream_content_free(c)

ReaderContinues(c) == phase[c] = "reading" /\ stream_content_reader(c)

Fairness(livePeers) ==
    /\ \A c \in Clients : WF_vars(ReaderContinues(c)) /\ WF_vars(FreeEnded(c))
    /\ \A c \in livePeers : WF_vars(stream_content_reader(c))

-----------------------------------------------------------------------------
(* Properties *)

Chunk == [session : Nat, number : Nat]

\* Every variable keeps its type; a stream knows the settings it asked for.
TypeOK ==
    /\ session_active \in BOOLEAN
    /\ active_session_id \in Nat
    /\ session_request \in Settings \cup {NoSettings}
    /\ chunks \in Seq(Chunk)
    /\ chunk_count \in Nat
    /\ stream_clock_started \in BOOLEAN
    /\ stream_started_at \in Nat
    /\ audio_frames_queued \in Nat
    /\ now \in Nat
    /\ tuned_frequency \in {FrequencyOf[s] : s \in Settings} \cup {NoFrequency}
    /\ async_started \in BOOLEAN
    /\ tune_failed \in BOOLEAN
    /\ phase \in [Clients -> Phases]
    /\ session_id \in [Clients -> Nat]
    /\ next_chunk \in [Clients -> Chunk]
    /\ prelude_pending \in [Clients -> BOOLEAN]
    /\ dropped_for_lag \in [Clients -> BOOLEAN]
    /\ request \in [Clients -> Settings \cup {NoSettings}]
    /\ position \in [Clients -> Nat]

\* The cursor of a client of the active session is NULL or points at a chunk that
\* is still in the list: the reader never touches a freed chunk, though chunks are
\* freed by other clients' readers, by replaced sessions and by drops.
NoDanglingCursor ==
    \A c \in CurrentClients :
        next_chunk[c] = NoChunk \/ \E i \in DOMAIN chunks : chunks[i] = next_chunk[c]

\* What a client will be given next is the chunk right after the last one it was
\* given: no gap and no repeat within a session, and NULL only at the live edge.
GapFreeCursor ==
    \A c \in CurrentClients :
        next_chunk[c] = IF position[c] = audio_frames_queued THEN NoChunk
                        ELSE [session |-> active_session_id, number |-> position[c] + 1]

\* The list is the newest of the q chunks made in session id, in order.
IsNewest(list, id, q) ==
    /\ Len(list) <= q
    /\ \A i \in 1..Len(list) : list[i] = [session |-> id, number |-> q - Len(list) + i]

\* The list holds the newest chunks of the active session in order, chunk_count
\* counts them and never exceeds STREAM_MAX_BUFFERED_CHUNKS.
ChunkListConsistent ==
    /\ chunk_count = Len(chunks)
    /\ chunk_count <= MaxChunks
    /\ IsNewest(chunks, active_session_id, audio_frames_queued)

\* A buffered chunk is kept only for a client that still needs the head, unless a
\* reader of the session that failed has not been freed yet.
HeadIsNeeded ==
    chunks # <<>> =>
        \/ \E c \in CurrentClients : next_chunk[c] = Head(chunks)
        \/ \E c \in CurrentClients : phase[c] = "ended"

\* A session is active exactly as long as a connected stream belongs to it: the
\* last one to leave stops it, and a drop never leaves a session nobody plays.
ActiveWhilePlayed == session_active <=> CurrentClients # {}

\* The device is on the frequency of the active session for as long as no request
\* since has failed to set the tuner.
ActiveSessionIsTuned ==
    session_active =>
        /\ async_started
        /\ tune_failed \/ tuned_frequency = FrequencyOf[session_request]

\* Clients that share the session asked for its settings.
PlaysWhatWasAskedFor == \A c \in CurrentClients : request[c] = session_request

\* A client that is played to hears a running capture of the frequency it asked for
\* itself, whatever others have asked for, shared, replaced or been refused since, with
\* one exception: the code answers 503 to a request whose rtlsdr_set_center_freq
\* failed and leaves the session playing on wherever that has left the tuner.
HeardAsAskedFor ==
    \A c \in CurrentClients :
        /\ async_started
        /\ tune_failed \/ tuned_frequency = FrequencyOf[request[c]]

\* Session ids only grow, 0 is nobody's, and a session without listeners keeps no
\* chunks: with these a stream once removed can never become current again.
SessionBookkeeping ==
    /\ ~session_active => chunks = <<>>
    /\ session_active => active_session_id # 0
    /\ \A c \in Clients : session_id[c] <= active_session_id

\* Everything a client of the session has not been given is still in the list.
UnheardIsBuffered ==
    \A c \in CurrentClients :
        /\ position[c] <= audio_frames_queued
        /\ audio_frames_queued <= position[c] + Len(chunks)

\* Production is paced: never more than one chunk ahead of the session's clock.
NeverAheadOfClock ==
    IF stream_clock_started
    THEN stream_started_at <= now /\ stream_started_at + audio_frames_queued <= now + 1
    ELSE audio_frames_queued = 0

\* Inductive: what the proofs carry from step to step.
InductiveInvariant ==
    /\ TypeOK
    /\ ChunkListConsistent
    /\ UnheardIsBuffered
    /\ GapFreeCursor
    /\ SessionBookkeeping
    /\ ActiveWhilePlayed
    /\ ActiveSessionIsTuned
    /\ PlaysWhatWasAskedFor
    /\ NeverAheadOfClock

\* Only a client a whole buffer behind the live edge is ever dropped for lag.
DropOnlyLaggards ==
    [][\A c \in Clients : ~dropped_for_lag[c] /\ dropped_for_lag'[c] =>
           position[c] + MaxChunks <= audio_frames_queued]_vars

\* A stream that is no longer of the active session, and whose peer still reads,
\* is eventually closed or has come back with another request.
RemovedStreamsEnd(livePeers) ==
    \A c \in livePeers :
        (c \in Registered /\ ~StillCurrent(c)) ~> (c \notin Registered)

\* Every chunk that falls due while a client whose peer still reads is tuned is
\* eventually handed to it, whatever the other clients do, unless it is dropped,
\* replaced, fails or leaves.
DueIsDelivered(livePeers, horizon) ==
    \A c \in livePeers :
        \A n \in 0..horizon :
            (c \in CurrentClients /\ stream_clock_started /\ stream_started_at + n <= now)
                ~> (c \notin CurrentClients \/ phase[c] = "ended" \/ position[c] > n)

\* A client a whole buffer behind, dropped from the session, is disconnected.
LaggardsAreDisconnected ==
    \A c \in Clients : dropped_for_lag[c] ~> (c \notin Registered)

-----------------------------------------------------------------------------
(* What the server promises its listeners. *)

ListenerOf(c) ==
    CASE phase[c] = "idle"        -> "away"
      [] c \in CurrentClients     -> "tuned"
      [] OTHER                    -> "cut"

Broadcast ==
    INSTANCE LiveBroadcast WITH
        Listeners <- Clients, Stations <- Settings, NoStation <- NoSettings,
        MaxBehind <- MaxChunks,
        live <- session_active, station <- session_request,
        aired <- audio_frames_queued,
        listener <- [c \in Clients |-> ListenerOf(c)], heard <- position

\* The server implements LiveBroadcast: sharing, buffering, pacing, drops and
\* failures are invisible but for whole pieces, in order, or being cut off.
ImplementsBroadcast == Broadcast!Spec
=============================================================================
