------------------------- MODULE StreamServerProofs -------------------------
(***************************************************************************)
(* Proofs about StreamServer for any sets of clients and settings and any  *)
(* number of buffered chunks; and, at the end, about ServerRun, which puts *)
(* its start-up and shutdown around them.                                  *)
(***************************************************************************)
EXTENDS ServerRun, TLAPS, SequenceTheorems, FiniteSetTheorems, WellFoundedInduction

(***************************************************************************)
(* What pruning leaves: a suffix of the list that still holds every chunk  *)
(* a cursor points at, and whose head, if any, is pointed at.              *)
(***************************************************************************)
LEMMA LeastIsLeast ==
    ASSUME NEW S \in SUBSET Nat, S # {}
    PROVE  Least(S) \in S /\ \A j \in S : Least(S) <= j
<1> DEFINE below == {0 .. i : i \in S}
           smaller == StrictSubsetOrdering(Nat)
<1>1. below \subseteq FiniteSubsetsOf(Nat) /\ below # {}
  <2>1. \A i \in S : 0 .. i \in SUBSET Nat /\ IsFiniteSet(0 .. i)
    BY FS_Interval
  <2>. QED  BY <2>1 DEF FiniteSubsetsOf
<1>2. PICK x \in below : \A y \in below : ~(<<y, x>> \in smaller)
  <2> HIDE DEF below
  <2>. QED  BY <1>1, FS_StrictSubsetOrderingWellFounded, WFMin
<1>3. PICK i \in S : x = 0 .. i
  OBVIOUS
<1>4. ASSUME NEW j \in S, j < i
      PROVE  FALSE
  <2>1. 0 .. j \in below /\ 0 .. j \subseteq 0 .. i /\ i \notin 0 .. j /\ i \in 0 .. i
    BY <1>4
  <2>2. <<0 .. j, x>> \in smaller
    <3>1. 0 .. j \subseteq Nat /\ 0 .. i \subseteq Nat /\ 0 .. j # 0 .. i
      BY <2>1
    <3>. QED  BY <1>3, <2>1, <3>1 DEF StrictSubsetOrdering
  <2>. QED  BY <1>2, <2>1, <2>2
<1>5. \A j \in S : i <= j
  BY <1>4
<1>. QED  BY <1>5 DEF Least

IsNeededSuffix(p, list, cursors) ==
    /\ p \in Seq(Chunk)
    /\ Len(p) \in Nat /\ Len(p) <= Len(list)
    /\ \A i \in 1..Len(p) : p[i] = list[Len(list) - Len(p) + i]
    /\ \A j \in 1..Len(list) : list[j] \in cursors => j > Len(list) - Len(p)
    /\ p # <<>> => p[1] \in cursors

LEMMA PruneIsSuffix ==
    ASSUME NEW list \in Seq(Chunk), NEW cursors
    PROVE  IsNeededSuffix(server_prune_chunks(list, cursors), list, cursors)
<1> DEFINE p == server_prune_chunks(list, cursors)
<1> DEFINE needed == {i \in DOMAIN list : list[i] \in cursors}
<1>1. CASE needed = {}
  <2>1. p = <<>>
    BY <1>1 DEF server_prune_chunks
  <2>. QED  BY <1>1, <2>1 DEF IsNeededSuffix
<1>2. CASE needed # {}
  <2> DEFINE k == Least(needed)
  <2>1. needed \in SUBSET Nat
    OBVIOUS
  <2>2. k \in needed /\ \A j \in needed : k <= j
    BY <1>2, <2>1, LeastIsLeast
  <2>3. p = SubSeq(list, k, Len(list))
    BY <1>2 DEF server_prune_chunks
  <2>4. k \in 1..Len(list) /\ Len(list) \in Nat
    BY <2>2
  <2> HIDE DEF k
  <2>5. /\ p \in Seq(Chunk)
        /\ Len(p) = Len(list) - k + 1
        /\ \A i \in 1..Len(p) : p[i] = list[k + i - 1]
    BY <2>3, <2>4, SubSeqProperties
  <2>6. \A j \in 1..Len(list) : list[j] \in cursors => j >= k
    BY <2>2, <2>4
  <2>7. p[1] \in cursors
    BY <2>2, <2>4, <2>5
  <2>. QED  BY <2>4, <2>5, <2>6, <2>7 DEF IsNeededSuffix
<1>. QED  BY <1>1, <1>2
(***************************************************************************)
(* Pruning the newest chunks of a session leaves the newest chunks.        *)
(***************************************************************************)
LEMMA PruneKeepsNewest ==
    ASSUME NEW list \in Seq(Chunk), NEW cursors, NEW id \in Nat, NEW q \in Nat,
           IsNewest(list, id, q),
           NEW p, p = server_prune_chunks(list, cursors)
    PROVE  /\ p \in Seq(Chunk)
           /\ Len(p) \in Nat /\ Len(p) <= Len(list)
           /\ IsNewest(p, id, q)
           /\ \A n \in Nat :
                 q - Len(list) < n /\ n <= q /\ [session |-> id, number |-> n] \in cursors
                     => q - Len(p) < n
           /\ p # <<>> => p[1] \in cursors
<1>1. /\ p \in Seq(Chunk)
      /\ Len(p) \in Nat /\ Len(p) <= Len(list)
      /\ \A i \in 1..Len(p) : p[i] = list[Len(list) - Len(p) + i]
      /\ \A j \in 1..Len(list) : list[j] \in cursors => j > Len(list) - Len(p)
      /\ p # <<>> => p[1] \in cursors
  BY PruneIsSuffix DEF IsNeededSuffix
<1>2. IsNewest(p, id, q)
  <2>1. Len(p) <= q
    BY <1>1 DEF IsNewest
  <2>2. ASSUME NEW i \in 1..Len(p)
        PROVE  p[i] = [session |-> id, number |-> q - Len(p) + i]
    <3>1. Len(list) - Len(p) + i \in 1..Len(list)
      BY <1>1
    <3>2. q - Len(list) + (Len(list) - Len(p) + i) = q - Len(p) + i
      BY <1>1
    <3>. QED  BY <1>1, <3>1, <3>2 DEF IsNewest
  <2>. QED  BY <2>1, <2>2 DEF IsNewest
<1>3. ASSUME NEW n \in Nat, q - Len(list) < n, n <= q,
             [session |-> id, number |-> n] \in cursors
      PROVE  q - Len(p) < n
  <2> DEFINE j == n - (q - Len(list))
  <2>1. j \in 1..Len(list) /\ q - Len(list) + j = n
    BY <1>3
  <2>2. list[j] = [session |-> id, number |-> n]
    BY <2>1 DEF IsNewest
  <2>3. j > Len(list) - Len(p)
    BY <1>1, <1>3, <2>1, <2>2
  <2>. QED  BY <1>1, <2>1, <2>3
<1>. QED  BY <1>1, <1>2, <1>3

(***************************************************************************)
(* The chunk after the n-th chunk of the session.                          *)
(***************************************************************************)
LEMMA SuccessorInNewest ==
    ASSUME NEW list \in Seq(Chunk), NEW id \in Nat, NEW q \in Nat, NEW n \in Nat,
           IsNewest(list, id, q), q - Len(list) < n, n <= q
    PROVE  NextInList(list, [session |-> id, number |-> n]) =
               IF n = q THEN NoChunk ELSE [session |-> id, number |-> n + 1]
<1> DEFINE chunk == [session |-> id, number |-> n]
           k == n - (q - Len(list))
           i == CHOOSE i \in DOMAIN list : list[i] = chunk
<1>1. Len(list) \in Nat /\ DOMAIN list = 1..Len(list)
  OBVIOUS
<1>2. k \in DOMAIN list /\ q - Len(list) + k = n
  BY <1>1
<1>3. list[k] = chunk
  BY <1>1, <1>2 DEF IsNewest
<1>4. i \in DOMAIN list /\ list[i] = chunk
  BY <1>2, <1>3
<1>5. i = k
  <2>1. list[i].number = q - Len(list) + i /\ list[i].number = n
    BY <1>1, <1>4 DEF IsNewest
  <2> HIDE DEF i
  <2>. QED  BY <1>1, <1>2, <1>4, <2>1
<1>6. NextInList(list, chunk) = IF i < Len(list) THEN list[i + 1] ELSE NoChunk
  BY DEF NextInList
<1> HIDE DEF i
<1>7. CASE n = q
  BY <1>1, <1>5, <1>6, <1>7
<1>8. CASE n # q
  <2>1. k < Len(list) /\ k + 1 \in 1..Len(list) /\ q - Len(list) + (k + 1) = n + 1
    BY <1>1, <1>8
  <2>2. list[k + 1] = [session |-> id, number |-> n + 1]
    BY <2>1 DEF IsNewest
  <2>. QED  BY <1>5, <1>6, <1>8, <2>1, <2>2
<1>. QED  BY <1>7, <1>8
-----------------------------------------------------------------------------
(***************************************************************************)
(* The inductive invariant, one lemma per action.                          *)
(***************************************************************************)
LEMMA InitInvariant == Init => InductiveInvariant
<1> SUFFICES ASSUME Init  PROVE InductiveInvariant
  OBVIOUS
<1>1. TypeOK
  <2>1. chunks \in Seq(Chunk)
    BY DEF Init
  <2>. QED  BY <2>1 DEF Init, TypeOK, Phases, NoChunk, Chunk
<1>2. CurrentClients = {}
  BY DEF Init, CurrentClients, Registered
<1>3. ChunkListConsistent
  BY MaxChunksAssumption DEF Init, ChunkListConsistent, IsNewest
<1>. QED
  BY <1>1, <1>2, <1>3 DEF Init, InductiveInvariant, UnheardIsBuffered, GapFreeCursor,
     SessionBookkeeping, ActiveWhilePlayed, ActiveSessionIsTuned, PlaysWhatWasAskedFor,
     NeverAheadOfClock

(***************************************************************************)
(* The clients of the session, after steps that move phases or cursors.    *)
(***************************************************************************)
LEMMA SameCurrentClients ==
    ASSUME InductiveInvariant, NEW c \in Clients, NEW p \in Phases,
           phase[c] # "idle", p # "idle", phase' = [phase EXCEPT ![c] = p],
           UNCHANGED <<session_id, active_session_id>>
    PROVE  CurrentClients' = CurrentClients /\ phase' \in [Clients -> Phases]
BY DEF InductiveInvariant, TypeOK, CurrentClients, Registered

LEMMA SendPreludeInvariant ==
    ASSUME InductiveInvariant, NEW c \in Clients, SendPrelude(c)
    PROVE  InductiveInvariant'
<1>1. CurrentClients' = CurrentClients /\ phase' \in [Clients -> Phases]
  BY SameCurrentClients DEF SendPrelude, ReturnFromReader, Phases, sessionVars
<1>2. TypeOK'
  BY <1>1 DEF InductiveInvariant, TypeOK, SendPrelude, sessionVars, clockVars, tunerVars
<1>. QED
  BY <1>1, <1>2 DEF InductiveInvariant, SendPrelude, sessionVars, clockVars, tunerVars,
     ChunkListConsistent, UnheardIsBuffered, GapFreeCursor, SessionBookkeeping,
     ActiveWhilePlayed, ActiveSessionIsTuned, PlaysWhatWasAskedFor, NeverAheadOfClock

LEMMA EndOfStreamInvariant ==
    ASSUME InductiveInvariant, NEW c \in Clients, EndOfStream(c)
    PROVE  InductiveInvariant'
<1>1. CurrentClients' = CurrentClients /\ phase' \in [Clients -> Phases]
  BY SameCurrentClients DEF EndOfStream, EndReader, Serving, ReturnFromReader, Phases, sessionVars
<1>2. TypeOK'
  BY <1>1 DEF InductiveInvariant, TypeOK, EndOfStream, EndReader, sessionVars, clockVars, tunerVars
<1>. QED
  BY <1>1, <1>2 DEF InductiveInvariant, EndOfStream, EndReader, sessionVars, clockVars, tunerVars,
     ChunkListConsistent, UnheardIsBuffered, GapFreeCursor, SessionBookkeeping,
     ActiveWhilePlayed, ActiveSessionIsTuned, PlaysWhatWasAskedFor, NeverAheadOfClock

LEMMA WaitForClockInvariant ==
    ASSUME InductiveInvariant, NEW c \in Clients, WaitForClock(c)
    PROVE  InductiveInvariant'
<1>1. CurrentClients' = CurrentClients /\ phase' \in [Clients -> Phases]
  BY SameCurrentClients
  DEF WaitForClock, AtLiveEdge, Serving, ReturnFromReader, Phases, sessionVars
<1>2. TypeOK'
  BY <1>1 DEF InductiveInvariant, TypeOK, WaitForClock, stream_session_start_clock,
     sessionVars, tunerVars
<1>3. NeverAheadOfClock'
  BY DEF InductiveInvariant, TypeOK, NeverAheadOfClock, WaitForClock,
     stream_session_start_clock
<1>. QED
  BY <1>1, <1>2, <1>3 DEF InductiveInvariant, WaitForClock, sessionVars, tunerVars,
     ChunkListConsistent, UnheardIsBuffered, GapFreeCursor, SessionBookkeeping,
     ActiveWhilePlayed, ActiveSessionIsTuned, PlaysWhatWasAskedFor

LEMMA TickInvariant ==
    ASSUME InductiveInvariant, Tick
    PROVE  InductiveInvariant'
<1>1. CurrentClients' = CurrentClients
  BY DEF Tick, clientVars, sessionVars, CurrentClients, Registered
<1>2. TypeOK' /\ NeverAheadOfClock'
  BY DEF InductiveInvariant, TypeOK, Tick, sessionVars, clockVars, tunerVars, clientVars,
     NeverAheadOfClock
<1>. QED
  BY <1>1, <1>2 DEF InductiveInvariant, Tick, sessionVars, clockVars, tunerVars, clientVars,
     ChunkListConsistent, UnheardIsBuffered, GapFreeCursor, SessionBookkeeping,
     ActiveWhilePlayed, ActiveSessionIsTuned, PlaysWhatWasAskedFor

LEMMA RefuseRequestInvariant ==
    ASSUME InductiveInvariant, NEW c \in Clients, NEW s \in Settings, RefuseRequest(c, s)
    PROVE  InductiveInvariant'
<1>1. CurrentClients' = CurrentClients
  BY DEF RefuseRequest, clientVars, sessionVars, CurrentClients, Registered
<1>2. /\ tuned_frequency' \in {FrequencyOf[t] : t \in Settings} \cup {NoFrequency}
      /\ tune_failed' \in BOOLEAN
  <2>1. /\ tuned_frequency \in {FrequencyOf[t] : t \in Settings} \cup {NoFrequency}
        /\ tune_failed \in BOOLEAN
    BY DEF InductiveInvariant, TypeOK
  <2>. QED  BY <2>1 DEF RefuseRequest, TuneFails, LeftBehind, CaptureFails
<1>3. TypeOK'
  BY <1>2 DEF InductiveInvariant, TypeOK, RefuseRequest, sessionVars, clockVars, clientVars
<1>4. ActiveSessionIsTuned'
  <2>1. CASE TuneFails(s)
    BY <2>1 DEF InductiveInvariant, ActiveSessionIsTuned, RefuseRequest, TuneFails, sessionVars
  <2>2. CASE CaptureFails(s)
    BY <2>2 DEF InductiveInvariant, ActiveSessionIsTuned, RefuseRequest, CaptureFails, sessionVars
  <2>. QED  BY <2>1, <2>2 DEF RefuseRequest
<1>. QED
  BY <1>1, <1>3, <1>4 DEF InductiveInvariant, RefuseRequest, sessionVars, clockVars,
     clientVars, ChunkListConsistent, UnheardIsBuffered, GapFreeCursor, SessionBookkeeping,
     ActiveWhilePlayed, PlaysWhatWasAskedFor, NeverAheadOfClock

LEMMA JoinSessionInvariant ==
    ASSUME InductiveInvariant, NEW c \in Clients, NEW s \in Settings, JoinSession(c, s)
    PROVE  InductiveInvariant'
<1>1. TypeOK'
  BY DEF InductiveInvariant, TypeOK, JoinSession, RegisterClient, sessionVars, clockVars,
     tunerVars, Phases, NoChunk, Chunk
<1>2. CurrentClients' = CurrentClients \cup {c}
  BY DEF InductiveInvariant, TypeOK, JoinSession, RegisterClient, sessionVars,
     CurrentClients, Registered
<1>3. UnheardIsBuffered' /\ GapFreeCursor' /\ PlaysWhatWasAskedFor'
  BY <1>2 DEF InductiveInvariant, TypeOK, JoinSession, RegisterClient, sessionVars,
     clockVars, UnheardIsBuffered, GapFreeCursor, PlaysWhatWasAskedFor,
     stream_request_matches_session
<1>4. SessionBookkeeping' /\ ActiveWhilePlayed'
  BY <1>2 DEF InductiveInvariant, TypeOK, JoinSession, RegisterClient, sessionVars,
     SessionBookkeeping, ActiveWhilePlayed, stream_request_matches_session
<1>. QED
  BY <1>1, <1>3, <1>4 DEF InductiveInvariant, JoinSession, sessionVars, clockVars, tunerVars,
     ChunkListConsistent, ActiveSessionIsTuned, NeverAheadOfClock

LEMMA ReplaceSessionInvariant ==
    ASSUME InductiveInvariant, NEW c \in Clients, NEW s \in Settings, ReplaceSession(c, s)
    PROVE  InductiveInvariant'
<1>1. TypeOK'
  <2>1. chunks' \in Seq(Chunk)
    BY DEF ReplaceSession
  <2>2. /\ phase' \in [Clients -> Phases]
        /\ session_id' \in [Clients -> Nat]
        /\ next_chunk' \in [Clients -> Chunk]
        /\ prelude_pending' \in [Clients -> BOOLEAN]
        /\ dropped_for_lag' \in [Clients -> BOOLEAN]
        /\ request' \in [Clients -> Settings \cup {NoSettings}]
        /\ position' \in [Clients -> Nat]
    BY DEF InductiveInvariant, TypeOK, ReplaceSession, RegisterClient, NextSessionId, Phases, NoChunk, Chunk
  <2>3. active_session_id' \in Nat /\ now' \in Nat
    BY DEF InductiveInvariant, TypeOK, ReplaceSession, NextSessionId
  <2>4. /\ session_active' \in BOOLEAN /\ stream_clock_started' \in BOOLEAN
        /\ async_started' \in BOOLEAN /\ tune_failed' \in BOOLEAN
        /\ session_request' \in Settings \cup {NoSettings}
        /\ tuned_frequency' \in {FrequencyOf[t] : t \in Settings} \cup {NoFrequency}
        /\ chunk_count' \in Nat /\ stream_started_at' \in Nat /\ audio_frames_queued' \in Nat
    BY DEF ReplaceSession
  <2>. QED  BY <2>1, <2>2, <2>3, <2>4 DEF TypeOK
<1>2. CurrentClients' = {c}
  <2>1. \A d \in Clients \ {c} : session_id'[d] # active_session_id'
    BY DEF InductiveInvariant, TypeOK, SessionBookkeeping, ReplaceSession, RegisterClient, NextSessionId
  <2>2. phase'[c] # "idle" /\ session_id'[c] = active_session_id'
    BY DEF InductiveInvariant, TypeOK, ReplaceSession, RegisterClient, NextSessionId
  <2>. QED  BY <2>1, <2>2 DEF CurrentClients, Registered
<1>3. UnheardIsBuffered' /\ GapFreeCursor' /\ PlaysWhatWasAskedFor'
  BY <1>2 DEF InductiveInvariant, TypeOK, ReplaceSession, RegisterClient, NextSessionId,
     UnheardIsBuffered, GapFreeCursor, PlaysWhatWasAskedFor
<1>4. SessionBookkeeping' /\ ActiveWhilePlayed'
  BY <1>2 DEF InductiveInvariant, TypeOK, ReplaceSession, RegisterClient, NextSessionId,
     SessionBookkeeping, ActiveWhilePlayed
<1>5. ChunkListConsistent'
  BY MaxChunksAssumption DEF ReplaceSession, ChunkListConsistent, IsNewest
<1>. QED
  BY <1>1, <1>3, <1>4, <1>5 DEF InductiveInvariant, ReplaceSession, ActiveSessionIsTuned,
     NeverAheadOfClock

(***************************************************************************)
(* The step of a reader that is given a chunk, whether packing it works or *)
(* not: the client moves one chunk on and stays in the session.            *)
(***************************************************************************)
Delivers(c) == TakeChunk(c) \/ PackFails(c)

LEMMA DeliveredInOrder ==
    ASSUME InductiveInvariant, NEW c \in Clients, Delivers(c)
    PROVE  /\ c \in CurrentClients
           /\ CurrentClients' = CurrentClients /\ phase' \in [Clients -> Phases]
           /\ position' = [position EXCEPT ![c] = position[c] + 1]
           /\ position[c] < audio_frames_queued
           /\ next_chunk' = [next_chunk EXCEPT ![c] =
                  IF position[c] + 1 = audio_frames_queued THEN NoChunk
                  ELSE [session |-> active_session_id, number |-> position[c] + 2]]
<1>1. c \in CurrentClients /\ next_chunk[c] # NoChunk
  BY DEF Delivers, TakeChunk, PackFails, StillCurrent, Serving, CurrentClients, Registered
<1>2. CurrentClients' = CurrentClients /\ phase' \in [Clients -> Phases]
  BY SameCurrentClients
  DEF Delivers, TakeChunk, PackFails, Serving, ReturnFromReader, Phases, sessionVars
<1>3. /\ position[c] \in Nat /\ audio_frames_queued \in Nat /\ active_session_id \in Nat
      /\ chunks \in Seq(Chunk)
  BY DEF InductiveInvariant, TypeOK
<1>4. /\ position[c] < audio_frames_queued
      /\ next_chunk[c] = [session |-> active_session_id, number |-> position[c] + 1]
  BY <1>1, <1>3 DEF InductiveInvariant, GapFreeCursor, UnheardIsBuffered
<1>5. audio_frames_queued - Len(chunks) < position[c] + 1
  BY <1>1, <1>3 DEF InductiveInvariant, UnheardIsBuffered
<1>6. NextInList(chunks, next_chunk[c]) =
         IF position[c] + 1 = audio_frames_queued THEN NoChunk
         ELSE [session |-> active_session_id, number |-> (position[c] + 1) + 1]
  <2>1. IsNewest(chunks, active_session_id, audio_frames_queued)
    BY DEF InductiveInvariant, ChunkListConsistent
  <2>2. position[c] + 1 \in Nat /\ position[c] + 1 <= audio_frames_queued
    BY <1>3, <1>4
  <2>. QED  BY <1>3, <1>4, <1>5, <2>1, <2>2, SuccessorInNewest
<1>7. AdvanceCursor(c)
  BY DEF Delivers, TakeChunk, PackFails
<1>8. (position[c] + 1) + 1 = position[c] + 2 /\ next_chunk[c].number = position[c] + 1
  BY <1>3, <1>4
<1>. QED  BY <1>1, <1>2, <1>4, <1>6, <1>7, <1>8 DEF AdvanceCursor

LEMMA DeliveryInvariant ==
    ASSUME InductiveInvariant, NEW c \in Clients, Delivers(c)
    PROVE  /\ GapFreeCursor' /\ SessionBookkeeping' /\ ActiveWhilePlayed'
           /\ ActiveSessionIsTuned' /\ PlaysWhatWasAskedFor' /\ NeverAheadOfClock'
           /\ \A d \in CurrentClients : position[d] <= position'[d]
                                        /\ position'[d] <= audio_frames_queued
           /\ next_chunk' \in [Clients -> Chunk] /\ position' \in [Clients -> Nat]
           /\ phase' \in [Clients -> Phases] /\ CurrentClients' = CurrentClients
<1> USE DEF InductiveInvariant, TypeOK
<1>1. /\ UNCHANGED <<sessionVars, clockVars, now, tunerVars,
                     session_id, prelude_pending, dropped_for_lag, request>>
      /\ session_active
  BY DEF Delivers, TakeChunk, PackFails, StillCurrent
<1>2. /\ CurrentClients' = CurrentClients
      /\ \A d \in CurrentClients : position[d] <= position'[d]
                                   /\ position'[d] <= audio_frames_queued
      /\ position' \in [Clients -> Nat]
  <2>1. /\ position \in [Clients -> Nat] /\ audio_frames_queued \in Nat
        /\ \A d \in CurrentClients : position[d] <= audio_frames_queued
        /\ CurrentClients \subseteq Clients
    BY DEF UnheardIsBuffered, CurrentClients, Registered
  <2> HIDE DEF InductiveInvariant, TypeOK
  <2>. QED  BY <2>1, DeliveredInOrder
<1>3. next_chunk' \in [Clients -> Chunk]
  <2>1. NoChunk \in Chunk /\ [session |-> active_session_id, number |-> position[c] + 2] \in Chunk
    BY DEF Chunk, NoChunk
  <2>2. next_chunk \in [Clients -> Chunk]
    OBVIOUS
  <2> HIDE DEF InductiveInvariant, TypeOK
  <2>. QED  BY <2>1, <2>2, DeliveredInOrder
<1>4. GapFreeCursor'
  <2>1. SUFFICES ASSUME NEW d \in CurrentClients
                 PROVE  next_chunk'[d] = IF position'[d] = audio_frames_queued THEN NoChunk
                            ELSE [session |-> active_session_id, number |-> position'[d] + 1]
    BY <1>1, <1>2 DEF GapFreeCursor, sessionVars, clockVars
  <2>2. d \in Clients /\ position[c] \in Nat /\ (position[c] + 1) + 1 = position[c] + 2
    BY DEF CurrentClients, Registered
  <2>3. next_chunk \in [Clients -> Chunk] /\ position \in [Clients -> Nat] /\ GapFreeCursor
    OBVIOUS
  <2> HIDE DEF InductiveInvariant, TypeOK
  <2>4. CASE d = c
    BY <2>2, <2>3, <2>4, DeliveredInOrder
  <2>5. CASE d # c
    <3>1. next_chunk'[d] = next_chunk[d] /\ position'[d] = position[d]
      BY <2>2, <2>3, <2>5, DeliveredInOrder
    <3>. QED  BY <2>3, <3>1 DEF GapFreeCursor
  <2>. QED  BY <2>4, <2>5
<1>5. SessionBookkeeping' /\ ActiveWhilePlayed'
  BY <1>1, <1>2 DEF SessionBookkeeping, ActiveWhilePlayed, sessionVars
<1>6. ActiveSessionIsTuned' /\ PlaysWhatWasAskedFor' /\ NeverAheadOfClock'
  BY <1>1, <1>2 DEF ActiveSessionIsTuned, PlaysWhatWasAskedFor, NeverAheadOfClock,
     sessionVars, clockVars, tunerVars
<1>. QED  BY <1>2, <1>3, <1>4, <1>5, <1>6, DeliveredInOrder

LEMMA PackFailsInvariant ==
    ASSUME InductiveInvariant, NEW c \in Clients, PackFails(c)
    PROVE  InductiveInvariant'
<1>1. Delivers(c)
  BY DEF Delivers
<1>2. TypeOK'
  BY <1>1, DeliveryInvariant DEF InductiveInvariant, TypeOK, PackFails, sessionVars,
     clockVars, tunerVars
<1>3. ChunkListConsistent' /\ UnheardIsBuffered'
  BY <1>1, DeliveryInvariant DEF InductiveInvariant, TypeOK, PackFails, sessionVars,
     clockVars, ChunkListConsistent, UnheardIsBuffered, CurrentClients, Registered
<1>. QED  BY <1>1, <1>2, <1>3, DeliveryInvariant DEF InductiveInvariant

LEMMA TakeChunkInvariant ==
    ASSUME InductiveInvariant, NEW c \in Clients, TakeChunk(c)
    PROVE  InductiveInvariant'
<1> DEFINE cursors == Cursors(CurrentClients, next_chunk')
<1>1. Delivers(c) /\ UNCHANGED <<sessionVars, clockVars>>
  BY DEF Delivers, TakeChunk
<1>2. /\ chunks \in Seq(Chunk) /\ audio_frames_queued \in Nat /\ active_session_id \in Nat
      /\ IsNewest(chunks, active_session_id, audio_frames_queued)
      /\ chunks' = server_prune_chunks(chunks, cursors)
  BY DEF InductiveInvariant, TypeOK, ChunkListConsistent, TakeChunk
<1>3. /\ chunks' \in Seq(Chunk)
      /\ Len(chunks') \in Nat /\ Len(chunks') <= Len(chunks)
      /\ IsNewest(chunks', active_session_id, audio_frames_queued)
      /\ \A n \in Nat :
            audio_frames_queued - Len(chunks) < n /\ n <= audio_frames_queued
            /\ [session |-> active_session_id, number |-> n] \in cursors
                => audio_frames_queued - Len(chunks') < n
  <2> HIDE DEF cursors
  <2>. QED  BY <1>2, PruneKeepsNewest
<1>4. ChunkListConsistent'
  <2>1. chunk_count' = Len(chunks')
    BY <1>2, <1>3 DEF InductiveInvariant, TypeOK, ChunkListConsistent, TakeChunk, CountAfterPrune
  <2>2. Len(chunks') <= MaxChunks
    BY <1>2, <1>3, MaxChunksAssumption DEF InductiveInvariant, TypeOK, ChunkListConsistent
  <2>. QED  BY <1>1, <1>3, <2>1, <2>2 DEF ChunkListConsistent, sessionVars, clockVars
<1>5. UnheardIsBuffered'
  <2>1. SUFFICES ASSUME NEW d \in CurrentClients
                 PROVE  /\ position'[d] <= audio_frames_queued
                        /\ audio_frames_queued <= position'[d] + Len(chunks')
    BY <1>1, DeliveryInvariant DEF UnheardIsBuffered, clockVars
  <2>2. /\ position'[d] <= audio_frames_queued /\ position[d] <= position'[d]
        /\ position'[d] \in Nat /\ position[d] \in Nat
    BY <1>1, DeliveryInvariant DEF InductiveInvariant, TypeOK, CurrentClients, Registered
  <2>3. CASE position'[d] = audio_frames_queued
    BY <1>2, <1>3, <2>2, <2>3
  <2>4. CASE position'[d] # audio_frames_queued
    <3>1. next_chunk'[d] = [session |-> active_session_id, number |-> position'[d] + 1]
      BY <1>1, <2>4, DeliveryInvariant DEF GapFreeCursor, sessionVars, clockVars
    <3>2. [session |-> active_session_id, number |-> position'[d] + 1] \in cursors
      BY <3>1 DEF Cursors
    <3>3. audio_frames_queued - Len(chunks) < position'[d] + 1
      BY <1>2, <2>2 DEF InductiveInvariant, UnheardIsBuffered
    <3>4. audio_frames_queued - Len(chunks') < position'[d] + 1
      BY <1>2, <1>3, <2>2, <2>4, <3>2, <3>3
    <3>. QED  BY <1>2, <1>3, <2>2, <3>4
  <2>. QED  BY <2>3, <2>4
<1>6. TypeOK'
  BY <1>1, <1>3, <1>4, DeliveryInvariant DEF InductiveInvariant, TypeOK, TakeChunk, sessionVars,
     clockVars, tunerVars, ChunkListConsistent
<1>. QED  BY <1>1, <1>4, <1>5, <1>6, DeliveryInvariant DEF InductiveInvariant
(***************************************************************************)
(* Making room drops only clients a whole buffer behind, keeps what the    *)
(* others need and, if the list was full, makes it shorter.                *)
(***************************************************************************)
LEMMA HeadOfFullList ==
    ASSUME InductiveInvariant, Full, session_active
    PROVE  /\ chunks # <<>> /\ Head(chunks) = chunks[1]
           /\ Head(chunks) = [session |-> active_session_id,
                              number |-> audio_frames_queued - Len(chunks) + 1]
           /\ Head(chunks) # NoChunk
           /\ Len(chunks) = chunk_count /\ Len(chunks) = MaxChunks
<1>1. /\ chunks \in Seq(Chunk) /\ chunk_count = Len(chunks) /\ chunk_count <= MaxChunks
      /\ IsNewest(chunks, active_session_id, audio_frames_queued)
      /\ active_session_id # 0 /\ chunk_count \in Nat
  BY DEF InductiveInvariant, TypeOK, ChunkListConsistent, SessionBookkeeping
<1>2. Len(chunks) >= 1 /\ Len(chunks) = MaxChunks
  BY <1>1, MaxChunksAssumption DEF Full
<1>3. chunks # <<>> /\ Head(chunks) = chunks[1]
  BY <1>1, <1>2
<1>4. chunks[1] = [session |-> active_session_id,
                   number |-> audio_frames_queued - Len(chunks) + 1]
  BY <1>1, <1>2 DEF IsNewest
<1>. QED  BY <1>1, <1>2, <1>3, <1>4 DEF NoChunk

LEMMA LaggardsAreBehind ==
    ASSUME InductiveInvariant, NEW d \in Laggards
    PROVE  d \in CurrentClients /\ position[d] + MaxChunks <= audio_frames_queued
<1>1. d \in CurrentClients /\ Full /\ next_chunk[d] = Head(chunks)
  BY DEF Laggards
<1>2. session_active
  BY <1>1 DEF InductiveInvariant, ActiveWhilePlayed
<1>3. next_chunk[d] = [session |-> active_session_id, number |-> position[d] + 1]
  BY <1>1, <1>2, HeadOfFullList DEF InductiveInvariant, GapFreeCursor
<1>4. position[d] + 1 = audio_frames_queued - Len(chunks) + 1
  BY <1>1, <1>2, <1>3, HeadOfFullList
<1>5. position[d] \in Nat /\ audio_frames_queued \in Nat /\ Len(chunks) = MaxChunks
  BY <1>1, <1>2, HeadOfFullList DEF InductiveInvariant, TypeOK, CurrentClients, Registered
<1>. QED  BY <1>1, <1>4, <1>5, MaxChunksAssumption

LEMMA RoomIsMade ==
    ASSUME InductiveInvariant, RoomCanBeMade, session_active
    PROVE  /\ ChunksWithRoom \in Seq(Chunk)
           /\ IsNewest(ChunksWithRoom, active_session_id, audio_frames_queued)
           /\ Len(ChunksWithRoom) < MaxChunks
           /\ CountAfterPrune(ChunksWithRoom) = Len(ChunksWithRoom)
           /\ \A d \in CurrentClients \ Laggards :
                 audio_frames_queued <= position[d] + Len(ChunksWithRoom)
<1>1. /\ chunks \in Seq(Chunk) /\ audio_frames_queued \in Nat /\ active_session_id \in Nat
      /\ IsNewest(chunks, active_session_id, audio_frames_queued)
      /\ chunk_count = Len(chunks) /\ chunk_count \in Nat
  BY DEF InductiveInvariant, TypeOK, ChunkListConsistent
<1>2. CASE ~Full
  <2>1. ChunksWithRoom = chunks /\ Len(chunks) < MaxChunks
    BY <1>1, <1>2, MaxChunksAssumption DEF ChunksWithRoom, Full
  <2>. QED
    BY <1>1, <2>1 DEF CountAfterPrune, InductiveInvariant, UnheardIsBuffered
<1>3. CASE Full
  <2> DEFINE kept == CurrentClients \ Laggards
             cursors == Cursors(kept, next_chunk)
             p == ChunksWithRoom
  <2>1. p = server_prune_chunks(chunks, cursors)
    BY <1>3 DEF ChunksWithRoom
  <2>2. /\ p \in Seq(Chunk)
        /\ Len(p) \in Nat /\ Len(p) <= Len(chunks)
        /\ IsNewest(p, active_session_id, audio_frames_queued)
        /\ \A n \in Nat :
              audio_frames_queued - Len(chunks) < n /\ n <= audio_frames_queued
              /\ [session |-> active_session_id, number |-> n] \in cursors
                  => audio_frames_queued - Len(p) < n
        /\ p # <<>> => p[1] \in cursors
    <3> HIDE DEF cursors, p
    <3>. QED  BY <1>1, <2>1, PruneKeepsNewest
  <2>3. Head(chunks) \notin cursors
    BY <1>3 DEF Cursors, Laggards
  <2>4. Len(p) # Len(chunks)
    <3>1. SUFFICES ASSUME Len(p) = Len(chunks)  PROVE FALSE
      OBVIOUS
    <3>2. Len(p) >= 1 /\ Len(chunks) >= 1
      BY <1>1, <1>3, <3>1, HeadOfFullList, MaxChunksAssumption
    <3>3. p[1] = chunks[1]
      <4> HIDE DEF p, cursors
      <4>1. 1 \in 1..Len(p) /\ 1 \in 1..Len(chunks)
        BY <1>1, <2>2, <3>2
      <4>2. chunks[1] = [session |-> active_session_id,
                         number |-> audio_frames_queued - Len(chunks) + 1]
        BY <1>1, <4>1 DEF IsNewest
      <4>3. p[1] = [session |-> active_session_id,
                    number |-> audio_frames_queued - Len(p) + 1]
        BY <2>2, <4>1 DEF IsNewest
      <4>. QED  BY <3>1, <4>2, <4>3
    <3>4. p # <<>>
      BY <3>2
    <3>. QED  BY <1>3, <2>2, <2>3, <3>3, <3>4, HeadOfFullList
  <2>5. Len(p) < MaxChunks
    BY <1>1, <1>3, <2>2, <2>4, HeadOfFullList, MaxChunksAssumption
  <2>6. CountAfterPrune(p) = Len(p)
    BY <1>1, <2>2 DEF CountAfterPrune
  <2>7. ASSUME NEW d \in kept
        PROVE  audio_frames_queued <= position[d] + Len(p)
    <3>1. /\ d \in CurrentClients /\ position[d] \in Nat
          /\ position[d] <= audio_frames_queued
          /\ audio_frames_queued <= position[d] + Len(chunks)
      BY DEF InductiveInvariant, TypeOK, UnheardIsBuffered, CurrentClients, Registered
    <3>2. CASE position[d] = audio_frames_queued
      BY <1>1, <2>2, <3>1, <3>2
    <3>3. CASE position[d] # audio_frames_queued
      <4>1. next_chunk[d] = [session |-> active_session_id, number |-> position[d] + 1]
        BY <3>1, <3>3 DEF InductiveInvariant, GapFreeCursor
      <4>2. [session |-> active_session_id, number |-> position[d] + 1] \in cursors
        BY <4>1 DEF Cursors
      <4>3. audio_frames_queued - Len(p) < position[d] + 1
        BY <1>1, <2>2, <3>1, <3>3, <4>2
      <4>. QED  BY <1>1, <2>2, <3>1, <4>3
    <3>. QED  BY <3>2, <3>3
  <2>. QED  BY <2>2, <2>5, <2>6, <2>7
<1>. QED  BY <1>2, <1>3

LEMMA CurrentAfterDrops ==
    ASSUME InductiveInvariant, NEW c \in Clients, NEW p \in Phases, p # "idle",
           AtLiveEdge(c), server_make_chunk_room,
           phase' = [phase EXCEPT ![c] = p], UNCHANGED sessionVars
    PROVE  /\ session_active /\ active_session_id # 0
           /\ c \in CurrentClients \ Laggards
           /\ CurrentClients' = CurrentClients \ Laggards
           /\ session_id' \in [Clients -> Nat] /\ dropped_for_lag' \in [Clients -> BOOLEAN]
           /\ phase' \in [Clients -> Phases]
           /\ SessionBookkeeping' /\ ActiveWhilePlayed'
<1>1. /\ c \in CurrentClients /\ session_active /\ active_session_id # 0
      /\ next_chunk[c] = NoChunk
  BY DEF AtLiveEdge, Serving, StillCurrent, CurrentClients, Registered, InductiveInvariant,
     SessionBookkeeping
<1>2. c \notin Laggards
  BY <1>1, HeadOfFullList DEF Laggards
<1>3. /\ session_id' \in [Clients -> Nat] /\ dropped_for_lag' \in [Clients -> BOOLEAN]
      /\ phase' \in [Clients -> Phases]
  BY DEF InductiveInvariant, TypeOK, server_make_chunk_room
<1>4. CurrentClients' = CurrentClients \ Laggards
  <2>1. phase \in [Clients -> Phases] /\ active_session_id' = active_session_id
    BY DEF InductiveInvariant, TypeOK, sessionVars
  <2>2. \A d \in Clients : phase'[d] # "idle" <=> phase[d] # "idle"
    BY <2>1 DEF AtLiveEdge, Serving
  <2>3. \A d \in Clients : session_id'[d] = active_session_id
                               <=> d \notin Laggards /\ session_id[d] = active_session_id
    BY <1>1 DEF server_make_chunk_room
  <2>. QED  BY <2>1, <2>2, <2>3 DEF CurrentClients, Registered
<1>5. ActiveWhilePlayed'
  BY <1>1, <1>2, <1>4 DEF ActiveWhilePlayed, sessionVars
<1>6. SessionBookkeeping'
  <2>1. \A d \in Clients : session_id'[d] <= active_session_id
    BY DEF server_make_chunk_room, InductiveInvariant, TypeOK, SessionBookkeeping
  <2>. QED  BY <1>1, <2>1 DEF SessionBookkeeping, sessionVars
<1>. QED  BY <1>1, <1>2, <1>3, <1>4, <1>5, <1>6
LEMMA ProduceChunkInvariant ==
    ASSUME InductiveInvariant, NEW c \in Clients, server_produce_chunk(c)
    PROVE  InductiveInvariant'
<1> DEFINE chunk == [session |-> active_session_id, number |-> audio_frames_queued + 1]
           room == ChunksWithRoom
<1>1. /\ AtLiveEdge(c) /\ server_make_chunk_room /\ RoomCanBeMade
      /\ phase' = [phase EXCEPT ![c] = "reading"] /\ "reading" \in Phases
      /\ UNCHANGED <<sessionVars, now, tunerVars, prelude_pending, request, position>>
      /\ audio_frames_queued' = audio_frames_queued + 1
      /\ chunks' = Append(room, chunk)
      /\ chunk_count' = CountAfterPrune(room) + 1
      /\ next_chunk' = [d \in Clients |->
                            IF d \in CurrentClients /\ next_chunk[d] = NoChunk
                            THEN chunk ELSE next_chunk[d]]
  BY DEF server_produce_chunk, ReturnFromReader, Phases, CursorsAfterAppend
<1>2. /\ session_active /\ active_session_id # 0
      /\ CurrentClients' = CurrentClients \ Laggards
      /\ session_id' \in [Clients -> Nat] /\ dropped_for_lag' \in [Clients -> BOOLEAN]
      /\ phase' \in [Clients -> Phases]
      /\ SessionBookkeeping' /\ ActiveWhilePlayed'
  BY <1>1, CurrentAfterDrops
<1>3. /\ room \in Seq(Chunk) /\ Len(room) \in Nat
      /\ IsNewest(room, active_session_id, audio_frames_queued)
      /\ Len(room) < MaxChunks /\ CountAfterPrune(room) = Len(room)
      /\ \A d \in CurrentClients \ Laggards : audio_frames_queued <= position[d] + Len(room)
  BY <1>1, <1>2, RoomIsMade
<1>4. /\ active_session_id \in Nat /\ audio_frames_queued \in Nat /\ chunk \in Chunk
      /\ position \in [Clients -> Nat] /\ next_chunk \in [Clients -> Chunk]
      /\ CurrentClients \subseteq Clients
  BY DEF InductiveInvariant, TypeOK, Chunk, CurrentClients, Registered
<1> HIDE DEF room
<1>5. /\ chunks' \in Seq(Chunk) /\ Len(chunks') = Len(room) + 1
      /\ \A i \in 1..Len(room) : chunks'[i] = room[i]
      /\ chunks'[Len(room) + 1] = chunk
  <2> HIDE DEF chunk
  <2>. QED  BY <1>1, <1>3, <1>4, AppendProperties
<1>6. ChunkListConsistent'
  <2>1. ASSUME NEW i \in 1..Len(chunks')
        PROVE  chunks'[i] = [session |-> active_session_id,
                             number |-> audio_frames_queued + 1 - Len(chunks') + i]
    <3>1. CASE i \in 1..Len(room)
      <4>1. audio_frames_queued - Len(room) + i = audio_frames_queued + 1 - Len(chunks') + i
        BY <1>3, <1>4, <1>5
      <4>. QED  BY <1>3, <1>5, <3>1, <4>1 DEF IsNewest
    <3>2. CASE i = Len(room) + 1
      BY <1>3, <1>4, <1>5, <3>2
    <3>. QED  BY <1>3, <1>5, <3>1, <3>2
  <2>2. Len(chunks') <= audio_frames_queued + 1
    BY <1>3, <1>4, <1>5 DEF IsNewest
  <2>3. IsNewest(chunks', active_session_id', audio_frames_queued')
    <3>1. active_session_id' = active_session_id
      BY <1>1 DEF sessionVars
    <3>2. IsNewest(chunks', active_session_id, audio_frames_queued + 1)
      BY <1>3, <1>4, <1>5, <2>1, <2>2, SMT DEF IsNewest
    <3>. QED  BY <1>1, <3>1, <3>2
  <2>4. chunk_count' = Len(chunks') /\ chunk_count' <= MaxChunks
    BY <1>1, <1>3, <1>5, MaxChunksAssumption
  <2>. QED  BY <2>3, <2>4 DEF ChunkListConsistent
<1>7. UnheardIsBuffered'
  <2>1. SUFFICES ASSUME NEW d \in CurrentClients \ Laggards
                 PROVE  /\ position[d] <= audio_frames_queued + 1
                        /\ audio_frames_queued + 1 <= position[d] + Len(chunks')
    BY <1>1, <1>2 DEF UnheardIsBuffered
  <2>2. position[d] <= audio_frames_queued /\ position[d] \in Nat
    BY <1>4 DEF InductiveInvariant, UnheardIsBuffered
  <2>. QED  BY <1>3, <1>4, <1>5, <2>2
<1>8. GapFreeCursor'
  <2>1. SUFFICES ASSUME NEW d \in CurrentClients \ Laggards
                 PROVE  next_chunk'[d] = IF position[d] = audio_frames_queued + 1 THEN NoChunk
                            ELSE [session |-> active_session_id, number |-> position[d] + 1]
    BY <1>1, <1>2 DEF GapFreeCursor, sessionVars
  <2>2. /\ position[d] <= audio_frames_queued /\ position[d] \in Nat
        /\ next_chunk[d] = IF position[d] = audio_frames_queued THEN NoChunk
                           ELSE [session |-> active_session_id, number |-> position[d] + 1]
    BY <1>4 DEF InductiveInvariant, UnheardIsBuffered, GapFreeCursor
  <2>3. CASE position[d] = audio_frames_queued
    BY <1>1, <1>4, <2>2, <2>3
  <2>4. CASE position[d] # audio_frames_queued
    <3>1. next_chunk[d] # NoChunk
      BY <1>2, <2>2, <2>4 DEF NoChunk
    <3>. QED  BY <1>1, <1>4, <2>2, <2>4, <3>1
  <2>. QED  BY <2>3, <2>4
<1>9. /\ stream_clock_started' \in BOOLEAN /\ stream_started_at' \in Nat
      /\ NeverAheadOfClock'
  BY DEF server_produce_chunk, stream_session_start_clock, AudioIsDue, InductiveInvariant,
     TypeOK, NeverAheadOfClock
<1>10. TypeOK'
  <2>1. next_chunk' \in [Clients -> Chunk]
    <3> HIDE DEF chunk
    <3>. QED  BY <1>1, <1>4
  <2>2. chunk_count' \in Nat /\ audio_frames_queued' \in Nat
    BY <1>1, <1>3, <1>4
  <2>. QED
    BY <1>1, <1>2, <1>5, <1>9, <2>1, <2>2
    DEF InductiveInvariant, TypeOK, sessionVars, tunerVars
<1>11. ActiveSessionIsTuned' /\ PlaysWhatWasAskedFor'
  BY <1>1, <1>2 DEF InductiveInvariant, ActiveSessionIsTuned, PlaysWhatWasAskedFor,
     sessionVars, tunerVars
<1>. QED
  BY <1>2, <1>6, <1>7, <1>8, <1>9, <1>10, <1>11 DEF InductiveInvariant

LEMMA ProduceFailsInvariant ==
    ASSUME InductiveInvariant, NEW c \in Clients, ProduceFails(c)
    PROVE  InductiveInvariant'
<1> DEFINE room == ChunksWithRoom
<1>1. /\ AtLiveEdge(c)
      /\ phase' = [phase EXCEPT ![c] = "ended"] /\ "ended" \in Phases
      /\ UNCHANGED <<sessionVars, audio_frames_queued, now, tunerVars, next_chunk,
                     prelude_pending, request, position>>
  BY DEF ProduceFails, ReturnFromReader, Phases
<1>2. /\ stream_clock_started' \in BOOLEAN /\ stream_started_at' \in Nat
      /\ NeverAheadOfClock'
  BY DEF ProduceFails, stream_session_start_clock, InductiveInvariant, TypeOK,
     NeverAheadOfClock
<1>3. CASE UNCHANGED <<chunks, chunk_count, session_id, dropped_for_lag>>
  <2>1. CurrentClients' = CurrentClients /\ phase' \in [Clients -> Phases]
    BY <1>1, <1>3, SameCurrentClients DEF AtLiveEdge, Serving, sessionVars
  <2>2. TypeOK'
    BY <1>1, <1>2, <1>3, <2>1 DEF InductiveInvariant, TypeOK, sessionVars, tunerVars
  <2>. QED
    BY <1>1, <1>2, <1>3, <2>1, <2>2 DEF InductiveInvariant, sessionVars, tunerVars,
       ChunkListConsistent, UnheardIsBuffered, GapFreeCursor, SessionBookkeeping,
       ActiveWhilePlayed, ActiveSessionIsTuned, PlaysWhatWasAskedFor
<1>4. CASE /\ RoomCanBeMade /\ server_make_chunk_room
           /\ chunks' = room /\ chunk_count' = CountAfterPrune(room)
  <2>1. /\ session_active
        /\ CurrentClients' = CurrentClients \ Laggards
        /\ session_id' \in [Clients -> Nat] /\ dropped_for_lag' \in [Clients -> BOOLEAN]
        /\ phase' \in [Clients -> Phases]
        /\ SessionBookkeeping' /\ ActiveWhilePlayed'
    BY <1>1, <1>4, CurrentAfterDrops
  <2>2. /\ room \in Seq(Chunk) /\ Len(room) \in Nat
        /\ IsNewest(room, active_session_id, audio_frames_queued)
        /\ Len(room) < MaxChunks /\ CountAfterPrune(room) = Len(room)
        /\ \A d \in CurrentClients \ Laggards :
              audio_frames_queued <= position[d] + Len(room)
    BY <1>4, <2>1, RoomIsMade
  <2> HIDE DEF room
  <2>3. ChunkListConsistent'
    BY <1>1, <1>4, <2>2, MaxChunksAssumption DEF ChunkListConsistent, sessionVars
  <2>4. UnheardIsBuffered' /\ GapFreeCursor'
    BY <1>1, <1>4, <2>1, <2>2 DEF InductiveInvariant, UnheardIsBuffered, GapFreeCursor,
       sessionVars
  <2>5. TypeOK'
    BY <1>1, <1>2, <1>4, <2>1, <2>2 DEF InductiveInvariant, TypeOK, sessionVars, tunerVars
  <2>6. ActiveSessionIsTuned' /\ PlaysWhatWasAskedFor'
    BY <1>1, <2>1 DEF InductiveInvariant, ActiveSessionIsTuned, PlaysWhatWasAskedFor,
       sessionVars, tunerVars
  <2>. QED
    BY <1>2, <2>1, <2>3, <2>4, <2>5, <2>6 DEF InductiveInvariant
<1>. QED  BY <1>3, <1>4 DEF ProduceFails

LEMMA FreeInvariant ==
    ASSUME InductiveInvariant, NEW c \in Clients, stream_content_free(c)
    PROVE  InductiveInvariant'
<1> DEFINE others == CurrentClients \ {c}
           stops == StopsSession(c)
           cursors == Cursors(others, next_chunk)
<1>1. /\ session_active' = (session_active /\ ~stops)
      /\ chunks' = IF stops THEN <<>> ELSE server_prune_chunks(chunks, cursors)
      /\ chunk_count' = IF stops THEN 0 ELSE CountAfterPrune(chunks')
      /\ phase' = [phase EXCEPT ![c] = "idle"]
      /\ session_id' = [session_id EXCEPT ![c] = 0]
      /\ next_chunk' = [next_chunk EXCEPT ![c] = NoChunk]
      /\ request' = [request EXCEPT ![c] = NoSettings]
      /\ position' = [position EXCEPT ![c] = 0]
      /\ UNCHANGED <<active_session_id, session_request, clockVars, now, tunerVars>>
  BY DEF stream_content_free
<1>2. /\ chunks \in Seq(Chunk) /\ audio_frames_queued \in Nat /\ active_session_id \in Nat
      /\ IsNewest(chunks, active_session_id, audio_frames_queued)
      /\ chunk_count = Len(chunks) /\ chunk_count \in Nat /\ chunk_count <= MaxChunks
      /\ CurrentClients \subseteq Clients
  BY DEF InductiveInvariant, TypeOK, ChunkListConsistent, CurrentClients, Registered
<1>3. CurrentClients' = others
  <2>1. phase \in [Clients -> Phases] /\ session_id \in [Clients -> Nat]
    BY DEF InductiveInvariant, TypeOK
  <2>. QED  BY <1>1, <2>1 DEF CurrentClients, Registered
<1>4. /\ chunks' \in Seq(Chunk)
      /\ Len(chunks') \in Nat /\ Len(chunks') <= Len(chunks)
      /\ IsNewest(chunks', active_session_id, audio_frames_queued)
      /\ chunk_count' = Len(chunks')
      /\ stops => chunks' = <<>>
      /\ \A n \in Nat :
            ~stops /\ audio_frames_queued - Len(chunks) < n /\ n <= audio_frames_queued
            /\ [session |-> active_session_id, number |-> n] \in cursors
                => audio_frames_queued - Len(chunks') < n
  <2>1. CASE stops
    <3>1. chunks' = <<>> /\ chunk_count' = 0
      BY <1>1, <2>1
    <3>. QED  BY <1>2, <2>1, <3>1 DEF IsNewest
  <2>2. CASE ~stops
    <3>1. /\ chunks' = server_prune_chunks(chunks, cursors)
          /\ chunk_count' = CountAfterPrune(chunks')
      BY <1>1, <2>2
    <3> HIDE DEF cursors, stops
    <3>2. /\ chunks' \in Seq(Chunk)
          /\ Len(chunks') \in Nat /\ Len(chunks') <= Len(chunks)
          /\ IsNewest(chunks', active_session_id, audio_frames_queued)
          /\ \A n \in Nat :
                audio_frames_queued - Len(chunks) < n /\ n <= audio_frames_queued
                /\ [session |-> active_session_id, number |-> n] \in cursors
                    => audio_frames_queued - Len(chunks') < n
      BY <1>2, <3>1, PruneKeepsNewest
    <3>3. chunk_count' = Len(chunks')
      BY <1>2, <3>1, <3>2 DEF CountAfterPrune
    <3>. QED  BY <2>2, <3>2, <3>3
  <2>. QED  BY <2>1, <2>2
<1>5. ChunkListConsistent'
  BY <1>1, <1>2, <1>4, MaxChunksAssumption DEF ChunkListConsistent, clockVars
<1>6. UnheardIsBuffered'
  <2>1. SUFFICES ASSUME NEW d \in others
                 PROVE  /\ position[d] <= audio_frames_queued
                        /\ audio_frames_queued <= position[d] + Len(chunks')
    BY <1>1, <1>2, <1>3 DEF UnheardIsBuffered, clockVars, InductiveInvariant, TypeOK
  <2>2. /\ position[d] <= audio_frames_queued /\ position[d] \in Nat
        /\ audio_frames_queued <= position[d] + Len(chunks)
    BY <1>2 DEF InductiveInvariant, TypeOK, UnheardIsBuffered
  <2>3. CASE position[d] = audio_frames_queued
    BY <1>2, <1>4, <2>2, <2>3
  <2>4. CASE position[d] # audio_frames_queued
    <3>1. next_chunk[d] = [session |-> active_session_id, number |-> position[d] + 1]
      BY <2>4 DEF InductiveInvariant, GapFreeCursor
    <3>2. [session |-> active_session_id, number |-> position[d] + 1] \in cursors
      BY <3>1 DEF Cursors
    <3>3. ~stops
      BY DEF StopsSession
    <3>4. audio_frames_queued - Len(chunks') < position[d] + 1
      BY <1>2, <1>4, <2>2, <2>4, <3>2, <3>3
    <3>. QED  BY <1>2, <1>4, <2>2, <3>4
  <2>. QED  BY <2>3, <2>4
<1>7. GapFreeCursor' /\ PlaysWhatWasAskedFor'
  <2>1. /\ next_chunk \in [Clients -> Chunk] /\ position \in [Clients -> Nat]
        /\ request \in [Clients -> Settings \cup {NoSettings}]
        /\ GapFreeCursor /\ PlaysWhatWasAskedFor
    BY DEF InductiveInvariant, TypeOK
  <2>. QED
    BY <1>1, <1>2, <1>3, <2>1 DEF GapFreeCursor, PlaysWhatWasAskedFor, clockVars
<1>8. ActiveWhilePlayed' /\ SessionBookkeeping'
  <2>1. session_active' = (others # {})
    BY <1>1, <1>2 DEF InductiveInvariant, ActiveWhilePlayed, StopsSession
  <2>2. ~session_active' => chunks' = <<>>
    <3>1. ASSUME ~session_active  PROVE chunks' = <<>>
      <4>1. chunks = <<>>
        BY <3>1 DEF InductiveInvariant, SessionBookkeeping
      <4>. QED  BY <1>2, <1>4, <4>1
    <3>. QED  BY <1>1, <1>4, <3>1
  <2>3. \A d \in Clients : session_id'[d] <= active_session_id'
    BY <1>1, <1>2 DEF InductiveInvariant, TypeOK, SessionBookkeeping
  <2>4. session_active' => active_session_id' # 0
    BY <1>1 DEF InductiveInvariant, SessionBookkeeping
  <2>. QED
    BY <1>3, <2>1, <2>2, <2>3, <2>4 DEF ActiveWhilePlayed, SessionBookkeeping
<1>9. ActiveSessionIsTuned' /\ NeverAheadOfClock'
  BY <1>1 DEF InductiveInvariant, ActiveSessionIsTuned, NeverAheadOfClock, clockVars, tunerVars
<1>10. TypeOK'
  <2>1. /\ phase' \in [Clients -> Phases]
        /\ session_id' \in [Clients -> Nat]
        /\ next_chunk' \in [Clients -> Chunk]
        /\ prelude_pending' \in [Clients -> BOOLEAN]
        /\ dropped_for_lag' \in [Clients -> BOOLEAN]
        /\ request' \in [Clients -> Settings \cup {NoSettings}]
        /\ position' \in [Clients -> Nat]
    BY DEF InductiveInvariant, TypeOK, stream_content_free, Phases, NoChunk, Chunk
  <2>2. session_active' \in BOOLEAN /\ chunk_count' \in Nat
    BY <1>1, <1>4
  <2>. QED
    BY <1>1, <1>4, <2>1, <2>2 DEF InductiveInvariant, TypeOK, clockVars, tunerVars
<1>. QED
  BY <1>5, <1>6, <1>7, <1>8, <1>9, <1>10 DEF InductiveInvariant

-----------------------------------------------------------------------------
LEMMA NextInvariant == InductiveInvariant /\ [Next]_vars => InductiveInvariant'
<1> SUFFICES ASSUME InductiveInvariant, [Next]_vars
             PROVE  InductiveInvariant'
  OBVIOUS
<1>1. CASE UNCHANGED vars
  BY <1>1 DEF InductiveInvariant, vars, sessionVars, clockVars, tunerVars, clientVars,
     TypeOK, ChunkListConsistent, UnheardIsBuffered, GapFreeCursor, SessionBookkeeping,
     ActiveWhilePlayed, ActiveSessionIsTuned, PlaysWhatWasAskedFor, NeverAheadOfClock,
     CurrentClients, Registered
<1>2. CASE Tick
  BY <1>2, TickInvariant
<1>3. ASSUME NEW c \in Clients, handle_request(c)
      PROVE  InductiveInvariant'
  BY <1>3, JoinSessionInvariant, ReplaceSessionInvariant, RefuseRequestInvariant
  DEF handle_request
<1>4. ASSUME NEW c \in Clients, stream_content_reader(c)
      PROVE  InductiveInvariant'
  BY <1>4, SendPreludeInvariant, EndOfStreamInvariant, TakeChunkInvariant,
     PackFailsInvariant, ProduceChunkInvariant, ProduceFailsInvariant, WaitForClockInvariant
  DEF stream_content_reader
<1>5. ASSUME NEW c \in Clients, stream_content_free(c)
      PROVE  InductiveInvariant'
  BY <1>5, FreeInvariant
<1>. QED  BY <1>1, <1>2, <1>3, <1>4, <1>5 DEF Next

\* For any clients, settings and buffer size: everything the server's bookkeeping
\* rests on (the conjuncts of InductiveInvariant) holds in every reachable state.
THEOREM ServerIsConsistent == Spec => []InductiveInvariant
BY InitInvariant, NextInvariant, PTL DEF Spec

\* Every variable of the server keeps its type.
THEOREM ServerTypes == Spec => []TypeOK
<1>1. InductiveInvariant => TypeOK
  BY DEF InductiveInvariant
<1>. QED  BY <1>1, ServerIsConsistent, PTL

\* No reader of the active session can follow its cursor to a freed chunk.
THEOREM NoUseAfterFree == Spec => []NoDanglingCursor
<1>1. ASSUME InductiveInvariant, NEW c \in CurrentClients, next_chunk[c] # NoChunk
      PROVE  \E i \in DOMAIN chunks : chunks[i] = next_chunk[c]
  <2>1. /\ chunks \in Seq(Chunk) /\ audio_frames_queued \in Nat /\ position[c] \in Nat
        /\ Len(chunks) \in Nat /\ DOMAIN chunks = 1..Len(chunks)
    <3>1. /\ chunks \in Seq(Chunk) /\ audio_frames_queued \in Nat
          /\ position \in [Clients -> Nat] /\ c \in Clients
      BY <1>1 DEF InductiveInvariant, TypeOK, CurrentClients, Registered
    <3>. QED  BY <3>1
  <2>2. /\ next_chunk[c] = [session |-> active_session_id, number |-> position[c] + 1]
        /\ position[c] # audio_frames_queued
    BY <1>1 DEF InductiveInvariant, GapFreeCursor
  <2>3. /\ position[c] <= audio_frames_queued
        /\ audio_frames_queued <= position[c] + Len(chunks)
    BY <1>1 DEF InductiveInvariant, UnheardIsBuffered
  <2> DEFINE i == position[c] + 1 - (audio_frames_queued - Len(chunks))
  <2>4. i \in 1..Len(chunks) /\ audio_frames_queued - Len(chunks) + i = position[c] + 1
    BY <2>1, <2>2, <2>3
  <2>5. chunks[i] = next_chunk[c]
    BY <1>1, <2>2, <2>4 DEF InductiveInvariant, ChunkListConsistent, IsNewest
  <2>. QED  BY <2>1, <2>4, <2>5
<1>2. InductiveInvariant => NoDanglingCursor
  BY <1>1 DEF NoDanglingCursor
<1>. QED  BY <1>2, ServerIsConsistent, PTL
\* What a listener is given next is the chunk after the last one it was given.
THEOREM NoGapNoRepeat == Spec => []GapFreeCursor
<1>1. InductiveInvariant => GapFreeCursor
  BY DEF InductiveInvariant
<1>. QED  BY <1>1, ServerIsConsistent, PTL

\* A session is active exactly while a connected stream plays it.
THEOREM ActiveIsPlayed == Spec => []ActiveWhilePlayed
<1>1. InductiveInvariant => ActiveWhilePlayed
  BY DEF InductiveInvariant
<1>. QED  BY <1>1, ServerIsConsistent, PTL

\* Whoever is played to hears the frequency asked for, from a running capture, unless
\* setting the tuner has failed since the session began: a request that is shared,
\* that replaces the session or whose capture cannot be started detunes nobody.
THEOREM EachHearsItsStation == Spec => []HeardAsAskedFor
<1>1. InductiveInvariant => HeardAsAskedFor
  <2> SUFFICES ASSUME InductiveInvariant, NEW c \in CurrentClients
               PROVE  async_started /\ (tune_failed \/ tuned_frequency = FrequencyOf[request[c]])
    BY DEF HeardAsAskedFor
  <2>1. session_active
    BY DEF InductiveInvariant, ActiveWhilePlayed
  <2>2. request[c] = session_request
    BY DEF InductiveInvariant, PlaysWhatWasAskedFor
  <2>. QED  BY <2>1, <2>2 DEF InductiveInvariant, ActiveSessionIsTuned
<1>. QED  BY <1>1, ServerIsConsistent, PTL

\* Chunks are never produced more than one ahead of the session's clock.
THEOREM ProductionIsPaced == Spec => []NeverAheadOfClock
<1>1. InductiveInvariant => NeverAheadOfClock
  BY DEF InductiveInvariant
<1>. QED  BY <1>1, ServerIsConsistent, PTL

-----------------------------------------------------------------------------
(***************************************************************************)
(* The head of the list is needed.  Pruning stops at a cursor, so the      *)
(* steps that prune establish it; the others keep the client it is for.    *)
(***************************************************************************)
LEMMA PrunedHead ==
    ASSUME InductiveInvariant, NEW cursors, NEW p,
           p = server_prune_chunks(chunks, cursors), p # <<>>
    PROVE  Head(p) \in cursors
<1>1. chunks \in Seq(Chunk)
  BY DEF InductiveInvariant, TypeOK
<1>2. p \in Seq(Chunk) /\ p[1] \in cursors
  BY <1>1, PruneIsSuffix DEF IsNeededSuffix
<1>. QED  BY <1>2

\* A step that leaves the list alone, and c with a phase of its own.
LEMMA HeadStaysNeeded ==
    ASSUME InductiveInvariant, HeadIsNeeded, NEW c \in Clients, NEW p \in Phases,
           phase[c] # "ended" \/ p = "ended", p # "idle", phase[c] # "idle",
           phase' = [phase EXCEPT ![c] = p],
           UNCHANGED <<chunks, next_chunk, session_id, active_session_id>>
    PROVE  HeadIsNeeded'
<1>1. CurrentClients' = CurrentClients
  BY SameCurrentClients
<1>2. \A d \in CurrentClients : phase[d] = "ended" => phase'[d] = "ended"
  BY DEF InductiveInvariant, TypeOK, CurrentClients, Registered
<1>. QED  BY <1>1, <1>2 DEF HeadIsNeeded

LEMMA ProduceKeepsHead ==
    ASSUME InductiveInvariant, HeadIsNeeded, NEW c \in Clients, server_produce_chunk(c)
    PROVE  HeadIsNeeded'
<1> DEFINE chunk == [session |-> active_session_id, number |-> audio_frames_queued + 1]
           room == ChunksWithRoom
<1>1. /\ AtLiveEdge(c) /\ server_make_chunk_room /\ RoomCanBeMade
      /\ phase' = [phase EXCEPT ![c] = "reading"] /\ "reading" \in Phases
      /\ UNCHANGED sessionVars
      /\ chunks' = Append(room, chunk)
      /\ next_chunk' = [d \in Clients |->
                            IF d \in CurrentClients /\ next_chunk[d] = NoChunk
                            THEN chunk ELSE next_chunk[d]]
  BY DEF server_produce_chunk, ReturnFromReader, Phases, CursorsAfterAppend
<1>2. /\ session_active /\ active_session_id # 0
      /\ CurrentClients' = CurrentClients \ Laggards
      /\ c \in CurrentClients \ Laggards
  BY <1>1, CurrentAfterDrops
<1>3. /\ room \in Seq(Chunk)
      /\ IsNewest(room, active_session_id, audio_frames_queued)
  BY <1>1, <1>2, RoomIsMade
<1>4. next_chunk[c] = NoChunk /\ phase[c] # "ended" /\ phase \in [Clients -> Phases]
      /\ CurrentClients \subseteq Clients /\ chunk \in Chunk
  BY <1>1 DEF AtLiveEdge, Serving, InductiveInvariant, TypeOK, CurrentClients, Registered, Chunk
<1>5. CASE room = <<>>
  <2>1. chunks' = <<chunk>>
    BY <1>1, <1>5
  <2>2. next_chunk'[c] = Head(chunks')
    BY <1>1, <1>2, <1>4, <2>1
  <2>. QED  BY <1>2, <2>2 DEF HeadIsNeeded
<1>6. CASE room # <<>>
  <2>1. Head(chunks') = Head(room) /\ Head(room) = room[1] /\ Len(room) >= 1
    <3> HIDE DEF room, chunk
    <3>. QED  BY <1>1, <1>3, <1>4, <1>6, AppendProperties
  <2>2. Head(room) # NoChunk
    <3> HIDE DEF room
    <3>1. 1 \in 1..Len(room)
      BY <1>3, <2>1
    <3>2. room[1] = [session |-> active_session_id, number |-> audio_frames_queued - Len(room) + 1]
      BY <1>3, <3>1 DEF IsNewest
    <3>. QED  BY <1>2, <2>1, <3>2 DEF NoChunk
  <2>3. ASSUME NEW d \in CurrentClients \ Laggards, next_chunk[d] = Head(room)
        PROVE  HeadIsNeeded'
    <3>1. next_chunk'[d] = Head(chunks')
      BY <1>1, <1>4, <2>1, <2>2, <2>3
    <3>. QED  BY <1>2, <3>1 DEF HeadIsNeeded
  <2>4. CASE Full
    <3>1. room = server_prune_chunks(chunks, Cursors(CurrentClients \ Laggards, next_chunk))
      BY <2>4 DEF ChunksWithRoom
    <3>2. Head(room) \in Cursors(CurrentClients \ Laggards, next_chunk)
      <4> HIDE DEF room
      <4>. QED  BY <1>6, <3>1, PrunedHead
    <3>. QED  BY <2>3, <3>2 DEF Cursors
  <2>5. CASE ~Full
    <3>1. room = chunks /\ Laggards = {}
      BY <2>5 DEF ChunksWithRoom, Laggards
    <3>2. CASE \E d \in CurrentClients : next_chunk[d] = Head(chunks)
      BY <2>3, <3>1, <3>2
    <3>3. CASE \E d \in CurrentClients : phase[d] = "ended"
      <4>1. PICK d \in CurrentClients : phase[d] = "ended"
        BY <3>3
      <4>2. d # c /\ phase'[d] = "ended"
        BY <1>1, <1>4, <4>1
      <4>. QED  BY <1>2, <3>1, <4>2 DEF HeadIsNeeded
    <3>. QED  BY <1>6, <3>1, <3>2, <3>3 DEF HeadIsNeeded
  <2>. QED  BY <2>4, <2>5
<1>. QED  BY <1>5, <1>6

LEMMA ReaderKeepsHead ==
    ASSUME InductiveInvariant, HeadIsNeeded, NEW c \in Clients, stream_content_reader(c)
    PROVE  HeadIsNeeded'
<1>1. CASE SendPrelude(c) \/ EndOfStream(c) \/ WaitForClock(c)
  <2>1. PICK p \in Phases : /\ phase[c] # "ended" /\ p # "idle" /\ phase[c] # "idle"
                            /\ phase' = [phase EXCEPT ![c] = p]
    BY <1>1 DEF SendPrelude, EndOfStream, EndReader, WaitForClock, AtLiveEdge, Serving,
       ReturnFromReader, Phases
  <2>2. UNCHANGED <<chunks, next_chunk, session_id, active_session_id>>
    BY <1>1 DEF SendPrelude, EndOfStream, EndReader, WaitForClock, sessionVars
  <2>. QED  BY <2>1, <2>2, HeadStaysNeeded
<1>2. CASE TakeChunk(c)
  <2>1. /\ chunks' = server_prune_chunks(chunks, Cursors(CurrentClients, next_chunk'))
        /\ CurrentClients' = CurrentClients
    BY <1>2, SameCurrentClients DEF TakeChunk, Serving, ReturnFromReader, Phases, sessionVars
  <2>2. chunks' # <<>> => Head(chunks') \in Cursors(CurrentClients, next_chunk')
    BY <2>1, PrunedHead
  <2>. QED  BY <2>1, <2>2 DEF HeadIsNeeded, Cursors
<1>3. CASE PackFails(c)
  <2>1. CurrentClients' = CurrentClients /\ c \in CurrentClients
    BY <1>3, SameCurrentClients DEF PackFails, Serving, StillCurrent, ReturnFromReader, Phases,
       sessionVars, CurrentClients, Registered
  <2>2. phase'[c] = "ended"
    BY <1>3 DEF PackFails, ReturnFromReader, InductiveInvariant, TypeOK
  <2>. QED  BY <2>1, <2>2 DEF HeadIsNeeded
<1>4. CASE server_produce_chunk(c)
  BY <1>4, ProduceKeepsHead
<1>5. CASE ProduceFails(c)
  <2>1. /\ AtLiveEdge(c) /\ phase' = [phase EXCEPT ![c] = "ended"] /\ UNCHANGED sessionVars
        /\ "ended" \in Phases
    BY <1>5 DEF ProduceFails, ReturnFromReader, Phases
  <2>2. c \in CurrentClients'
    <3>1. CASE server_make_chunk_room
      BY <2>1, <3>1, CurrentAfterDrops
    <3>2. CASE UNCHANGED session_id
      BY <2>1, <3>2, SameCurrentClients DEF AtLiveEdge, Serving, StillCurrent, sessionVars,
         CurrentClients, Registered
    <3>. QED  BY <1>5, <3>1, <3>2 DEF ProduceFails
  <2>3. phase'[c] = "ended"
    BY <2>1 DEF InductiveInvariant, TypeOK
  <2>. QED  BY <2>2, <2>3 DEF HeadIsNeeded
<1>. QED  BY <1>1, <1>2, <1>3, <1>4, <1>5 DEF stream_content_reader

LEMMA FreeKeepsHead ==
    ASSUME InductiveInvariant, NEW c \in Clients, stream_content_free(c)
    PROVE  HeadIsNeeded'
<1> DEFINE others == CurrentClients \ {c}
<1>1. CurrentClients' = others
  BY DEF stream_content_free, InductiveInvariant, TypeOK, CurrentClients, Registered
<1>2. Cursors(others, next_chunk) = Cursors(others, next_chunk')
  BY DEF stream_content_free, InductiveInvariant, TypeOK, Cursors, CurrentClients, Registered
<1>3. chunks' = <<>> \/ chunks' = server_prune_chunks(chunks, Cursors(others, next_chunk))
  BY DEF stream_content_free
<1>4. chunks' # <<>> => Head(chunks') \in Cursors(others, next_chunk')
  <2> HIDE DEF others
  <2>. QED  BY <1>2, <1>3, PrunedHead
<1>. QED  BY <1>1, <1>4 DEF HeadIsNeeded, Cursors

LEMMA JoinKeepsHead ==
    ASSUME InductiveInvariant, HeadIsNeeded, NEW c \in Clients, NEW s \in Settings,
           JoinSession(c, s)
    PROVE  HeadIsNeeded'
<1>1. \A d \in CurrentClients :
         d \in CurrentClients' /\ next_chunk'[d] = next_chunk[d] /\ phase'[d] = phase[d]
  BY DEF JoinSession, RegisterClient, sessionVars, InductiveInvariant, TypeOK, CurrentClients,
     Registered
<1>2. chunks' = chunks
  BY DEF JoinSession
<1>. QED  BY <1>1, <1>2 DEF HeadIsNeeded

\* A chunk is kept only while a client of the session needs the head of the list,
\* or one that has failed is still to be freed.
THEOREM BufferIsNeeded == Spec => []HeadIsNeeded
<1>1. Init => HeadIsNeeded
  BY DEF Init, HeadIsNeeded
<1>2. ASSUME InductiveInvariant, HeadIsNeeded, [Next]_vars
      PROVE  HeadIsNeeded'
  <2>1. CASE UNCHANGED <<chunks, next_chunk, session_id, active_session_id, phase>>
    BY <1>2, <2>1 DEF HeadIsNeeded, CurrentClients, Registered
  <2>2. ASSUME NEW c \in Clients, handle_request(c)
        PROVE  HeadIsNeeded'
    <3>1. PICK s \in Settings : JoinSession(c, s) \/ ReplaceSession(c, s) \/ RefuseRequest(c, s)
      BY <2>2 DEF handle_request
    <3>2. CASE ReplaceSession(c, s)
      BY <3>2 DEF ReplaceSession, HeadIsNeeded
    <3>3. CASE RefuseRequest(c, s)
      BY <2>1, <3>3 DEF RefuseRequest, sessionVars, clientVars
    <3>. QED  BY <1>2, <3>1, <3>2, <3>3, JoinKeepsHead
  <2>3. CASE Tick
    BY <2>1, <2>3 DEF Tick, sessionVars, clientVars
  <2>4. CASE UNCHANGED vars
    BY <2>1, <2>4 DEF vars, sessionVars, clientVars
  <2>. QED  BY <1>2, <2>2, <2>3, <2>4, ReaderKeepsHead, FreeKeepsHead DEF Next
<1>3. InductiveInvariant /\ HeadIsNeeded /\ [Next]_vars => HeadIsNeeded'
  BY <1>2
<1>. QED  BY <1>1, <1>3, ServerIsConsistent, PTL DEF Spec

\* A client that keeps up is never dropped, however the others behave: dropping
\* needs a whole buffer of chunks the client has not been given.
THEOREM OnlyLaggardsAreDropped == Spec => DropOnlyLaggards
<1> DEFINE Drop == \A c \in Clients : ~dropped_for_lag[c] /\ dropped_for_lag'[c] =>
                       position[c] + MaxChunks <= audio_frames_queued
<1>1. ASSUME InductiveInvariant, [Next]_vars, NEW c \in Clients,
             ~dropped_for_lag[c], dropped_for_lag'[c]
      PROVE  position[c] + MaxChunks <= audio_frames_queued
  <2>1. dropped_for_lag \in [Clients -> BOOLEAN] /\ dropped_for_lag' # dropped_for_lag
    BY <1>1 DEF InductiveInvariant, TypeOK
  <2>2. PICK d \in Clients : handle_request(d) \/ stream_content_reader(d)
                              \/ stream_content_free(d)
    BY <1>1, <2>1 DEF Next, vars, Tick, clientVars
  <2>3. CASE handle_request(d)
    <3>1. PICK s \in Settings : JoinSession(d, s) \/ ReplaceSession(d, s)
                                \/ RefuseRequest(d, s)
      BY <2>3 DEF handle_request
    <3>2. CASE RefuseRequest(d, s)
      BY <2>1, <3>2 DEF RefuseRequest, clientVars
    <3>3. CASE JoinSession(d, s) \/ ReplaceSession(d, s)
      <4>1. dropped_for_lag' = [dropped_for_lag EXCEPT ![d] = FALSE]
        BY <3>3 DEF JoinSession, ReplaceSession, RegisterClient
      <4>. QED  BY <1>1, <2>1, <4>1
    <3>. QED  BY <3>1, <3>2, <3>3
  <2>4. CASE stream_content_free(d)
    <3>1. dropped_for_lag' = [dropped_for_lag EXCEPT ![d] = FALSE]
      BY <2>4 DEF stream_content_free
    <3>. QED  BY <1>1, <2>1, <3>1
  <2>5. CASE stream_content_reader(d)
    <3>1. server_make_chunk_room
      BY <2>1, <2>5 DEF stream_content_reader, SendPrelude, EndOfStream, EndReader, TakeChunk,
         PackFails, server_produce_chunk, ProduceFails, WaitForClock
    <3>2. c \in Laggards
      BY <1>1, <2>1, <3>1 DEF server_make_chunk_room
    <3>. QED  BY <1>1, <3>2, LaggardsAreBehind
  <2>. QED  BY <2>2, <2>3, <2>4, <2>5
<1>2. InductiveInvariant /\ [Next]_vars => [Drop]_vars
  BY <1>1
<1>. QED  BY <1>2, ServerIsConsistent, PTL DEF Spec, DropOnlyLaggards

-----------------------------------------------------------------------------
(***************************************************************************)
(* The server implements LiveBroadcast.  A client is tuned exactly when it *)
(* is one of CurrentClients, so each lemma says what a step does to that   *)
(* set, to the session and to the positions, and names the step of the     *)
(* broadcast that does the same.                                           *)
(***************************************************************************)
LEMMA ListenerCases ==
    \A c \in Clients :
        ListenerOf(c) = IF phase[c] = "idle" THEN "away"
                        ELSE IF c \in CurrentClients THEN "tuned" ELSE "cut"
BY DEF ListenerOf, CurrentClients, Registered

LEMMA ListenerCasesNext ==
    \A c \in Clients :
        ListenerOf(c)' = IF phase'[c] = "idle" THEN "away"
                         ELSE IF c \in CurrentClients' THEN "tuned" ELSE "cut"
BY DEF ListenerOf, CurrentClients, Registered

LEMMA TunedAreCurrent == Broadcast!Tuned = CurrentClients
<1>1. \A c \in Clients : [d \in Clients |-> ListenerOf(d)][c] = ListenerOf(c)
  OBVIOUS
<1>2. \A c \in Clients : ListenerOf(c) = "tuned" <=> c \in CurrentClients
  BY ListenerCases DEF CurrentClients, Registered
<1>. QED  BY <1>1, <1>2 DEF Broadcast!Tuned, CurrentClients, Registered

\* What the broadcast shows of a step: nobody's listener changes but those in S, to v.
LEMMA OnlyListeners ==
    ASSUME NEW S, NEW v,
           \A d \in Clients : ListenerOf(d)' = IF d \in S THEN v ELSE ListenerOf(d)
    PROVE  [d \in Clients |-> ListenerOf(d)]'
             = [d \in Clients |-> IF d \in S THEN v
                                  ELSE [e \in Clients |-> ListenerOf(e)][d]]
OBVIOUS

LEMMA OneListener ==
    ASSUME NEW c \in Clients, NEW v,
           \A d \in Clients : ListenerOf(d)' = IF d = c THEN v ELSE ListenerOf(d)
    PROVE  [d \in Clients |-> ListenerOf(d)]'
             = [[d \in Clients |-> ListenerOf(d)] EXCEPT ![c] = v]
OBVIOUS

LEMMA NoListener ==
    ASSUME \A d \in Clients : ListenerOf(d)' = ListenerOf(d)
    PROVE  [d \in Clients |-> ListenerOf(d)]' = [d \in Clients |-> ListenerOf(d)]
OBVIOUS

\* Steps that move phases only, between those of a connected stream.
LEMMA UnseenStep ==
    ASSUME InductiveInvariant, NEW c \in Clients, NEW p \in Phases,
           phase[c] # "idle", p # "idle", phase' = [phase EXCEPT ![c] = p],
           UNCHANGED <<sessionVars, session_id, audio_frames_queued, position>>
    PROVE  UNCHANGED Broadcast!vars
<1>1. CurrentClients' = CurrentClients
  BY SameCurrentClients DEF sessionVars
<1>2. \A d \in Clients : phase'[d] = "idle" <=> phase[d] = "idle"
  BY DEF InductiveInvariant, TypeOK
<1>3. \A d \in Clients : ListenerOf(d)' = ListenerOf(d)
  BY <1>1, <1>2, ListenerCases, ListenerCasesNext
<1>. QED  BY <1>3, NoListener DEF Broadcast!vars, sessionVars

LEMMA JoinIsJoin ==
    ASSUME InductiveInvariant, NEW c \in Clients, NEW s \in Settings, JoinSession(c, s)
    PROVE  Broadcast!Join(c)
<1>1. CurrentClients' = CurrentClients \cup {c}
  BY DEF InductiveInvariant, TypeOK, JoinSession, RegisterClient, sessionVars,
     CurrentClients, Registered
<1>2. /\ phase[c] = "idle" /\ session_active
      /\ phase' = [phase EXCEPT ![c] = "sending"] /\ phase \in [Clients -> Phases]
  BY DEF JoinSession, RegisterClient, stream_request_matches_session, InductiveInvariant, TypeOK
<1>3. \A d \in Clients : ListenerOf(d)' = IF d = c THEN "tuned" ELSE ListenerOf(d)
  BY <1>1, <1>2, ListenerCases, ListenerCasesNext
<1>4. [d \in Clients |-> ListenerOf(d)]' = [[d \in Clients |-> ListenerOf(d)] EXCEPT ![c] = "tuned"]
  BY <1>3, OneListener
<1>5. [d \in Clients |-> ListenerOf(d)][c] = "away"
  BY <1>2, ListenerCases
<1>. QED  BY <1>2, <1>4, <1>5 DEF Broadcast!Join, JoinSession, RegisterClient, sessionVars, clockVars

LEMMA ReplaceIsReplace ==
    ASSUME InductiveInvariant, NEW c \in Clients, NEW s \in Settings, ReplaceSession(c, s)
    PROVE  Broadcast!Replace(c, s)
<1>1. CurrentClients' = {c}
  <2>1. \A d \in Clients \ {c} : session_id'[d] # active_session_id'
    BY DEF InductiveInvariant, TypeOK, SessionBookkeeping, ReplaceSession, RegisterClient, NextSessionId
  <2>2. phase'[c] # "idle" /\ session_id'[c] = active_session_id'
    BY DEF InductiveInvariant, TypeOK, ReplaceSession, RegisterClient, NextSessionId
  <2>. QED  BY <2>1, <2>2 DEF CurrentClients, Registered
<1>2. /\ phase[c] = "idle" /\ ~(session_active /\ session_request = s)
      /\ phase' = [phase EXCEPT ![c] = "sending"] /\ phase \in [Clients -> Phases]
  BY DEF ReplaceSession, RegisterClient, stream_request_matches_session, InductiveInvariant, TypeOK
<1>3. \A d \in Clients : ListenerOf(d)' = IF d = c THEN "tuned"
                                          ELSE IF d \in CurrentClients THEN "cut"
                                          ELSE ListenerOf(d)
  BY <1>1, <1>2, ListenerCases, ListenerCasesNext DEF CurrentClients, Registered
<1>4. [d \in Clients |-> ListenerOf(d)]'
        = [d \in Clients |-> IF d = c THEN "tuned"
                             ELSE IF d \in Broadcast!Tuned THEN "cut"
                             ELSE [e \in Clients |-> ListenerOf(e)][d]]
  BY <1>3, TunedAreCurrent
<1>5. [d \in Clients |-> ListenerOf(d)][c] = "away"
  BY <1>2, ListenerCases
<1>. QED  BY <1>2, <1>4, <1>5 DEF Broadcast!Replace, ReplaceSession, RegisterClient

\* A chunk taken, or lost in packing, is a piece heard.
LEMMA DeliveryIsHear ==
    ASSUME InductiveInvariant, NEW c \in Clients, Delivers(c)
    PROVE  Broadcast!Hear(c)
<1>1. /\ c \in CurrentClients
      /\ CurrentClients' = CurrentClients
      /\ position' = [position EXCEPT ![c] = position[c] + 1]
      /\ position[c] < audio_frames_queued
  BY DeliveredInOrder
<1>2. PICK p \in Phases : p # "idle" /\ phase' = [phase EXCEPT ![c] = p]
  BY DEF Delivers, TakeChunk, PackFails, ReturnFromReader, Phases
<1>3. \A d \in Clients : phase'[d] = "idle" <=> phase[d] = "idle"
  BY <1>1, <1>2 DEF InductiveInvariant, TypeOK, CurrentClients, Registered
<1>4. \A d \in Clients : ListenerOf(d)' = ListenerOf(d)
  BY <1>1, <1>3, ListenerCases, ListenerCasesNext
<1>5. [d \in Clients |-> ListenerOf(d)]' = [d \in Clients |-> ListenerOf(d)]
  BY <1>4, NoListener
<1>6. UNCHANGED <<session_active, session_request, audio_frames_queued>>
  BY DEF Delivers, TakeChunk, PackFails, sessionVars, clockVars
<1>. QED  BY <1>1, <1>5, <1>6, TunedAreCurrent DEF Broadcast!Hear

\* Making room cuts off exactly the clients a whole buffer behind.
LEMMA RoomCutsOff ==
    ASSUME InductiveInvariant, NEW c \in Clients, NEW p \in Phases, p # "idle",
           AtLiveEdge(c), server_make_chunk_room,
           phase' = [phase EXCEPT ![c] = p], UNCHANGED sessionVars
    PROVE  /\ session_active
           /\ Laggards \in SUBSET Broadcast!Tuned
           /\ Broadcast!CutOff(Laggards)
<1>1. session_active /\ CurrentClients' = CurrentClients \ Laggards
  BY CurrentAfterDrops
<1>2. Laggards \subseteq CurrentClients
  BY DEF Laggards
<1>3. \A d \in Clients : phase'[d] = "idle" <=> phase[d] = "idle"
  BY DEF InductiveInvariant, TypeOK, AtLiveEdge, Serving
<1>4. \A d \in Clients : ListenerOf(d)' = IF d \in Laggards THEN "cut" ELSE ListenerOf(d)
  BY <1>1, <1>2, <1>3, ListenerCases, ListenerCasesNext DEF CurrentClients, Registered
<1>5. [d \in Clients |-> ListenerOf(d)]'
        = [d \in Clients |-> IF d \in Laggards THEN "cut"
                             ELSE [e \in Clients |-> ListenerOf(e)][d]]
  BY <1>4, OnlyListeners
<1>6. \A d \in Laggards : position[d] + MaxChunks <= audio_frames_queued
  BY LaggardsAreBehind
<1>. QED  BY <1>1, <1>2, <1>5, <1>6, TunedAreCurrent DEF Broadcast!CutOff

\* Producing a chunk airs a piece, and nobody who stays is MaxChunks behind.
LEMMA ProduceIsAir ==
    ASSUME InductiveInvariant, NEW c \in Clients, server_produce_chunk(c)
    PROVE  Broadcast!Air
<1>1. /\ AtLiveEdge(c) /\ server_make_chunk_room /\ RoomCanBeMade
      /\ phase' = [phase EXCEPT ![c] = "reading"] /\ "reading" \in Phases
      /\ UNCHANGED <<sessionVars, position>>
      /\ audio_frames_queued' = audio_frames_queued + 1
  BY DEF server_produce_chunk, ReturnFromReader, Phases
<1>2. /\ session_active
      /\ Laggards \in SUBSET Broadcast!Tuned
      /\ Broadcast!CutOff(Laggards)
  BY <1>1, RoomCutsOff
<1>3. ASSUME NEW d \in CurrentClients \ Laggards
      PROVE  audio_frames_queued < position[d] + MaxChunks
  <2>1. /\ Len(ChunksWithRoom) < MaxChunks /\ ChunksWithRoom \in Seq(Chunk)
        /\ audio_frames_queued <= position[d] + Len(ChunksWithRoom)
    BY <1>1, <1>2, RoomIsMade
  <2>2. position[d] \in Nat /\ audio_frames_queued \in Nat /\ Len(ChunksWithRoom) \in Nat
    BY <2>1 DEF InductiveInvariant, TypeOK, CurrentClients, Registered
  <2>. QED  BY <2>1, <2>2, MaxChunksAssumption
<1>. QED  BY <1>1, <1>2, <1>3, TunedAreCurrent DEF Broadcast!Air, sessionVars

\* A failure to produce airs nothing, but may have cut off the slow clients.
LEMMA FailureIsAirFails ==
    ASSUME InductiveInvariant, NEW c \in Clients, ProduceFails(c)
    PROVE  Broadcast!AirFails \/ UNCHANGED Broadcast!vars
<1>1. /\ AtLiveEdge(c) /\ phase[c] # "idle"
      /\ phase' = [phase EXCEPT ![c] = "ended"] /\ "ended" \in Phases
      /\ UNCHANGED <<sessionVars, position, audio_frames_queued>>
      /\ server_make_chunk_room \/ UNCHANGED session_id
  BY DEF ProduceFails, ReturnFromReader, Phases, AtLiveEdge, Serving
<1>2. CASE server_make_chunk_room
  <2>1. /\ session_active
        /\ Laggards \in SUBSET Broadcast!Tuned
        /\ Broadcast!CutOff(Laggards)
    BY <1>1, <1>2, RoomCutsOff
  <2>. QED  BY <1>1, <2>1 DEF Broadcast!AirFails, sessionVars
<1>3. CASE UNCHANGED session_id
  BY <1>1, <1>3, UnseenStep
<1>. QED  BY <1>1, <1>2, <1>3

LEMMA FreeIsLeave ==
    ASSUME InductiveInvariant, NEW c \in Clients, stream_content_free(c)
    PROVE  Broadcast!Leave(c)
<1>1. CurrentClients' = CurrentClients \ {c}
  BY DEF stream_content_free, InductiveInvariant, TypeOK, CurrentClients, Registered
<1>2. /\ phase[c] # "idle"
      /\ phase' = [phase EXCEPT ![c] = "idle"] /\ phase \in [Clients -> Phases]
      /\ position' = [position EXCEPT ![c] = 0]
      /\ UNCHANGED <<session_request, audio_frames_queued>>
  BY DEF stream_content_free, InductiveInvariant, TypeOK, clockVars
<1>3. session_active' = (session_active /\ CurrentClients \ {c} # {})
  BY DEF stream_content_free, StopsSession, InductiveInvariant, TypeOK
<1>4. \A d \in Clients : ListenerOf(d)' = IF d = c THEN "away" ELSE ListenerOf(d)
  BY <1>1, <1>2, ListenerCases, ListenerCasesNext
<1>5. [d \in Clients |-> ListenerOf(d)]' = [[d \in Clients |-> ListenerOf(d)] EXCEPT ![c] = "away"]
  BY <1>4, OneListener
<1>6. [d \in Clients |-> ListenerOf(d)][c] # "away"
  BY <1>2, ListenerCases
<1>. QED  BY <1>2, <1>3, <1>5, <1>6, TunedAreCurrent DEF Broadcast!Leave

\* Every step of a reader is a step of the broadcast, or none that it shows.
LEMMA ReaderImplements ==
    ASSUME InductiveInvariant, NEW c \in Clients, stream_content_reader(c)
    PROVE  [Broadcast!Next]_Broadcast!vars
<1>1. CASE SendPrelude(c) \/ EndOfStream(c) \/ WaitForClock(c)
  <2>1. PICK p \in Phases : /\ p # "idle" /\ phase[c] # "idle"
                            /\ phase' = [phase EXCEPT ![c] = p]
    BY <1>1 DEF SendPrelude, EndOfStream, EndReader, WaitForClock, AtLiveEdge, Serving,
       ReturnFromReader, Phases
  <2>2. UNCHANGED <<sessionVars, session_id, audio_frames_queued, position>>
    BY <1>1 DEF SendPrelude, EndOfStream, EndReader, WaitForClock, clockVars
  <2>. QED  BY <2>1, <2>2, UnseenStep
<1>2. CASE TakeChunk(c) \/ PackFails(c)
  BY <1>2, DeliveryIsHear DEF Delivers, Broadcast!Next
<1>3. CASE server_produce_chunk(c)
  BY <1>3, ProduceIsAir DEF Broadcast!Next
<1>4. CASE ProduceFails(c)
  BY <1>4, FailureIsAirFails DEF Broadcast!Next
<1>. QED  BY <1>1, <1>2, <1>3, <1>4 DEF stream_content_reader

\* The server, with its shared chunk list, cursors, pacing clock, drops and failures,
\* implements the broadcast: every listener hears whole pieces in order and without a
\* gap from the moment it joins, until it leaves or is cut off by another station or
\* for being a whole buffer behind.
THEOREM ServerImplementsBroadcast == Spec => ImplementsBroadcast
<1>1. Init => Broadcast!Init
  <2> SUFFICES ASSUME Init PROVE Broadcast!Init
    OBVIOUS
  <2>1. \A c \in Clients : ListenerOf(c) = "away"
    BY ListenerCases DEF Init
  <2>2. [c \in Clients |-> ListenerOf(c)] = [c \in Clients |-> "away"]
    BY <2>1
  <2>. QED  BY <2>2 DEF Init, Broadcast!Init
<1>2. InductiveInvariant /\ [Next]_vars => [Broadcast!Next]_Broadcast!vars
  <2> SUFFICES ASSUME InductiveInvariant, [Next]_vars
               PROVE  [Broadcast!Next]_Broadcast!vars
    OBVIOUS
  <2>1. CASE UNCHANGED <<sessionVars, phase, session_id, audio_frames_queued, position>>
    <3>1. CurrentClients' = CurrentClients
      BY <2>1 DEF CurrentClients, Registered, sessionVars
    <3>2. \A d \in Clients : ListenerOf(d)' = ListenerOf(d)
      BY <2>1, <3>1, ListenerCases, ListenerCasesNext
    <3>. QED  BY <2>1, <3>2, NoListener DEF Broadcast!vars, sessionVars
  <2>2. ASSUME NEW c \in Clients, handle_request(c)
        PROVE  [Broadcast!Next]_Broadcast!vars
    <3>1. PICK s \in Settings : JoinSession(c, s) \/ ReplaceSession(c, s) \/ RefuseRequest(c, s)
      BY <2>2 DEF handle_request
    <3>2. CASE JoinSession(c, s)
      BY <3>2, JoinIsJoin DEF Broadcast!Next
    <3>3. CASE ReplaceSession(c, s)
      BY <3>3, ReplaceIsReplace DEF Broadcast!Next
    <3>4. CASE RefuseRequest(c, s)
      BY <2>1, <3>4 DEF RefuseRequest, clientVars, clockVars
    <3>. QED  BY <3>1, <3>2, <3>3, <3>4
  <2>3. ASSUME NEW c \in Clients, stream_content_free(c)
        PROVE  [Broadcast!Next]_Broadcast!vars
    BY <2>3, FreeIsLeave DEF Broadcast!Next
  <2>4. CASE Tick
    BY <2>1, <2>4 DEF Tick, clientVars, clockVars
  <2>5. CASE UNCHANGED vars
    BY <2>1, <2>5 DEF vars, clientVars, clockVars
  <2>. QED  BY <2>2, <2>3, <2>4, <2>5, ReaderImplements DEF Next
<1>. QED  BY <1>1, <1>2, ServerIsConsistent, PTL DEF Spec, ImplementsBroadcast, Broadcast!Spec

-----------------------------------------------------------------------------
(***************************************************************************)
(* ServerRun: the sessions' invariants hold from start-up through          *)
(* shutdown, with reads that keep the lock, and nothing is released that a *)
(* connection uses.                                                        *)
(***************************************************************************)
\* The server's own invariant, under the steps that StreamServer has not.

LEMMA BeginReadInvariant ==
    ASSUME InductiveInvariant, NEW c \in Clients, BeginRead(c)
    PROVE  InductiveInvariant'
<1>1. CurrentClients' = CurrentClients
  BY DEF BeginRead, CurrentClients, Registered, sessionVars, clientVars
<1>2. TypeOK'
  BY DEF InductiveInvariant, TypeOK, BeginRead, stream_session_start_clock,
     sessionVars, tunerVars, clientVars
<1>3. NeverAheadOfClock'
  BY DEF InductiveInvariant, TypeOK, NeverAheadOfClock, BeginRead, stream_session_start_clock
<1>. QED
  BY <1>1, <1>2, <1>3 DEF InductiveInvariant, BeginRead, sessionVars, tunerVars, clientVars,
     ChunkListConsistent, UnheardIsBuffered, GapFreeCursor, SessionBookkeeping,
     ActiveWhilePlayed, ActiveSessionIsTuned, PlaysWhatWasAskedFor

\* Once nobody is connected there is no session and no chunk.
LEMMA NobodyConnected ==
    ASSUME InductiveInvariant, Registered = {}
    PROVE  ~session_active /\ chunks = <<>> /\ chunk_count = 0
<1>1. CurrentClients = {}
  BY DEF CurrentClients
<1>2. ~session_active
  BY <1>1 DEF InductiveInvariant, ActiveWhilePlayed
<1>3. chunks = <<>>
  BY <1>2 DEF InductiveInvariant, SessionBookkeeping
<1>. QED  BY <1>2, <1>3 DEF InductiveInvariant, ChunkListConsistent

LEMMA StopSourceInvariant ==
    ASSUME InductiveInvariant, Registered = {}, StopSource
    PROVE  InductiveInvariant'
<1>1. CurrentClients' = CurrentClients
  BY DEF StopSource, CurrentClients, Registered, sessionVars, clientVars
<1>2. ~session_active'
  BY NobodyConnected DEF StopSource, sessionVars
<1>3. TypeOK'
  BY DEF InductiveInvariant, TypeOK, StopSource, sessionVars, clockVars, clientVars
<1>4. ActiveSessionIsTuned'
  BY <1>2 DEF ActiveSessionIsTuned
<1>. QED
  BY <1>1, <1>3, <1>4 DEF InductiveInvariant, StopSource, sessionVars, clockVars, clientVars,
     ChunkListConsistent, UnheardIsBuffered, GapFreeCursor, SessionBookkeeping,
     ActiveWhilePlayed, PlaysWhatWasAskedFor, NeverAheadOfClock

LEMMA ClearChunksStutters ==
    ASSUME InductiveInvariant, Registered = {}, ClearChunks
    PROVE  UNCHANGED vars
BY NobodyConnected DEF ClearChunks, vars

LEMMA ConnectionInvariant ==
    ASSUME InductiveInvariant, NEW c \in Clients, connection(c)
    PROVE  InductiveInvariant'
<1>1. CASE BeginRead(c)
  BY <1>1, BeginReadInvariant
<1>2. CASE CloseIdle(c)
  <2>1. UNCHANGED vars
    BY <1>2 DEF CloseIdle
  <2>. QED  BY <2>1, NextInvariant
<1>3. CASE Request(c) \/ ReadPass(c) \/ EndRead(c) \/ CloseStream(c)
  <2>1. handle_request(c) \/ stream_content_reader(c) \/ stream_content_free(c)
    BY <1>3 DEF Request, ReadPass, LockedPass, EndRead, CloseStream, stream_content_reader
  <2>2. Next
    BY <2>1 DEF Next
  <2>. QED  BY <2>2, NextInvariant
<1>. QED  BY <1>1, <1>2, <1>3 DEF connection

\* Start-up has no connections yet; each of its steps goes on, or is the last one.
LEMMA StartUpSteps ==
    ASSUME StartUp
    PROVE  /\ UNCHANGED <<vars, calls, stop_requested, holder>>
           /\ main \in {"parsing", "opening", "binding", "serving"}
           /\ main' \in {"opening", "binding", "serving", "handlers", "exited"}
<1>1. CASE TakeLock
  BY <1>1 DEF TakeLock, Acquires, FailsGivingBack, MainGoes
<1>2. CASE StartSource
  BY <1>2 DEF StartSource, Acquires, MainGoes
<1>3. CASE BindSocket
  BY <1>3 DEF BindSocket, Acquires, FailsGivingBack, MainGoes
<1>4. CASE StartDaemon
  BY <1>4 DEF StartDaemon, Acquires, FailsGivingBack, MainGoes
<1>. QED  BY <1>1, <1>2, <1>3, <1>4 DEF StartUp

\* The list of each failure is what is held there, and the daemon is the last.
LEMMA StartUpHolds ==
    ASSUME StartUp, held = HeldAt(main)
    PROVE  held' = HeldAt(main') /\ "daemon" \notin held
<1>1. CASE TakeLock
  BY <1>1 DEF TakeLock, Acquires, FailsGivingBack, MainGoes, HeldAt, Releasing
<1>2. CASE StartSource
  <2>1. main = "opening" /\ held = {"lock"}
    BY <1>2 DEF StartSource, Acquires, MainGoes, HeldAt, Releasing
  <2>2. CASE Acquires("opening", "binding", SourceParts)
    BY <2>1, <2>2 DEF Acquires, MainGoes, HeldAt, Releasing
  <2>3. CASE MainGoes("opening", "exited")
    <3>1. PICK parts \in PartsBeforeFailure : held' = ((held \cup parts) \ FreedAtFail) \ {"lock"}
      BY <1>2, <2>3 DEF StartSource, Acquires, MainGoes
    <3>2. parts \subseteq FreedAtFail
      BY DEF PartsBeforeFailure, SourceParts, FreedAtFail
    <3>3. held' = {}
      BY <2>1, <3>1, <3>2
    <3>. QED  BY <2>1, <2>3, <3>3 DEF MainGoes, HeldAt, Releasing
  <2>. QED  BY <1>2, <2>2, <2>3 DEF StartSource
<1>3. CASE BindSocket
  <2>1. main = "binding" /\ held = {"lock"} \cup SourceParts
    BY <1>3 DEF BindSocket, Acquires, FailsGivingBack, MainGoes, HeldAt, Releasing
  <2>2. CASE Acquires("binding", "serving", {"socket"})
    BY <2>1, <2>2 DEF Acquires, MainGoes, HeldAt, Releasing, SourceParts
  <2>3. CASE FailsGivingBack("binding", FreedAtStop \cup {"lock"})
    <3>1. held' = {}
      BY <2>1, <2>3 DEF FailsGivingBack, FreedAtStop, SourceParts
    <3>. QED  BY <2>1, <2>3, <3>1 DEF FailsGivingBack, MainGoes, HeldAt, Releasing, SourceParts
  <2>. QED  BY <1>3, <2>2, <2>3 DEF BindSocket
<1>4. CASE StartDaemon
  <2>1. main = "serving" /\ held = {"lock"} \cup SourceParts \cup {"socket"}
    BY <1>4 DEF StartDaemon, Acquires, FailsGivingBack, MainGoes, HeldAt, Releasing
  <2>2. CASE Acquires("serving", "handlers", {"daemon"})
    BY <2>1, <2>2 DEF Acquires, MainGoes, HeldAt, Releasing, SourceParts
  <2>3. CASE FailsGivingBack("serving", {"socket"} \cup FreedAtStop \cup {"lock"})
    <3>1. held' = {}
      BY <2>1, <2>3 DEF FailsGivingBack, FreedAtStop, SourceParts
    <3>. QED  BY <2>1, <2>3, <3>1 DEF FailsGivingBack, MainGoes, HeldAt, Releasing, SourceParts
  <2>. QED  BY <1>4, <2>2, <2>3 DEF StartDaemon
<1>. QED  BY <1>1, <1>2, <1>3, <1>4 DEF StartUp

LEMMA ServerRunInvariant ==
    ASSUME RunInvariant, server_run
    PROVE  InductiveInvariant'
<1>1. CASE StopSource
  <2>1. Registered = {}
    BY <1>1 DEF StopSource, MainGoes, RunInvariant, RunBookkeeping, HeldAt, Releasing, SourceParts
  <2>. QED  BY <1>1, <2>1, StopSourceInvariant DEF RunInvariant
<1>2. CASE ~StopSource
  <2>1. CASE ClearChunks
    <3>1. Registered = {}
      BY <2>1 DEF ClearChunks, MainGoes, RunInvariant, RunBookkeeping, HeldAt, Releasing, SourceParts
    <3>. QED  BY <2>1, <3>1, ClearChunksStutters, NextInvariant DEF RunInvariant
  <2>2. CASE ~ClearChunks
    <3>1. UNCHANGED vars
      BY <1>2, <2>2, StartUpSteps DEF server_run, InstallHandlers, TestStop, Pause,
         StopDaemon, JoinConnections, DestroyLock
    <3>. QED  BY <3>1, NextInvariant DEF RunInvariant
  <2>. QED  BY <2>1, <2>2
<1>. QED  BY <1>1, <1>2

-----------------------------------------------------------------------------
(* The bookkeeping of the server's life. *)

LEMMA InitBookkeeping == RunInit => RunInvariant
<1> SUFFICES ASSUME RunInit  PROVE RunInvariant
  OBVIOUS
<1>1. InductiveInvariant
  BY InitInvariant DEF RunInit
<1>2. Registered = {}
  BY DEF RunInit, Init, Registered
<1>. QED
  BY <1>1, <1>2 DEF RunInit, RunInvariant, RunBookkeeping, RunTypeOK, Places, StartingUp, HeldAt, Releasing

\* Whoever has a thread, or is in a read, finds the daemon there.
LEMMA DaemonIsThere ==
    ASSUME RunBookkeeping, main # "killed", NEW c \in Clients,
           c \in Registered \/ c \in calls \/ holder = c
    PROVE  "daemon" \in held
BY NobodyAssumption DEF RunBookkeeping

LEMMA ConnectionBookkeeping ==
    ASSUME RunInvariant, NEW c \in Clients, connection(c)
    PROVE  RunBookkeeping'
<1>1. main' = main /\ held' = held /\ calls' \in SUBSET Clients
  BY DEF connection, Request, ReadPass, BeginRead, EndRead, CloseStream, CloseIdle,
     RunInvariant, RunBookkeeping, RunTypeOK
<1>2. main # "killed" /\ "daemon" \in held
  <2>1. CASE Request(c)
    BY <2>1 DEF Request, MayCall
  <2>2. CASE ReadPass(c) \/ BeginRead(c)
    <3>1. CASE InCall(c)
      BY <3>1, DaemonIsThere DEF InCall, Registered, RunInvariant
    <3>. QED  BY <2>2, <3>1 DEF ReadPass, BeginRead, MayCall
  <2>3. CASE EndRead(c)
    BY <2>3, DaemonIsThere DEF EndRead, RunInvariant
  <2>4. CASE CloseStream(c)
    BY <2>4, DaemonIsThere DEF CloseStream, stream_content_free, Registered, RunInvariant
  <2>5. CASE CloseIdle(c)
    BY <2>5, DaemonIsThere DEF CloseIdle, RunInvariant
  <2>. QED  BY <2>1, <2>2, <2>3, <2>4, <2>5 DEF connection
<1>3. holder' \in Clients \cup {Nobody} /\ (holder' # Nobody => AtLiveEdge(holder)')
  <2>1. CASE Request(c) \/ CloseStream(c) \/ EndRead(c)
    BY <2>1 DEF Request, CloseStream, EndRead, LockIsFree
  <2>2. CASE BeginRead(c)
    BY <2>2 DEF BeginRead, AtLiveEdge, Serving, StillCurrent, sessionVars, clientVars
  <2>3. CASE CloseIdle(c)
    BY <2>3 DEF CloseIdle, vars, sessionVars, clientVars, AtLiveEdge, Serving, StillCurrent,
       RunInvariant, RunBookkeeping, RunTypeOK
  <2>4. CASE ReadPass(c) /\ LockedPass(c)
    BY <2>4 DEF ReadPass, LockedPass, LockIsFree
  <2>5. CASE ReadPass(c) /\ SendPrelude(c)
    <3>1. holder' = holder /\ holder \in Clients \cup {Nobody}
      BY <2>5 DEF ReadPass, RunInvariant, RunBookkeeping, RunTypeOK
    <3>2. ASSUME holder # Nobody  PROVE AtLiveEdge(holder)'
      <4>1. AtLiveEdge(holder)
        BY <3>2 DEF RunInvariant, RunBookkeeping
      <4>2. holder # c
        BY <2>5, <4>1 DEF SendPrelude, AtLiveEdge
      <4>3. phase \in [Clients -> Phases] /\ prelude_pending \in [Clients -> BOOLEAN]
        BY DEF RunInvariant, InductiveInvariant, TypeOK
      <4>4. phase'[holder] = phase[holder] /\ prelude_pending'[holder] = prelude_pending[holder]
        BY <2>5, <3>1, <3>2, <4>2, <4>3 DEF SendPrelude, ReturnFromReader
      <4>. QED
        BY <2>5, <3>1, <4>1, <4>4 DEF SendPrelude, AtLiveEdge, Serving, StillCurrent, sessionVars
    <3>. QED  BY <3>1, <3>2
  <2>. QED  BY <2>1, <2>2, <2>3, <2>4, <2>5 DEF connection, ReadPass
<1>4. stop_requested' = stop_requested
  BY DEF connection, Request, ReadPass, BeginRead, EndRead, CloseStream, CloseIdle
<1>. QED
  BY <1>1, <1>2, <1>3, <1>4 DEF RunInvariant, RunBookkeeping, RunTypeOK

\* Steps that leave the connections alone.
LEMMA SameEdge ==
    ASSUME RunBookkeeping, UNCHANGED <<sessionVars, phase, session_id, next_chunk,
                                       prelude_pending, holder>>
    PROVE  /\ Registered' = Registered
           /\ holder' # Nobody => AtLiveEdge(holder)'
BY DEF RunBookkeeping, Registered, AtLiveEdge, Serving, StillCurrent, sessionVars

LEMMA ServerRunBookkeeping ==
    ASSUME RunInvariant, server_run
    PROVE  RunBookkeeping'
<1>1. UNCHANGED <<sessionVars, phase, session_id, next_chunk, prelude_pending, holder>>
  BY StartUpSteps DEF server_run, MainGoes, InstallHandlers, TestStop, Pause, StopDaemon,
     JoinConnections, ClearChunks, StopSource, DestroyLock, vars, sessionVars, clientVars
<1>2. Registered' = Registered /\ (holder' # Nobody => AtLiveEdge(holder)')
  BY <1>1, SameEdge DEF RunInvariant
<1>3. main \in Places /\ stop_requested \in BOOLEAN /\ calls \in SUBSET Clients
      /\ holder \in Clients \cup {Nobody} /\ main # "killed" /\ held = HeldAt(main)
  BY StartUpSteps DEF RunInvariant, RunBookkeeping, RunTypeOK, server_run, MainGoes,
     InstallHandlers, TestStop, Pause, StopDaemon, JoinConnections, ClearChunks, StopSource,
     DestroyLock
<1>4. "daemon" \notin held => Registered = {} /\ calls = {} /\ holder = Nobody
  BY <1>3 DEF RunInvariant, RunBookkeeping
<1>5. main' \in Places /\ main' # "killed" /\ stop_requested' = stop_requested /\ holder' = holder
  BY <1>3, StartUpSteps DEF server_run, MainGoes, InstallHandlers, TestStop, Pause, StopDaemon,
     JoinConnections, ClearChunks, StopSource, DestroyLock, Places, StartingUp, Waiting, Releasing
<1>6. held' = HeldAt(main')
  <2>1. CASE StartUp
    BY <1>3, <2>1, StartUpHolds
  <2>2. CASE InstallHandlers \/ TestStop \/ Pause \/ StopDaemon
    BY <1>3, <2>2 DEF InstallHandlers, TestStop, Pause, StopDaemon, MainGoes, HeldAt, Releasing
  <2>3. CASE JoinConnections \/ ClearChunks \/ DestroyLock
    BY <1>3, <2>3 DEF JoinConnections, ClearChunks, DestroyLock, MainGoes, HeldAt, Releasing,
       SourceParts
  <2>4. CASE StopSource
    BY <1>3, <2>4 DEF StopSource, MainGoes, HeldAt, Releasing, SourceParts, FreedAtStop
  <2>. QED  BY <2>1, <2>2, <2>3, <2>4 DEF server_run
<1>7. calls' \in SUBSET Clients
  BY <1>3, StartUpSteps DEF server_run, InstallHandlers, TestStop, Pause, StopDaemon,
     JoinConnections, ClearChunks, StopSource, DestroyLock
<1>8. ASSUME "daemon" \notin held'
      PROVE  Registered = {} /\ calls' = {} /\ holder = Nobody
  <2>1. CASE "daemon" \notin held
    <3>1. calls' = calls
      BY <1>3, <2>1, StartUpSteps DEF server_run, InstallHandlers, TestStop, Pause, StopDaemon,
         JoinConnections, ClearChunks, StopSource, DestroyLock, MainGoes, HeldAt, Releasing
    <3>. QED  BY <1>4, <2>1, <3>1
  <2>2. CASE "daemon" \in held
    <3>1. JoinConnections
      BY <1>3, <1>8, <2>2, StartUpHolds DEF server_run, InstallHandlers, TestStop, Pause,
         StopDaemon, ClearChunks, StopSource, DestroyLock, MainGoes, HeldAt, Releasing, FreedAtStop
    <3>2. Registered = {} /\ calls' = {}
      BY <3>1 DEF JoinConnections
    <3>3. holder = Nobody
      BY <1>3, <3>2 DEF RunInvariant, RunBookkeeping, AtLiveEdge, Serving, Registered
    <3>. QED  BY <3>2, <3>3
  <2>. QED  BY <2>1, <2>2
<1>. QED
  BY <1>2, <1>3, <1>5, <1>6, <1>7, <1>8 DEF RunBookkeeping, RunTypeOK

LEMMA SignalBookkeeping ==
    ASSUME RunInvariant, KillingSignal \/ handle_stop_signal
    PROVE  RunInvariant'
<1>1. UNCHANGED <<vars, held, calls, holder>>
  BY DEF KillingSignal, handle_stop_signal
<1>2. InductiveInvariant'
  BY <1>1, NextInvariant DEF RunInvariant
<1>3. Registered' = Registered /\ (holder' # Nobody => AtLiveEdge(holder)')
  BY <1>1, SameEdge DEF RunInvariant, vars, clientVars, sessionVars
<1>4. RunTypeOK'
  BY <1>1 DEF KillingSignal, handle_stop_signal, RunInvariant, RunBookkeeping, RunTypeOK, Places,
     StartingUp, Waiting, Releasing
<1>5. main' # "killed" => main # "killed" /\ HeldAt(main') = HeldAt(main)
  <2>1. CASE KillingSignal
    BY <2>1 DEF KillingSignal
  <2>2. CASE handle_stop_signal /\ main = "paused"
    BY <2>2 DEF handle_stop_signal, HeldAt, Releasing
  <2>3. CASE handle_stop_signal /\ main # "paused"
    BY <2>3 DEF handle_stop_signal
  <2>. QED  BY <2>1, <2>2, <2>3
<1>. QED
  BY <1>1, <1>2, <1>3, <1>4, <1>5 DEF RunInvariant, RunBookkeeping

LEMMA TimeBookkeeping ==
    ASSUME RunInvariant, TimePasses
    PROVE  RunInvariant'
<1>1. InductiveInvariant'
  BY TickInvariant DEF RunInvariant, TimePasses
<1>2. UNCHANGED <<sessionVars, clientVars, runVars>>
  BY DEF TimePasses, Tick
<1>3. Registered' = Registered /\ (holder' # Nobody => AtLiveEdge(holder)')
  BY <1>2, SameEdge DEF RunInvariant, clientVars, runVars
<1>. QED
  BY <1>1, <1>2, <1>3 DEF RunInvariant, RunBookkeeping, RunTypeOK, runVars

LEMMA RunNextInvariant == RunInvariant /\ [RunNext]_allVars => RunInvariant'
<1> SUFFICES ASSUME RunInvariant, [RunNext]_allVars  PROVE RunInvariant'
  OBVIOUS
<1>1. CASE UNCHANGED allVars
  <2>1. InductiveInvariant'
    BY <1>1, NextInvariant DEF RunInvariant, allVars
  <2>2. Registered' = Registered /\ (holder' # Nobody => AtLiveEdge(holder)')
    BY <1>1, SameEdge DEF RunInvariant, allVars, vars, runVars, clientVars
  <2>. QED
    BY <1>1, <2>1, <2>2 DEF RunInvariant, RunBookkeeping, RunTypeOK, allVars, runVars
<1>2. CASE server_run
  BY <1>2, ServerRunInvariant, ServerRunBookkeeping DEF RunInvariant
<1>3. CASE KillingSignal \/ handle_stop_signal
  BY <1>3, SignalBookkeeping
<1>4. CASE TimePasses
  BY <1>4, TimeBookkeeping
<1>5. ASSUME NEW c \in Clients, connection(c)
      PROVE  RunInvariant'
  BY <1>5, ConnectionInvariant, ConnectionBookkeeping DEF RunInvariant
<1>. QED  BY <1>1, <1>2, <1>3, <1>4, <1>5 DEF RunNext

-----------------------------------------------------------------------------
\* For any clients, settings and buffer: what the sessions rest on holds from the
\* first step of server_run to its return, through every failure, signal and read.
THEOREM RunIsConsistent == RunSpec => []RunInvariant
BY InitBookkeeping, RunNextInvariant, PTL DEF RunSpec

\* Nothing that server_run acquires is released while a connection can use it.
THEOREM UsedIsNeverReleased == RunSpec => []InUseIsHeld
<1>1. RunInvariant => InUseIsHeld
  <2> SUFFICES ASSUME RunInvariant, main # "killed",
                      Registered \cup calls # {} \/ holder # Nobody
               PROVE  {"lock", "daemon"} \cup SourceParts \subseteq held
    BY DEF InUseIsHeld
  <2>1. "daemon" \in held /\ held = HeldAt(main)
    BY DEF RunInvariant, RunBookkeeping
  <2>. QED  BY <2>1 DEF HeldAt, Releasing, SourceParts
<1>. QED  BY <1>1, RunIsConsistent, PTL

\* Every way out of server_run, the failures of each of its steps and of each step of
\* rtl_source_start among them, has given back what was acquired.
THEOREM EveryExitReleases == RunSpec => []ExitReleasesAll
<1>1. RunInvariant => ExitReleasesAll
  <2> SUFFICES ASSUME RunInvariant, main = "exited"  PROVE held = {} /\ chunks = <<>>
    BY DEF ExitReleasesAll
  <2>1. held = {}
    BY DEF RunInvariant, RunBookkeeping, HeldAt, Releasing
  <2>2. Registered = {}
    BY <2>1 DEF RunInvariant, RunBookkeeping
  <2>. QED  BY <2>1, <2>2, NobodyConnected DEF RunInvariant
<1>. QED  BY <1>1, RunIsConsistent, PTL
=============================================================================
