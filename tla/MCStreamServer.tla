--------------------------- MODULE MCStreamServer ---------------------------
(***************************************************************************)
(* StreamServer on a small instance.  Two things are bounded, both inputs  *)
(* of the server: the number of sessions requests can start and the time.  *)
(* The number of chunks is bounded by the time through the pacing clock.   *)
(***************************************************************************)
EXTENDS StreamServer, TLC

CONSTANTS
    MaxSessions,  \* requests that replace the session
    MaxTime,      \* ticks of the clock
    LivePeers,    \* clients whose peer keeps reading its socket
    music, musicMono, news

MCFrequencyOf == (music :> 101) @@ (musicMono :> 101) @@ (news :> 98)

MCNext ==
    /\ Next
    /\ active_session_id' <= MaxSessions
    /\ now' <= MaxTime

MCSpec == Init /\ [][MCNext]_vars
MCFairSpec == MCSpec /\ Fairness(LivePeers)

LiveRemovedStreamsEnd == RemovedStreamsEnd(LivePeers)
LiveDueIsDelivered == DueIsDelivered(LivePeers, MaxTime)

ClientSymmetry == Permutations(Clients)
=============================================================================
