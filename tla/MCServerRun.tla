----------------------------- MODULE MCServerRun ----------------------------
(***************************************************************************)
(* ServerRun on a small instance.  The sessions that requests start and    *)
(* the time are bounded, as in MCStreamServer; the shutdown has two units  *)
(* of time more, so that a reader asleep when the time of the run is up    *)
(* is one that the program itself never wakes.                             *)
(***************************************************************************)
EXTENDS ServerRun, TLC

CONSTANTS
    MaxSessions,  \* requests that replace the session
    MaxTime,      \* ticks of the clock before the shutdown
    music, news

MCFrequencyOf == (music :> 101) @@ (news :> 98)

Horizon == IF main = "joining" THEN MaxTime + 2 ELSE MaxTime

MCRunNext ==
    /\ RunNext
    /\ active_session_id' <= MaxSessions
    /\ now' <= now \/ now' <= Horizon

MCRunSpec ==
    /\ RunInit /\ [][MCRunNext]_allVars
    /\ RunFairness
    /\ WF_allVars(WakesAtShutdown /\ now' <= Horizon)
=============================================================================
