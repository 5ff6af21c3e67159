----------------------------- MODULE ServerRun ------------------------------
(***************************************************************************)
(* The life of the server, server_run of src/stream/server.c: start-up     *)
(* with its failures, the wait for a signal, and the shutdown; around the  *)
(* connections of StreamServer, which the HTTP library serves on threads   *)
(* of their own from MHD_start_daemon to MHD_stop_daemon.                  *)
(*                                                                         *)
(* A critical section of server->lock is one step of StreamServer, except  *)
(* for production: the reader waits in rtl_source_read for the device with *)
(* the lock held, so the read has a beginning and an end here, and         *)
(* whoever needs the lock waits for it.                                    *)
(***************************************************************************)
EXTENDS StreamServer

CONSTANT Nobody  \* the holder of a lock that is free between two steps

ASSUME NobodyAssumption == Nobody \notin Clients

VARIABLES
    main,            \* where the thread of server_run is
    stop_requested,  \* set by handle_stop_signal
    held,            \* what server_run has acquired and not released
    calls,           \* connections whose thread tested for shutdown just before it
    holder,          \* the client in rtl_source_read, with server->lock held
    missed           \* history: a signal came between the test and pause()

runVars == <<main, stop_requested, held, calls, holder, missed>>
allVars == <<vars, runVars>>

\* Up to the installation of the handlers a signal kills the process.
StartingUp == {"parsing", "opening", "binding", "serving", "handlers"}

Waiting == {"testing", "pausing", "paused"}

Releasing == {"clearing", "closing", "destroying"}

Places == StartingUp \cup Waiting \cup {"stopping", "joining"} \cup Releasing
              \cup {"exited", "killed"}

RunInit ==
    /\ Init
    /\ main = "parsing"
    /\ stop_requested = FALSE
    /\ held = {}
    /\ calls = {}
    /\ holder = Nobody
    /\ missed = FALSE

-----------------------------------------------------------------------------
(* server_run *)

MainGoes(from, to) ==
    /\ main = from
    /\ main' = to
    /\ UNCHANGED <<stop_requested, holder, missed>>

\* What rtl_source_start acquires; "handles" is the memory of the thread, the mutex
\* and the condition.
SourceParts == {"buffer", "handles", "mutex", "condition", "device"}

\* What it has when one of its steps fails: the parts are acquired one by one, and when
\* one of the three handles cannot be allocated, the others may be there.
PartsBeforeFailure ==
    {{}, {"buffer"}, {"buffer", "handles"}, {"buffer", "handles", "mutex"},
     {"buffer", "handles", "mutex", "condition"}, SourceParts}

\* What its end at the label fail gives back.  Without a buffer there is nothing to.
FreedAtFail == {"device", "condition", "mutex", "handles", "buffer"}

\* What rtl_source_stop gives back.
FreedAtStop == {"device", "condition", "mutex", "handles", "buffer"}

Acquires(from, to, what) ==
    /\ MainGoes(from, to)
    /\ held' = held \cup what
    /\ UNCHANGED <<vars, calls>>

\* return 1, after giving back what is listed where the step failed.
FailsGivingBack(from, list) ==
    /\ MainGoes(from, "exited")
    /\ held' = held \ list
    /\ UNCHANGED <<vars, calls>>

\* parse_port comes before everything else, the lock right after it.
TakeLock ==
    \/ Acquires("parsing", "opening", {"lock"})
    \/ FailsGivingBack("parsing", {})

StartSource ==
    \/ Acquires("opening", "binding", SourceParts)
    \/ /\ MainGoes("opening", "exited")
       /\ \E parts \in PartsBeforeFailure :
             held' = ((held \cup parts) \ FreedAtFail) \ {"lock"}
       /\ UNCHANGED <<vars, calls>>

BindSocket ==
    \/ Acquires("binding", "serving", {"socket"})
    \/ FailsGivingBack("binding", FreedAtStop \cup {"lock"})

\* Mutant: the list of the one before, which has no socket to close.
StartDaemonLeaks ==
    \/ Acquires("serving", "handlers", {"daemon"})
    \/ FailsGivingBack("serving", FreedAtStop \cup {"lock"})

StartDaemon ==
    \/ Acquires("serving", "handlers", {"daemon"})
    \/ FailsGivingBack("serving", {"socket"} \cup FreedAtStop \cup {"lock"})

StartUp == TakeLock \/ StartSource \/ BindSocket \/ StartDaemon

InstallHandlers == MainGoes("handlers", "testing") /\ UNCHANGED <<vars, held, calls>>

\* while (!stop_requested) ...
TestStop ==
    /\ MainGoes("testing", IF stop_requested THEN "stopping" ELSE "pausing")
    /\ UNCHANGED <<vars, held, calls>>

\* ... pause(), which returns on the next signal and not on one that came before.
Pause == MainGoes("pausing", "paused") /\ UNCHANGED <<vars, held, calls>>

\* MHD_stop_daemon: no new connections; the threads see the flag when next they
\* test it, those in calls once they have made the call they were about to make,
\* which is the reader's or, for a connection without a stream, its request.
StopDaemon ==
    /\ MainGoes("stopping", "joining")
    /\ calls' \in SUBSET Clients
    /\ UNCHANGED <<vars, held>>

\* Mutant: the shutdown does not wait for the threads.
DoNotJoin ==
    /\ MainGoes("joining", "clearing")
    /\ held' = held \ {"daemon", "socket"}
    /\ UNCHANGED <<vars, calls>>

\* It returns when every thread has ended.
JoinConnections ==
    /\ Registered = {} /\ calls = {}
    /\ MainGoes("joining", "clearing")
    /\ held' = held \ {"daemon", "socket"}
    /\ UNCHANGED <<vars, calls>>

\* server_clear_chunks and fm_pipeline_destroy, without the lock.
ClearChunks ==
    /\ MainGoes("clearing", "closing")
    /\ chunks' = <<>>
    /\ chunk_count' = 0
    /\ UNCHANGED <<sessionVars, clockVars, now, tunerVars, clientVars, held, calls>>

\* rtl_source_stop; the source is zeroed.
StopSource ==
    /\ MainGoes("closing", "destroying")
    /\ held' = held \ FreedAtStop
    /\ async_started' = FALSE
    /\ tuned_frequency' = NoFrequency
    /\ UNCHANGED <<sessionVars, chunks, chunk_count, clockVars, now, tune_failed,
                   clientVars, calls>>

DestroyLock ==
    /\ MainGoes("destroying", "exited")
    /\ held' = held \ {"lock"}
    /\ UNCHANGED <<vars, calls>>

server_run ==
    \/ StartUp \/ InstallHandlers \/ TestStop \/ Pause
    \/ StopDaemon \/ JoinConnections \/ ClearChunks \/ StopSource \/ DestroyLock

\* SIGINT or SIGTERM, by default the end of the process.
KillingSignal ==
    /\ main \in StartingUp
    /\ main' = "killed"
    /\ UNCHANGED <<vars, stop_requested, held, calls, holder, missed>>

\* Mutant: the flag is set and the wait goes on.
FlagOnly ==
    /\ main \in Places \ (StartingUp \cup {"exited", "killed"})
    /\ stop_requested' = TRUE
    /\ missed' = (main = "pausing" \/ (missed /\ main # "paused"))
    /\ UNCHANGED <<vars, main, held, calls, holder>>

\* Afterwards it sets the flag, and interrupts pause() if it is being waited in.
handle_stop_signal ==
    /\ main \in Places \ (StartingUp \cup {"exited", "killed"})
    /\ stop_requested' = TRUE
    /\ main' = IF main = "paused" THEN "testing" ELSE main
    /\ missed' = (main = "pausing" \/ (missed /\ main # "paused"))
    /\ UNCHANGED <<vars, held, calls, holder>>

-----------------------------------------------------------------------------
(* The connections, one thread each. *)

\* The daemon serves, and this thread has not yet seen that it is to stop.
MayCall(c) ==
    /\ "daemon" \in held /\ main # "killed"
    /\ main = "joining" => c \in calls

LockIsFree == holder = Nobody

Request(c) ==
    /\ MayCall(c) /\ LockIsFree
    /\ handle_request(c)
    /\ calls' = calls \ {c}
    /\ UNCHANGED <<main, stop_requested, held, holder, missed>>

\* The reader goes on if it is inside its loop, whatever happens around it.
InCall(c) == phase[c] = "reading" /\ main # "killed"

\* A pass that does not produce.
LockedPass(c) ==
    /\ LockIsFree
    /\ \/ EndOfStream(c)
       \/ TakeChunk(c)
       \/ PackFails(c)
       \/ ProduceFails(c)
       \/ WaitForClock(c)

ReadPass(c) ==
    /\ MayCall(c) \/ InCall(c)
    /\ SendPrelude(c) \/ LockedPass(c)
    /\ calls' = calls \ {c}
    /\ UNCHANGED <<main, stop_requested, held, holder, missed>>

\* A pass that produces, up to the read in fm_pipeline_process_live_block.  The
\* room is made before the read; nobody sees it before the lock is free again.
BeginRead(c) ==
    /\ MayCall(c) \/ InCall(c)
    /\ LockIsFree
    /\ AtLiveEdge(c)
    /\ stream_session_start_clock
    /\ AudioIsDue
    /\ RoomCanBeMade
    /\ holder' = c
    /\ calls' = calls \ {c}
    /\ UNCHANGED <<sessionVars, chunks, chunk_count, audio_frames_queued, now, tunerVars,
                   clientVars, main, stop_requested, held, missed>>

\* The read has returned with samples or has failed, for which the pipeline
\* substitutes silence: the chunk is made either way.
EndRead(c) ==
    /\ holder = c /\ main # "killed"
    /\ server_produce_chunk(c)
    /\ holder' = Nobody
    /\ UNCHANGED <<main, stop_requested, held, calls, missed>>

\* The thread ends; the response is destroyed, and with it the stream.
CloseStream(c) ==
    /\ main # "killed" /\ LockIsFree
    /\ stream_content_free(c)
    /\ calls' = calls \ {c}
    /\ UNCHANGED <<main, stop_requested, held, holder, missed>>

\* The request that was about to be made is not: the peer has gone.
CloseIdle(c) ==
    /\ main = "joining"
    /\ c \in calls /\ phase[c] = "idle"
    /\ calls' = calls \ {c}
    /\ UNCHANGED <<vars, main, stop_requested, held, holder, missed>>

connection(c) ==
    \/ Request(c)
    \/ ReadPass(c) \/ BeginRead(c) \/ EndRead(c)
    \/ CloseStream(c) \/ CloseIdle(c)

TimePasses == main # "killed" /\ Tick /\ UNCHANGED runVars

RunNext ==
    \/ server_run \/ KillingSignal \/ handle_stop_signal
    \/ TimePasses
    \/ \E c \in Clients : connection(c)

RunSpec == RunInit /\ [][RunNext]_allVars

-----------------------------------------------------------------------------
(***************************************************************************)
(* Fairness.  Threads run: the main thread, a reader inside its loop, the  *)
(* end of a stream, and at shutdown the closing of every connection.  The  *)
(* device delivers or gives up, so a read ends (WaitEnds of RtlSource).    *)
(* Nothing is assumed of requests, of peers, of signals and of failures.   *)
(***************************************************************************)
ReturnsToLoop(c) == phase[c] = "reading" /\ (ReadPass(c) \/ BeginRead(c))

ClosesAtShutdown(c) == main = "joining" /\ (CloseStream(c) \/ CloseIdle(c))

WakesAtShutdown == main = "joining" /\ TimePasses

RunFairness ==
    /\ WF_allVars(server_run)
    /\ \A c \in Clients :
          WF_allVars(ReturnsToLoop(c)) /\ WF_allVars(EndRead(c)) /\ WF_allVars(ClosesAtShutdown(c))

-----------------------------------------------------------------------------
(* Properties *)

\* A connection has its lock, source and daemon for as long as it has a thread: what
\* the shutdown releases without the lock, or a failed start-up returns, is used by
\* nobody, nor is the source while a client waits in a read of it.
InUseIsHeld ==
    main # "killed" /\ (Registered \cup calls # {} \/ holder # Nobody) =>
        {"lock", "daemon"} \cup SourceParts \subseteq held

\* A return of server_run leaves nothing acquired and no chunk allocated: the shutdown,
\* each step of start-up that fails, with a list of its own of what to give back, and
\* each step of rtl_source_start that fails, give back all that there is by then.
ExitReleasesAll == main = "exited" => held = {} /\ chunks = <<>>

\* What is held depends only on where server_run is.
HeldAt(place) ==
    (IF place \in {"parsing", "exited"} THEN {} ELSE {"lock"})
    \cup (IF place \in {"parsing", "opening", "destroying", "exited"} THEN {} ELSE SourceParts)
    \cup (IF place \in {"parsing", "opening", "binding"} \cup Releasing \cup {"exited"}
          THEN {} ELSE {"socket"})
    \cup (IF place \in {"parsing", "opening", "binding", "serving"} \cup Releasing \cup {"exited"}
          THEN {} ELSE {"daemon"})

RunTypeOK ==
    /\ main \in Places
    /\ stop_requested \in BOOLEAN
    /\ calls \in SUBSET Clients
    /\ holder \in Clients \cup {Nobody}

\* Nobody is connected when the daemon is not there, and the client in a read is
\* still registered, at the live edge of the session it reads for, so that the
\* shutdown waits for it.
RunBookkeeping ==
    /\ RunTypeOK
    /\ main # "killed" => held = HeldAt(main)
    /\ main # "killed" /\ "daemon" \notin held =>
           Registered = {} /\ calls = {} /\ holder = Nobody
    /\ holder # Nobody => AtLiveEdge(holder)

\* Inductive: what the server's sessions rest on, and its life's bookkeeping.
RunInvariant == InductiveInvariant /\ RunBookkeeping

\* A signal ends the program, with readers asleep, at the head of the list or in a
\* read at that time, unless it came between the test of stop_requested and
\* pause(), where it waits for another one.
SignalStops == stop_requested ~> (main = "exited" \/ missed)
=============================================================================
