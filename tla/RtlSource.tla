----------------------------- MODULE RtlSource ------------------------------
(***************************************************************************)
(* The live sample source of src/input/rtl/rtl_source.c: a ring of bytes   *)
(* filled by librtlsdr's capture thread and emptied by the one thread at a *)
(* time that tunes, reads and finally stops the source (the server calls   *)
(* it under its own lock), a mutex and a condition variable.               *)
(*                                                                         *)
(* Init is the state rtl_source_start leaves.  A byte is represented by    *)
(* its number in the stream the device has delivered.  What each critical  *)
(* section of the mutex does is one step.                                  *)
(***************************************************************************)
EXTENDS Integers, Sequences

CONSTANTS
    N,           \* RTL_SOURCE_BUFFER_BYTES
    BlockSizes,  \* lengths the capture thread's callback is called with
    ReadSizes    \* byte counts read at a time

ASSUME SizesAssumption ==
    /\ N \in Nat \ {0}
    /\ BlockSizes \subseteq Nat \ {0}
    /\ ReadSizes \subseteq Nat \ {0}

\* Samples are pairs of bytes, I then Q, and every length is in whole pairs.
ASSUME WholePairsAssumption ==
    /\ N % 2 = 0
    /\ \A n \in BlockSizes \cup ReadSizes : n % 2 = 0

VARIABLES
    buffer, read_offset, write_offset, buffered_bytes,
    running, failed, async_started,
    capture,     \* the capture thread and its call of rtlsdr_read_async
    result,      \* whether that call returned zero
    user,        \* the thread that tunes, reads and stops: where it is
    wanted,      \* byte_count of its read
    copied,      \* bytes copied so far by its read
    cancel_lost, \* history: the capture was cancelled before it was streaming
    delivered    \* history: bytes the device has delivered

ringVars == <<buffer, read_offset, write_offset, buffered_bytes, delivered>>
statusVars == <<running, failed, async_started>>
captureVars == <<capture, result>>
readVars == <<wanted, copied>>
vars == <<ringVars, statusVars, captureVars, user, readVars, cancel_lost>>

CaptureStates == {"none", "starting", "streaming", "cancelled", "returned", "dead"}
UserStates == {"idle", "reading", "waiting", "resetting", "creating", "joining", "stopped"}

Init ==
    /\ buffer = [i \in 0..(N - 1) |-> 0]
    /\ read_offset = 0
    /\ write_offset = 0
    /\ buffered_bytes = 0
    /\ delivered = 0
    /\ running = FALSE
    /\ failed = FALSE
    /\ async_started = FALSE
    /\ capture = "none"
    /\ result = TRUE
    /\ user = "idle"
    /\ wanted = 0
    /\ copied = 0
    /\ cancel_lost = FALSE

-----------------------------------------------------------------------------
(* Helpers *)

\* pthread_cond_broadcast: the reader leaves the wait and re-evaluates its loop.
Wake(u) == IF u = "waiting" THEN "reading" ELSE u

rtl_source_signal_ready == user' = Wake(user)

SignalEnd == rtl_source_signal_ready

\* Mutant: a block is never longer than the ring.
WholeBlock(n) == n

\* Of a block as long as the ring or longer only the last N bytes are kept.
KeptOf(n) == IF n >= N THEN N ELSE n

\* What the ring holds before the kept bytes are written.
BufferedBefore(n) == IF n >= N THEN 0 ELSE buffered_bytes

\* Mutant: overwrites a byte of the oldest pair and drops no more than that byte.
DroppedButOne(n) ==
    LET total == BufferedBefore(n) + KeptOf(n)
    IN  IF total > N THEN total - N - 1 ELSE 0

Dropped(n) ==
    LET total == BufferedBefore(n) + KeptOf(n)
    IN  IF total > N THEN total - N ELSE 0

\* The block's last n bytes, copied from offset w on, around the end of the ring.
Written(w, n, last) ==
    [i \in 0..(N - 1) |-> LET k == (i - w) % N
                          IN  IF k < n THEN last - n + 1 + k ELSE buffer[i]]

-----------------------------------------------------------------------------
(* The capture thread *)

EnterReadAsync ==
    /\ capture = "starting"
    /\ capture' = "streaming"
    /\ UNCHANGED <<ringVars, statusVars, result, user, readVars, cancel_lost>>

\* Mutant: the reader's offset stays where it is when bytes are dropped.
ReadOffsetKept(n) == IF n >= N THEN 0 ELSE read_offset

\* Where the bytes left of the oldest ones begin.
ReadOffsetAfter(n) == ((IF n >= N THEN 0 ELSE read_offset) + Dropped(n)) % N

\* rtl_source_push_bytes, called back with a block of n bytes.
rtl_source_push_bytes(n) ==
    LET start == IF n >= N THEN 0 ELSE write_offset
        kept == KeptOf(n)
    IN  /\ capture \in {"streaming", "cancelled"}
        /\ read_offset' = ReadOffsetAfter(n)
        /\ write_offset' = (start + kept) % N
        /\ buffered_bytes' = BufferedBefore(n) - Dropped(n) + kept
        /\ buffer' = Written(start, kept, delivered + n)
        /\ delivered' = delivered + n
        /\ rtl_source_signal_ready
        /\ UNCHANGED <<statusVars, captureVars, readVars, cancel_lost>>

\* rtlsdr_read_async returns: cancelled, unplugged or never started.
ReadAsyncReturns ==
    /\ capture \in {"starting", "streaming", "cancelled"}
    /\ capture' = "returned"
    /\ result' \in (IF capture = "cancelled" THEN {TRUE} ELSE BOOLEAN)
    /\ UNCHANGED <<ringVars, statusVars, user, readVars, cancel_lost>>

\* The rest of rtl_source_thread_main.
CaptureEnds ==
    /\ capture = "returned"
    /\ capture' = "dead"
    /\ running' = FALSE
    /\ failed' = (failed \/ ~result)
    /\ SignalEnd
    /\ UNCHANGED <<ringVars, async_started, result, readVars, cancel_lost>>

-----------------------------------------------------------------------------
(* rtl_source_tune *)

ClearRing ==
    /\ read_offset' = 0
    /\ write_offset' = 0
    /\ buffered_bytes' = 0
    /\ UNCHANGED <<buffer, delivered>>

\* The tuner is on the new frequency; what was buffered is from the old one.
Retune ==
    /\ user = "idle"
    /\ ClearRing
    /\ user' = IF async_started THEN "idle" ELSE "resetting"
    /\ UNCHANGED <<statusVars, captureVars, readVars, cancel_lost>>

\* rtlsdr_reset_buffer: fails, or the capture is marked running.
ResetBuffer ==
    /\ user = "resetting"
    /\ \/ /\ user' = "idle"
          /\ UNCHANGED statusVars
       \/ /\ user' = "creating"
          /\ running' = TRUE
          /\ failed' = FALSE
          /\ UNCHANGED async_started
    /\ UNCHANGED <<ringVars, captureVars, readVars, cancel_lost>>

TakeMarkBack == running' = FALSE

\* pthread_create: the capture thread exists, or the mark is taken back.
CreateThread ==
    /\ user = "creating"
    /\ user' = "idle"
    /\ \/ /\ capture' = "starting"
          /\ async_started' = TRUE
          /\ UNCHANGED <<running, failed>>
       \/ /\ TakeMarkBack
          /\ UNCHANGED <<capture, async_started, failed>>
    /\ UNCHANGED <<ringVars, result, readVars, cancel_lost>>

-----------------------------------------------------------------------------
(* rtl_source_read *)

StartRead(n) ==
    /\ user = "idle"
    /\ user' = "reading"
    /\ wanted' = n
    /\ copied' = 0
    /\ UNCHANGED <<ringVars, statusVars, captureVars, cancel_lost>>

SpuriousWakeup ==
    /\ user = "waiting"
    /\ user' = "reading"
    /\ UNCHANGED <<ringVars, statusVars, captureVars, readVars, cancel_lost>>

\* Mutant: waits for a capture that has failed or has not been started.
WaitForever == TRUE

\* An empty ring is worth waiting for only while the capture can fill it.
WorthWaiting == running /\ ~failed

\* One hold of the mutex: copy what is buffered, around the end of the ring, and if
\* that is not all, wait (pthread_cond_wait gives the mutex up) or fail.
ReadUnderLock ==
    LET m == IF buffered_bytes < wanted - copied THEN buffered_bytes ELSE wanted - copied
    IN  /\ user = "reading"
        /\ read_offset' = (read_offset + m) % N
        /\ buffered_bytes' = buffered_bytes - m
        /\ copied' = copied + m
        /\ user' = IF copied' < wanted /\ WorthWaiting THEN "waiting" ELSE "idle"
        /\ UNCHANGED <<buffer, write_offset, delivered, statusVars, captureVars, wanted,
                       cancel_lost>>

-----------------------------------------------------------------------------
(* rtl_source_stop *)

\* Mutant: a thread that was never created is joined.
JoinsAlways == TRUE

\* Mutant: the device is closed under the capture thread.
JoinsNever == FALSE

Joins == async_started

\* rtlsdr_cancel_async does nothing unless the capture is streaming.
CancelCapture ==
    /\ user = "idle"
    /\ user' = IF Joins THEN "joining" ELSE "stopped"
    /\ IF running /\ capture = "streaming"
       THEN capture' = "cancelled" /\ UNCHANGED cancel_lost
       ELSE /\ UNCHANGED capture
            /\ cancel_lost' = (running /\ capture = "starting")
    /\ UNCHANGED <<ringVars, statusVars, result, readVars>>

\* pthread_join, then the device, the mutex and the ring are released.
JoinCapture ==
    /\ user = "joining"
    /\ capture = "dead"
    /\ user' = "stopped"
    /\ UNCHANGED <<ringVars, statusVars, captureVars, readVars, cancel_lost>>

-----------------------------------------------------------------------------
Capture ==
    \/ EnterReadAsync
    \/ \E n \in BlockSizes : rtl_source_push_bytes(n)
    \/ ReadAsyncReturns
    \/ CaptureEnds

rtl_source_tune == Retune \/ ResetBuffer \/ CreateThread

rtl_source_read ==
    \/ \E n \in ReadSizes : StartRead(n)
    \/ SpuriousWakeup
    \/ ReadUnderLock

rtl_source_stop == CancelCapture \/ JoinCapture

Next == Capture \/ rtl_source_tune \/ rtl_source_read \/ rtl_source_stop

Spec == Init /\ [][Next]_vars

(***************************************************************************)
(* Fairness.  A running thread goes on: the capture thread with its start  *)
(* and its end, the user with what it has begun.  A streaming device keeps *)
(* delivering or gives up; a cancelled capture returns.                    *)
(***************************************************************************)
DeviceGoesOn == (\E n \in BlockSizes : rtl_source_push_bytes(n)) \/ ReadAsyncReturns

Fairness ==
    /\ WF_vars(EnterReadAsync)
    /\ WF_vars(CaptureEnds)
    /\ WF_vars(DeviceGoesOn /\ capture = "streaming")
    /\ WF_vars(ReadAsyncReturns /\ capture = "cancelled")
    /\ WF_vars(ResetBuffer)
    /\ WF_vars(CreateThread)
    /\ WF_vars(ReadUnderLock)
    /\ WF_vars(JoinCapture)

FairSpec == Spec /\ Fairness
-----------------------------------------------------------------------------
(* Properties *)

TypeOK ==
    /\ buffer \in [0..(N - 1) -> Nat]
    /\ read_offset \in 0..(N - 1)
    /\ write_offset \in 0..(N - 1)
    /\ buffered_bytes \in 0..N
    /\ delivered \in Nat
    /\ running \in BOOLEAN /\ failed \in BOOLEAN /\ async_started \in BOOLEAN
    /\ capture \in CaptureStates
    /\ result \in BOOLEAN
    /\ user \in UserStates
    /\ wanted \in Nat /\ copied \in Nat
    /\ cancel_lost \in BOOLEAN

\* The write offset is buffered_bytes ahead of the read offset, modulo the ring.
OffsetsAgree == write_offset = (read_offset + buffered_bytes) % N

\* From the read offset on, the ring holds the newest bytes the device delivered, in
\* order and without a hole: an overflow drops the oldest bytes and nothing else.
HoldsNewestBytes ==
    /\ buffered_bytes <= delivered
    /\ \A k \in 0..(buffered_bytes - 1) :
          buffer[(read_offset + k) % N] = delivered - buffered_bytes + 1 + k

\* The next byte read is always the I byte of a pair, and a read stops after a Q
\* byte: wrap-around, overflow and partial reads never swap I and Q.
PairsStayTogether ==
    /\ (delivered - buffered_bytes) % 2 = 0
    /\ buffered_bytes % 2 = 0
    /\ copied % 2 = 0

\* A reader waits only while there is nothing to read and a capture that can still
\* deliver: no broadcast is missed between its check and its wait.
NoLostWakeup == user = "waiting" => buffered_bytes = 0 /\ running /\ ~failed

\* running promises a capture thread: one that is alive, or about to be created.
RunningIsKept ==
    running => user = "creating" \/ capture \in {"starting", "streaming", "cancelled", "returned"}

\* The ring, the mutex and the device are released only when no capture thread is
\* left that could use them, and no second capture thread is ever created.
ReleasedAfterCapture ==
    /\ user = "stopped" => capture \in {"none", "dead"}
    /\ user \in {"resetting", "creating"} => capture = "none"

\* What makes all of the above inductive: async_started tells whether a capture thread
\* was created, the steps of a tune that creates one and of a stop that joins one follow
\* it, and a read copies whole pairs, never more than was asked for.
InductiveInvariant ==
    /\ TypeOK
    /\ OffsetsAgree
    /\ HoldsNewestBytes
    /\ PairsStayTogether
    /\ NoLostWakeup
    /\ RunningIsKept
    /\ ReleasedAfterCapture
    /\ async_started <=> capture # "none"
    /\ user \in {"resetting", "creating"} => ~async_started
    /\ user = "joining" => async_started
    /\ copied <= wanted
    /\ wanted % 2 = 0

\* A waiting reader is woken, by bytes or by the end of the capture.
WaitEnds == user = "waiting" ~> user # "waiting"

\* Stopping returns, unless the cancellation came before the capture was streaming
\* and was lost.
StopReturns == user = "joining" ~> (user = "stopped" \/ cancel_lost)

-----------------------------------------------------------------------------
(* What the ring promises: a bounded queue that drops its oldest bytes. *)

Queue ==
    INSTANCE SampleQueue WITH
        Capacity <- N,
        queue <- [k \in 1..buffered_bytes |-> buffer[(read_offset + k - 1) % N]],
        produced <- delivered

\* The ring with its two offsets implements the queue.
ImplementsQueue == Queue!Spec
=============================================================================
