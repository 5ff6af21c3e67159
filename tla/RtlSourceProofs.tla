-------------------------- MODULE RtlSourceProofs --------------------------
(***************************************************************************)
(* Proofs about RtlSource for every size of the ring, the blocks and the   *)
(* reads.  The two offsets only ever move by at most N from below N, so    *)
(* ModAdd and ModSub turn every remainder into a case split, and the rest  *)
(* is linear.                                                              *)
(***************************************************************************)
EXTENDS RtlSource, SequenceTheorems, TLAPS

-----------------------------------------------------------------------------
(* Offsets *)

\* Advancing an offset by at most the size of the ring wraps at most once.
LEMMA ModAdd ==
    ASSUME NEW M \in Nat \ {0}, NEW a \in 0..(M - 1), NEW d \in 0..M
    PROVE  (a + d) % M = IF a + d < M THEN a + d ELSE a + d - M
<1>1. CASE a + d < M
  BY <1>1, SMTT(20)
<1>2. CASE a + d >= M
  BY <1>2, SMTT(20)
<1> QED BY <1>1, <1>2

\* The distance from one offset forward to another.
LEMMA ModSub ==
    ASSUME NEW M \in Nat \ {0}, NEW i \in 0..(M - 1), NEW w \in 0..(M - 1)
    PROVE  (i - w) % M = IF i >= w THEN i - w ELSE i - w + M
<1>1. CASE i >= w
  BY <1>1, SMTT(20)
<1>2. CASE i < w
  BY <1>2, SMTT(20)
<1> QED BY <1>1, <1>2

\* An offset stays inside the ring.
LEMMA ModRange ==
    ASSUME NEW M \in Nat \ {0}, NEW a \in Nat
    PROVE  a % M \in 0..(M - 1)
  OBVIOUS

\* Two advances are one.
LEMMA ModNest ==
    ASSUME NEW M \in Nat \ {0}, NEW a \in 0..(M - 1), NEW d \in 0..M, NEW k \in 0..M,
           d + k <= M
    PROVE  (((a + d) % M) + k) % M = (a + (d + k)) % M
<1> DEFINE e == (a + d) % M
<1>1. e = IF a + d < M THEN a + d ELSE a + d - M
  BY ModAdd
<1>2. e \in 0..(M - 1)
  BY <1>1
<1>3. d + k \in 0..M
  OBVIOUS
<1> HIDE DEF e
<1>4. (e + k) % M = IF e + k < M THEN e + k ELSE e + k - M
  BY <1>2, ModAdd
<1>5. (a + (d + k)) % M = IF a + (d + k) < M THEN a + (d + k) ELSE a + (d + k) - M
  BY <1>3, ModAdd
<1>6. (e + k) % M = (a + (d + k)) % M
  BY <1>1, <1>4, <1>5
<1> QED BY <1>6 DEF e

\* How far the k-th place from a is behind the c-th place from a.
LEMMA PlaceFrom ==
    ASSUME NEW M \in Nat \ {0}, NEW a \in 0..(M - 1), NEW c \in 0..M, NEW k \in 0..(M - 1)
    PROVE  (((a + k) % M) - ((a + c) % M)) % M = IF k >= c THEN k - c ELSE M - c + k
<1> DEFINE i == (a + k) % M
           w == (a + c) % M
<1>0. k \in 0..M
  OBVIOUS
<1>1. i = IF a + k < M THEN a + k ELSE a + k - M
  BY <1>0, ModAdd
<1>2. w = IF a + c < M THEN a + c ELSE a + c - M
  BY ModAdd
<1>3. i \in 0..(M - 1) /\ w \in 0..(M - 1)
  BY <1>1, <1>2
<1> HIDE DEF i, w
<1>4. (i - w) % M = IF i >= w THEN i - w ELSE i - w + M
  BY <1>3, ModSub
<1>5. (i - w) % M = IF k >= c THEN k - c ELSE M - c + k
  BY <1>1, <1>2, <1>4
<1> QED BY <1>5 DEF i, w

\* Even lengths stay even.
LEMMA Even ==
    ASSUME NEW a \in Int, NEW b \in Int, a % 2 = 0, b % 2 = 0
    PROVE  (a + b) % 2 = 0 /\ (a - b) % 2 = 0
  OBVIOUS

-----------------------------------------------------------------------------
(* The ring *)

\* From r on, b holds c bytes, the last of which has number x.
Holds(b, r, c, x) == \A k \in 0..(c - 1) : b[(r + k) % N] = x - c + 1 + k

\* Taking bytes from the front, to read or to drop them, leaves the rest in order.
LEMMA TakeKeepsRest ==
    ASSUME NEW b, NEW r \in 0..(N - 1), NEW c \in 0..N, NEW x \in Nat,
           NEW d \in 0..c, Holds(b, r, c, x)
    PROVE  Holds(b, (r + d) % N, c - d, x)
<1> SUFFICES ASSUME NEW k \in 0..(c - d - 1)
             PROVE  b[(((r + d) % N) + k) % N] = x - (c - d) + 1 + k
  BY DEF Holds
<1>1. N \in Nat \ {0}
  BY SizesAssumption
<1>2. d \in 0..N /\ k \in 0..N /\ d + k <= N
  BY <1>1
<1>3. (((r + d) % N) + k) % N = (r + (d + k)) % N
  BY <1>1, <1>2, ModNest
<1>4. d + k \in 0..(c - 1)
  OBVIOUS
<1>5. b[(r + (d + k)) % N] = x - c + 1 + (d + k)
  BY <1>4 DEF Holds
<1> QED BY <1>3, <1>5

\* Writing n bytes behind the c bytes there are makes c + n in order.
LEMMA WriteAppends ==
    ASSUME NEW b, NEW r \in 0..(N - 1), NEW c \in 0..N, NEW n \in 0..N, c + n <= N,
           NEW x \in Nat, c > 0 => Holds(b, r, c, x - n),
           NEW w \in 0..(N - 1), w = (r + c) % N,
           NEW nb,
           nb = [i \in 0..(N - 1) |-> LET k == (i - w) % N
                                      IN  IF k < n THEN x - n + 1 + k ELSE b[i]]
    PROVE  Holds(nb, r, c + n, x)
<1> SUFFICES ASSUME NEW k \in 0..((c + n) - 1)
             PROVE  nb[(r + k) % N] = x - (c + n) + 1 + k
  BY DEF Holds
<1> DEFINE i == (r + k) % N
<1>1. N \in Nat \ {0} /\ k \in 0..(N - 1)
  BY SizesAssumption
<1>2. i \in 0..(N - 1)
  BY <1>1, ModRange, r + k \in Nat
<1>3. (i - w) % N = IF k >= c THEN k - c ELSE N - c + k
  <2>1. (((r + k) % N) - ((r + c) % N)) % N = IF k >= c THEN k - c ELSE N - c + k
    BY <1>1, PlaceFrom
  <2> QED BY <2>1
<1>4. nb[i] = IF ((i - w) % N) < n THEN x - n + 1 + ((i - w) % N) ELSE b[i]
  BY <1>2
<1>5. CASE k >= c
  <2>1. (i - w) % N = k - c
    BY <1>3, <1>5
  <2>2. nb[i] = x - n + 1 + (k - c)
    BY <1>4, <2>1
  <2> QED BY <2>2
<1> HIDE DEF i
<1>6. CASE k < c
  <2>1. (i - w) % N = N - c + k
    BY <1>3, <1>6
  <2>2. nb[i] = b[i]
    BY <1>1, <1>4, <1>6, <2>1
  <2>3. b[i] = (x - n) - c + 1 + k
    <3>1. Holds(b, r, c, x - n) /\ k \in 0..(c - 1)
      BY <1>6
    <3> QED BY <3>1 DEF Holds, i
  <2>4. nb[i] = x - (c + n) + 1 + k
    BY <2>2, <2>3
  <2> QED BY <2>4 DEF i
<1> QED BY <1>5, <1>6 DEF i

-----------------------------------------------------------------------------
(* Every step keeps the invariant.  Its first half is about the ring and the *)
(* read in progress, the second about the threads.                           *)

RingHalf ==
    /\ buffer \in [0..(N - 1) -> Nat]
    /\ read_offset \in 0..(N - 1)
    /\ write_offset \in 0..(N - 1)
    /\ buffered_bytes \in 0..N
    /\ delivered \in Nat
    /\ wanted \in Nat /\ copied \in Nat
    /\ OffsetsAgree
    /\ HoldsNewestBytes
    /\ PairsStayTogether
    /\ copied <= wanted
    /\ wanted % 2 = 0

ThreadHalf ==
    /\ running \in BOOLEAN /\ failed \in BOOLEAN /\ async_started \in BOOLEAN
    /\ capture \in CaptureStates
    /\ result \in BOOLEAN
    /\ user \in UserStates
    /\ cancel_lost \in BOOLEAN
    /\ NoLostWakeup
    /\ RunningIsKept
    /\ ReleasedAfterCapture
    /\ async_started <=> capture # "none"
    /\ user \in {"resetting", "creating"} => ~async_started
    /\ user = "joining" => async_started

\* The halves make the whole.
LEMMA Halves == InductiveInvariant <=> RingHalf /\ ThreadHalf
  BY DEF InductiveInvariant, TypeOK, RingHalf, ThreadHalf

LEMMA HalvesNext == RingHalf' /\ ThreadHalf' => InductiveInvariant'
  BY DEF InductiveInvariant, TypeOK, RingHalf, ThreadHalf

\* The parts of the ring half that the steps on the ring work with.
LEMMA RingFacts ==
    ASSUME RingHalf
    PROVE  /\ write_offset = (read_offset + buffered_bytes) % N
           /\ Holds(buffer, read_offset, buffered_bytes, delivered)
           /\ buffered_bytes <= delivered
           /\ (delivered - buffered_bytes) % 2 = 0
           /\ buffered_bytes % 2 = 0
           /\ copied % 2 = 0
  BY DEF RingHalf, OffsetsAgree, HoldsNewestBytes, PairsStayTogether, Holds

\* A step that touches neither the ring nor the read in progress.
LEMMA RingUnchanged ==
    ASSUME RingHalf, UNCHANGED <<ringVars, readVars>>
    PROVE  RingHalf'
  BY DEF RingHalf, OffsetsAgree, HoldsNewestBytes, PairsStayTogether, ringVars, readVars

\* The capture thread's own steps and a spurious wake-up.
LEMMA ThreadStep ==
    ASSUME InductiveInvariant,
           EnterReadAsync \/ ReadAsyncReturns \/ CaptureEnds \/ SpuriousWakeup
    PROVE  InductiveInvariant'
<1>1. RingHalf /\ ThreadHalf
  BY Halves
<1>2. UNCHANGED <<ringVars, readVars>>
  BY DEF EnterReadAsync, ReadAsyncReturns, CaptureEnds, SpuriousWakeup
<1>3. RingHalf'
  BY <1>1, <1>2, RingUnchanged
<1>4. ThreadHalf'
  <2> USE <1>1 DEF ThreadHalf, NoLostWakeup, RunningIsKept, ReleasedAfterCapture,
               CaptureStates, UserStates, statusVars, ringVars, captureVars
  <2>1. CASE EnterReadAsync
    BY <2>1 DEF EnterReadAsync
  <2>2. CASE ReadAsyncReturns
    BY <2>2 DEF ReadAsyncReturns
  <2>3. CASE CaptureEnds
    BY <2>3 DEF CaptureEnds, SignalEnd, rtl_source_signal_ready, Wake
  <2>4. CASE SpuriousWakeup
    BY <2>4 DEF SpuriousWakeup
  <2> QED BY <2>1, <2>2, <2>3, <2>4
<1> QED BY <1>3, <1>4, HalvesNext

\* The steps of the user's thread that leave the ring alone.
LEMMA UserStep ==
    ASSUME InductiveInvariant,
           ResetBuffer \/ CreateThread \/ CancelCapture \/ JoinCapture
    PROVE  InductiveInvariant'
<1>1. RingHalf /\ ThreadHalf
  BY Halves
<1>2. UNCHANGED <<ringVars, readVars>>
  BY DEF ResetBuffer, CreateThread, CancelCapture, JoinCapture
<1>3. RingHalf'
  BY <1>1, <1>2, RingUnchanged
<1>4. ThreadHalf'
  <2> USE <1>1 DEF ThreadHalf, NoLostWakeup, RunningIsKept, ReleasedAfterCapture,
               CaptureStates, UserStates, statusVars, ringVars, captureVars
  <2>1. CASE ResetBuffer
    <3>1. /\ user = "resetting"
          /\ UNCHANGED <<async_started, capture, result, cancel_lost>>
          /\ \/ user' = "idle" /\ running' = running /\ failed' = failed
             \/ user' = "creating" /\ running' = TRUE /\ failed' = FALSE
      BY <2>1 DEF ResetBuffer
    <3>2. CASE user' = "idle" /\ running' = running /\ failed' = failed
      BY <3>1, <3>2
    <3>3. CASE user' = "creating" /\ running' = TRUE /\ failed' = FALSE
      BY <3>1, <3>3
    <3> QED BY <3>1, <3>2, <3>3
  <2>2. CASE CreateThread
    <3>1. /\ user = "creating"
          /\ user' = "idle"
          /\ UNCHANGED <<failed, result, cancel_lost>>
          /\ \/ capture' = "starting" /\ async_started' = TRUE /\ running' = running
             \/ running' = FALSE /\ capture' = capture /\ async_started' = async_started
      BY <2>2 DEF CreateThread, TakeMarkBack
    <3>2. CASE capture' = "starting" /\ async_started' = TRUE /\ running' = running
      BY <3>1, <3>2
    <3>3. CASE running' = FALSE /\ capture' = capture /\ async_started' = async_started
      BY <3>1, <3>3
    <3> QED BY <3>1, <3>2, <3>3
  <2>3. CASE CancelCapture
    <3>1. cancel_lost' \in BOOLEAN
      BY <2>3 DEF CancelCapture
    <3>2. capture' \in {capture, "cancelled"} /\ (capture' = "cancelled" => capture \in {"streaming", "cancelled"})
      BY <2>3 DEF CancelCapture
    <3> QED BY <2>3, <3>1, <3>2 DEF CancelCapture, Joins
  <2>4. CASE JoinCapture
    BY <2>4 DEF JoinCapture
  <2> QED BY <2>1, <2>2, <2>3, <2>4
<1> QED BY <1>3, <1>4, HalvesNext

\* A read begins.
LEMMA StartReadStep ==
    ASSUME InductiveInvariant, NEW n \in ReadSizes, StartRead(n)
    PROVE  InductiveInvariant'
<1>1. RingHalf /\ ThreadHalf
  BY Halves
<1>2. n \in Nat /\ n % 2 = 0
  BY SizesAssumption, WholePairsAssumption
<1>3. 0 % 2 = 0
  OBVIOUS
<1>4. RingHalf'
  BY <1>1, <1>2, <1>3 DEF StartRead, ringVars, RingHalf, OffsetsAgree, HoldsNewestBytes,
     PairsStayTogether
<1>5. ThreadHalf'
  BY <1>1 DEF StartRead, statusVars, captureVars, ringVars, ThreadHalf, NoLostWakeup,
     RunningIsKept, ReleasedAfterCapture, CaptureStates, UserStates
<1> QED BY <1>4, <1>5, HalvesNext

\* Tuning empties the ring.
LEMMA RetuneStep ==
    ASSUME InductiveInvariant, Retune
    PROVE  InductiveInvariant'
<1>1. RingHalf /\ ThreadHalf
  BY Halves
<1>2. N \in Nat \ {0}
  BY SizesAssumption
<1>3. 0 % N = 0 /\ 0 % 2 = 0
  BY <1>2
<1>4. delivered % 2 = 0
  BY <1>1, RingFacts, Even DEF RingHalf
<1>5. /\ read_offset' = 0 /\ write_offset' = 0 /\ buffered_bytes' = 0
      /\ UNCHANGED <<buffer, delivered, wanted, copied>>
  BY DEF Retune, ClearRing, readVars
<1>6. RingHalf'
  BY <1>1, <1>2, <1>3, <1>4, <1>5, RingFacts
     DEF RingHalf, OffsetsAgree, HoldsNewestBytes, PairsStayTogether
<1>7. ThreadHalf'
  BY <1>1, <1>5 DEF Retune, statusVars, captureVars, ThreadHalf, NoLostWakeup,
     RunningIsKept, ReleasedAfterCapture, CaptureStates, UserStates
<1> QED BY <1>6, <1>7, HalvesNext

\* Copying m bytes out of the ring.
LEMMA ReadStep ==
    ASSUME InductiveInvariant, ReadUnderLock
    PROVE  InductiveInvariant'
<1>1. RingHalf /\ ThreadHalf
  BY Halves
<1>2. N \in Nat \ {0}
  BY SizesAssumption
<1> DEFINE m == IF buffered_bytes < wanted - copied THEN buffered_bytes ELSE wanted - copied
<1>3. /\ m \in 0..buffered_bytes /\ copied + m <= wanted
      /\ copied + m < wanted => m = buffered_bytes
  BY <1>1 DEF RingHalf
<1>4. m % 2 = 0
  <2>1. (wanted - copied) % 2 = 0
    BY <1>1, RingFacts, Even DEF RingHalf
  <2> QED BY <1>1, <2>1, RingFacts
<1>5. /\ read_offset' = (read_offset + m) % N
      /\ buffered_bytes' = buffered_bytes - m
      /\ copied' = copied + m
      /\ user' = IF copied' < wanted /\ WorthWaiting THEN "waiting" ELSE "idle"
      /\ UNCHANGED <<buffer, write_offset, delivered, wanted, running, failed,
                     async_started, capture, result, cancel_lost>>
  BY DEF ReadUnderLock, statusVars, captureVars
<1> HIDE DEF m
<1>6. Holds(buffer, (read_offset + m) % N, buffered_bytes - m, delivered)
  BY <1>1, <1>3, RingFacts, TakeKeepsRest DEF RingHalf
<1>7. (((read_offset + m) % N) + (buffered_bytes - m)) % N = (read_offset + buffered_bytes) % N
  <2>1. m \in 0..N /\ buffered_bytes - m \in 0..N /\ m + (buffered_bytes - m) <= N
    BY <1>1, <1>2, <1>3 DEF RingHalf
  <2>2. m + (buffered_bytes - m) = buffered_bytes
    BY <1>1, <1>3 DEF RingHalf
  <2>3. (((read_offset + m) % N) + (buffered_bytes - m)) % N
           = (read_offset + (m + (buffered_bytes - m))) % N
    BY <1>1, <1>2, <2>1, ModNest DEF RingHalf
  <2> QED BY <2>2, <2>3
<1>8. /\ (buffered_bytes - m) % 2 = 0
      /\ (delivered - (buffered_bytes - m)) % 2 = 0
      /\ (copied + m) % 2 = 0
  <2>1. /\ m \in Int /\ buffered_bytes \in Int /\ copied \in Int /\ delivered \in Int
        /\ buffered_bytes - m \in Int
    BY <1>1, <1>3 DEF RingHalf
  <2>2. buffered_bytes % 2 = 0 /\ copied % 2 = 0 /\ (delivered - buffered_bytes) % 2 = 0
    BY <1>1, RingFacts
  <2>3. (buffered_bytes - m) % 2 = 0 /\ (copied + m) % 2 = 0
    BY <1>4, <2>1, <2>2, Even
  <2>4. ((delivered - buffered_bytes) + m) % 2 = 0
    BY <1>4, <2>1, <2>2, Even
  <2>5. delivered - (buffered_bytes - m) = (delivered - buffered_bytes) + m
    BY <2>1
  <2> QED BY <2>3, <2>4, <2>5
<1>9. RingHalf'
  <2>1. OffsetsAgree'
    BY <1>1, <1>5, <1>7, RingFacts DEF OffsetsAgree
  <2>2. HoldsNewestBytes'
    BY <1>1, <1>3, <1>5, <1>6, RingFacts DEF HoldsNewestBytes, Holds, RingHalf
  <2>3. PairsStayTogether'
    BY <1>5, <1>8 DEF PairsStayTogether
  <2>4. (read_offset + m) % N \in 0..(N - 1)
    BY <1>1, <1>2, <1>3, ModRange DEF RingHalf
  <2>5. buffered_bytes - m \in 0..N /\ copied + m \in Nat /\ copied + m <= wanted
    BY <1>1, <1>2, <1>3 DEF RingHalf
  <2>6. /\ buffer \in [0..(N - 1) -> Nat] /\ write_offset \in 0..(N - 1)
        /\ delivered \in Nat /\ wanted \in Nat /\ wanted % 2 = 0
    BY <1>1 DEF RingHalf
  <2> QED BY <1>5, <2>1, <2>2, <2>3, <2>4, <2>5, <2>6 DEF RingHalf
<1>10. ThreadHalf'
  BY <1>1, <1>3, <1>5 DEF WorthWaiting, ReadUnderLock, RingHalf, ThreadHalf, NoLostWakeup,
     RunningIsKept, ReleasedAfterCapture, CaptureStates, UserStates
<1> QED BY <1>9, <1>10, HalvesNext

\* A block arrives: the oldest bytes make room, the newest are appended.
LEMMA PushStep ==
    ASSUME InductiveInvariant, NEW n \in BlockSizes, rtl_source_push_bytes(n)
    PROVE  InductiveInvariant'
<1>1. RingHalf /\ ThreadHalf
  BY Halves
<1>2. N \in Nat \ {0} /\ n \in Nat \ {0} /\ n % 2 = 0 /\ N % 2 = 0
  BY SizesAssumption, WholePairsAssumption
<1> DEFINE r == IF n >= N THEN 0 ELSE read_offset
           w == IF n >= N THEN 0 ELSE write_offset
           b == BufferedBefore(n)
           k == KeptOf(n)
           d == Dropped(n)
           x == delivered + n
<1>3. /\ read_offset' = (r + d) % N
      /\ write_offset' = (w + k) % N
      /\ buffered_bytes' = b - d + k
      /\ buffer' = Written(w, k, x)
      /\ delivered' = x
      /\ user' = Wake(user)
      /\ UNCHANGED <<running, failed, async_started, capture, result, wanted, copied, cancel_lost>>
  BY DEF rtl_source_push_bytes, ReadOffsetAfter, rtl_source_signal_ready, statusVars,
     captureVars, readVars
<1>4. /\ r \in 0..(N - 1) /\ w \in 0..(N - 1) /\ b \in 0..N /\ k \in 1..N
      /\ d \in 0..b /\ (b - d) + k <= N /\ k <= n /\ x \in Nat
      /\ d = IF b + k > N THEN b + k - N ELSE 0
  BY <1>1, <1>2 DEF RingHalf, BufferedBefore, KeptOf, Dropped
<1>5. n < N => r = read_offset /\ w = write_offset /\ b = buffered_bytes /\ k = n
  BY <1>1, <1>2 DEF BufferedBefore, KeptOf
<1>6. n >= N => r = 0 /\ w = 0 /\ b = 0 /\ k = N
  BY <1>2 DEF BufferedBefore, KeptOf
<1>7. Written(w, k, x) = [i \in 0..(N - 1) |-> LET j == (i - w) % N
                                               IN  IF j < k THEN x - k + 1 + j ELSE buffer[i]]
  BY DEF Written
<1> HIDE DEF r, w, b, k, d, x
<1>8. w = (r + b) % N
  <2>1. CASE n < N
    BY <1>1, <1>5, <2>1, RingFacts
  <2>2. CASE n >= N
    BY <1>2, <1>6, <2>2
  <2> QED BY <1>2, <2>1, <2>2
<1>9. b > 0 => Holds(buffer, r, b, delivered) /\ x - k = delivered
  <2> SUFFICES ASSUME b > 0
               PROVE  Holds(buffer, r, b, delivered) /\ x - k = delivered
    OBVIOUS
  <2>1. r = read_offset /\ b = buffered_bytes /\ k = n
    BY <1>2, <1>5, <1>6
  <2>2. x - n = delivered
    BY <1>1, <1>2 DEF x, RingHalf
  <2> QED BY <1>1, <2>1, <2>2, RingFacts
<1> DEFINE r2 == (r + d) % N
           c == b - d
<1>10. r2 \in 0..(N - 1) /\ c \in 0..N /\ c + k <= N
  BY <1>2, <1>4, ModRange
<1>11. w = (r2 + c) % N
  <2>1. d \in 0..N /\ c \in 0..N /\ d + c <= N /\ d + c = b
    BY <1>2, <1>4
  <2>2. (((r + d) % N) + c) % N = (r + (d + c)) % N
    BY <1>2, <1>4, <2>1, ModNest
  <2> QED BY <1>8, <2>1, <2>2
<1>12. c > 0 => Holds(buffer, r2, c, x - k)
  <2> SUFFICES ASSUME c > 0
               PROVE  Holds(buffer, r2, c, x - k)
    OBVIOUS
  <2>1. Holds(buffer, r, b, delivered) /\ x - k = delivered
    BY <1>4, <1>9
  <2>2. delivered \in Nat
    BY <1>1 DEF RingHalf
  <2>3. Holds(buffer, r2, c, delivered)
    BY <1>4, <2>1, <2>2, TakeKeepsRest
  <2> QED BY <2>1, <2>3
<1> HIDE DEF r2, c
<1>13. Holds(buffer', r2, c + k, x)
  <2>1. k \in 0..N
    BY <1>4
  <2>2. buffer' = [i \in 0..(N - 1) |-> LET j == (i - w) % N
                                        IN  IF j < k THEN x - k + 1 + j ELSE buffer[i]]
    BY <1>3, <1>7
  <2> QED BY <1>4, <1>10, <1>11, <1>12, <2>1, <2>2, WriteAppends
<1>14. read_offset' = r2 /\ buffered_bytes' = c + k
  BY <1>3 DEF r2, c
<1>15. (w + k) % N = (r2 + (c + k)) % N
  <2>1. c \in 0..N /\ k \in 0..N /\ c + k <= N
    BY <1>4, <1>10
  <2>2. (((r2 + c) % N) + k) % N = (r2 + (c + k)) % N
    BY <1>2, <1>10, <2>1, ModNest
  <2> QED BY <1>11, <2>2
<1>16. c + k <= x
  <2>1. CASE n < N
    BY <1>1, <1>4, <1>5, <2>1, RingFacts DEF c, x, RingHalf
  <2>2. CASE n >= N
    BY <1>1, <1>2, <1>4, <1>6, <2>2 DEF c, x, RingHalf
  <2> QED BY <1>2, <2>1, <2>2
<1>17. (c + k) % 2 = 0 /\ (x - (c + k)) % 2 = 0
  <2>1. /\ buffered_bytes % 2 = 0 /\ buffered_bytes \in Int /\ delivered \in Int
        /\ (delivered - buffered_bytes) % 2 = 0 /\ 0 % 2 = 0
    BY <1>1, RingFacts DEF RingHalf
  <2>2. delivered % 2 = 0
    <3>1. ((delivered - buffered_bytes) + buffered_bytes) % 2 = 0
      BY <2>1, Even
    <3> QED BY <2>1, <3>1
  <2>3. b % 2 = 0 /\ k % 2 = 0 /\ b \in Int /\ k \in Int
    BY <1>2, <1>4, <1>5, <1>6, <2>1
  <2>4. c + k = b + k \/ c + k = N
    BY <1>2, <1>4 DEF c
  <2>5. (c + k) % 2 = 0 /\ c + k \in Int
    BY <1>2, <2>3, <2>4, Even
  <2>6. x % 2 = 0 /\ x \in Int
    BY <1>2, <2>1, <2>2, Even DEF x
  <2> QED BY <2>5, <2>6, Even
<1>18. buffer' \in [0..(N - 1) -> Nat]
  <2>1. ASSUME NEW i \in 0..(N - 1)
        PROVE  buffer'[i] \in Nat
    <3>1. (i - w) % N \in 0..(N - 1)
      BY <1>2, <1>4, ModSub
    <3>2. buffer'[i] = IF ((i - w) % N) < k THEN x - k + 1 + ((i - w) % N) ELSE buffer[i]
      BY <1>3, <1>7
    <3>3. x - k \in Nat /\ buffer[i] \in Nat
      BY <1>1, <1>2, <1>4 DEF RingHalf, x
    <3> QED BY <3>1, <3>2, <3>3
  <2> QED BY <1>3, <1>7, <2>1
<1>19. RingHalf'
  <2>1. OffsetsAgree'
    BY <1>3, <1>14, <1>15 DEF OffsetsAgree
  <2>2. HoldsNewestBytes'
    BY <1>3, <1>13, <1>14, <1>16 DEF HoldsNewestBytes, Holds
  <2>3. PairsStayTogether'
    BY <1>1, <1>3, <1>14, <1>17, RingFacts DEF PairsStayTogether
  <2>4. (w + k) % N \in 0..(N - 1)
    BY <1>2, <1>4, ModRange
  <2>5. c + k \in 0..N
    BY <1>4, <1>10
  <2>6. wanted \in Nat /\ copied \in Nat /\ copied <= wanted /\ wanted % 2 = 0
    BY <1>1 DEF RingHalf
  <2> QED BY <1>3, <1>4, <1>10, <1>14, <1>18, <2>1, <2>2, <2>3, <2>4, <2>5, <2>6 DEF RingHalf
<1>20. ThreadHalf'
  BY <1>1, <1>3 DEF Wake, ThreadHalf, NoLostWakeup, RunningIsKept, ReleasedAfterCapture,
     CaptureStates, UserStates
<1> QED BY <1>19, <1>20, HalvesNext

-----------------------------------------------------------------------------
(* The theorems *)

LEMMA InitInvariant == Init => InductiveInvariant
<1> SUFFICES ASSUME Init PROVE InductiveInvariant
  OBVIOUS
<1>1. N \in Nat \ {0} /\ 0 % N = 0 /\ 0 % 2 = 0
  BY SizesAssumption
<1>2. RingHalf
  <2>1. 0..(0 - 1) = {} /\ 0 - 0 = 0 /\ 0 + 0 = 0
    OBVIOUS
  <2> QED BY <1>1, <2>1 DEF Init, RingHalf, OffsetsAgree, HoldsNewestBytes, PairsStayTogether
<1>3. ThreadHalf
  BY DEF Init, ThreadHalf, NoLostWakeup, RunningIsKept, ReleasedAfterCapture, CaptureStates,
     UserStates
<1> QED BY <1>2, <1>3, Halves

LEMMA NextInvariant == InductiveInvariant /\ [Next]_vars => InductiveInvariant'
<1> SUFFICES ASSUME InductiveInvariant, [Next]_vars PROVE InductiveInvariant'
  OBVIOUS
<1>1. CASE Capture
  BY <1>1, ThreadStep, PushStep DEF Capture
<1>2. CASE rtl_source_tune
  BY <1>2, RetuneStep, UserStep DEF rtl_source_tune
<1>3. CASE rtl_source_read
  BY <1>3, StartReadStep, ThreadStep, ReadStep DEF rtl_source_read
<1>4. CASE rtl_source_stop
  BY <1>4, UserStep DEF rtl_source_stop
<1>5. CASE UNCHANGED vars
  <2>1. RingHalf /\ ThreadHalf
    BY Halves
  <2>2. RingHalf'
    BY <1>5, <2>1, RingUnchanged DEF vars
  <2>3. ThreadHalf'
    BY <1>5, <2>1 DEF vars, ringVars, statusVars, captureVars, readVars, ThreadHalf,
       NoLostWakeup, RunningIsKept, ReleasedAfterCapture
  <2> QED BY <2>2, <2>3, HalvesNext
<1> QED BY <1>1, <1>2, <1>3, <1>4, <1>5 DEF Next

\* Whatever the sizes of the ring, the blocks and the reads, the ring's bookkeeping, the
\* flags and the two threads stay consistent.
THEOREM RingIsConsistent == Spec => []InductiveInvariant
<1> QED BY InitInvariant, NextInvariant, PTL DEF Spec

\* Every variable keeps its type; the offsets stay inside the ring.
THEOREM RingTypes == Spec => []TypeOK
<1>1. InductiveInvariant => TypeOK
  BY DEF InductiveInvariant
<1> QED BY <1>1, RingIsConsistent, PTL

\* The write offset is always buffered_bytes ahead of the read offset.
THEOREM OffsetsStayTogether == Spec => []OffsetsAgree
<1>1. InductiveInvariant => OffsetsAgree
  BY DEF InductiveInvariant
<1> QED BY <1>1, RingIsConsistent, PTL

\* What can be read is exactly the newest bytes delivered, in order, whatever wrapped or
\* was overwritten before.
THEOREM RingHoldsNewestBytes == Spec => []HoldsNewestBytes
<1>1. InductiveInvariant => HoldsNewestBytes
  BY DEF InductiveInvariant
<1> QED BY <1>1, RingIsConsistent, PTL

\* I and Q are never swapped.
THEOREM SamplesStayWhole == Spec => []PairsStayTogether
<1>1. InductiveInvariant => PairsStayTogether
  BY DEF InductiveInvariant
<1> QED BY <1>1, RingIsConsistent, PTL

\* A reader waits only for a capture that can still deliver.
THEOREM NobodyMissesTheWakeup == Spec => []NoLostWakeup
<1>1. InductiveInvariant => NoLostWakeup
  BY DEF InductiveInvariant
<1> QED BY <1>1, RingIsConsistent, PTL

\* The ring is released only after the capture thread is gone.
THEOREM RingOutlivesCapture == Spec => []ReleasedAfterCapture
<1>1. InductiveInvariant => ReleasedAfterCapture
  BY DEF InductiveInvariant
<1> QED BY <1>1, RingIsConsistent, PTL

-----------------------------------------------------------------------------
(***************************************************************************)
(* The ring implements the queue.  What can be read is the run of numbers  *)
(* that ends with the last byte delivered, so a step of the ring is a step *)
(* of the queue as soon as the lengths agree.                              *)
(***************************************************************************)

\* The c bytes up to number x.
Run(c, x) == [k \in 1..c |-> x - c + k]

LEMMA RunIsSeq ==
    ASSUME NEW c \in Nat, NEW x \in Nat
    PROVE  Run(c, x) \in Seq(Int) /\ Len(Run(c, x)) = c
<1>1. Run(c, x) \in [1..c -> Int]
  BY DEF Run
<1>. QED  BY <1>1

\* Two sequences of one length with the same elements are one.
LEMMA RunIsUnique ==
    ASSUME NEW c \in Nat, NEW x \in Nat, NEW s \in Seq(Int), Len(s) = c,
           \A k \in 1..c : s[k] = x - c + k
    PROVE  s = Run(c, x)
<1>1. Run(c, x) \in Seq(Int) /\ Len(Run(c, x)) = c
  BY RunIsSeq
<1>2. \A k \in 1..c : Run(c, x)[k] = x - c + k
  BY DEF Run
<1>. QED  BY <1>1, <1>2

\* The queue of the refinement mapping.
Held(b, r, c) == [k \in 1..c |-> b[(r + k - 1) % N]]

LEMMA HeldIsRun ==
    ASSUME NEW b, NEW r \in 0..(N - 1), NEW c \in 0..N, NEW x \in Nat, Holds(b, r, c, x)
    PROVE  Held(b, r, c) = Run(c, x)
<1>1. ASSUME NEW k \in 1..c
      PROVE  b[(r + k - 1) % N] = x - c + k
  <2>1. N \in Nat /\ k - 1 \in 0..(c - 1)
    BY SizesAssumption
  <2>2. b[(r + (k - 1)) % N] = x - c + 1 + (k - 1)
    BY <2>1 DEF Holds
  <2>3. r + (k - 1) = r + k - 1 /\ x - c + 1 + (k - 1) = x - c + k
    BY <2>1
  <2>. QED  BY <2>2, <2>3
<1>. QED  BY <1>1 DEF Run, Held

\* Taking m bytes from the front.
LEMMA RunTaken ==
    ASSUME NEW c \in Nat, NEW x \in Nat, NEW m \in 0..c
    PROVE  SubSeq(Run(c, x), m + 1, Len(Run(c, x))) = Run(c - m, x)
<1> DEFINE s == SubSeq(Run(c, x), m + 1, c)
<1>1. Run(c, x) \in Seq(Int) /\ Len(Run(c, x)) = c
  BY RunIsSeq
<1>2. s \in Seq(Int) /\ Len(s) = c - m
  BY <1>1, SubSeqProperties
<1>3. \A k \in 1..(c - m) : s[k] = x - (c - m) + k
  <2>1. ASSUME NEW k \in 1..(c - m)
        PROVE  s[k] = x - (c - m) + k
    <3>1. s[k] = Run(c, x)[m + k] /\ m + k \in 1..c
      BY <1>1, SubSeqProperties
    <3>2. Run(c, x)[m + k] = x - c + (m + k)
      BY <3>1 DEF Run
    <3>. QED  BY <3>1, <3>2
  <2>. QED  BY <2>1
<1>4. c - m \in Nat
  OBVIOUS
<1>. HIDE DEF s
<1>5. s = Run(c - m, x)
  BY <1>2, <1>3, <1>4, RunIsUnique
<1>. QED  BY <1>1, <1>5 DEF s

\* Appending the next n bytes.
LEMMA RunAppended ==
    ASSUME NEW c \in Nat, NEW x \in Nat, NEW n \in Nat
    PROVE  Run(c, x) \o [k \in 1..n |-> x + k] = Run(c + n, x + n)
<1> DEFINE t == [k \in 1..n |-> x + k]
           s == Run(c, x) \o t
<1>1. Run(c, x) \in Seq(Int) /\ Len(Run(c, x)) = c
  BY RunIsSeq
<1>2. t \in Seq(Int) /\ Len(t) = n
  <2>1. t \in [1..n -> Int]
    OBVIOUS
  <2>. QED  BY <2>1
<1>3. \A k \in 1..n : t[k] = x + k
  OBVIOUS
<1>. HIDE DEF t
<1>4. s \in Seq(Int) /\ Len(s) = c + n
  BY <1>1, <1>2, ConcatProperties
<1>5. \A k \in 1..(c + n) : s[k] = (x + n) - (c + n) + k
  <2>1. ASSUME NEW k \in 1..(c + n)
        PROVE  s[k] = (x + n) - (c + n) + k
    <3>1. s[k] = IF k <= c THEN Run(c, x)[k] ELSE t[k - c]
      <4>1. \A i \in 1..(Len(Run(c, x)) + Len(t)) :
               s[i] = IF i <= Len(Run(c, x)) THEN Run(c, x)[i] ELSE t[i - Len(Run(c, x))]
        BY <1>1, <1>2, ConcatProperties
      <4>. HIDE DEF s
      <4>. QED  BY <1>1, <1>2, <4>1
    <3>. HIDE DEF s
    <3>2. CASE k <= c
      BY <3>1, <3>2 DEF Run
    <3>3. CASE k > c
      BY <1>3, <3>1, <3>3
    <3>. QED  BY <3>2, <3>3
  <2>. QED  BY <2>1
<1>6. c + n \in Nat /\ x + n \in Nat
  OBVIOUS
<1>. HIDE DEF s
<1>7. s = Run(c + n, x + n)
  BY <1>4, <1>5, <1>6, RunIsUnique
<1>. QED  BY <1>7 DEF s, t

\* Keeping the newest N bytes.
LEMMA NewestOfRun ==
    ASSUME NEW c \in Nat, NEW x \in Nat
    PROVE  Queue!Newest(Run(c, x)) = Run(IF c > N THEN N ELSE c, x)
<1>1. N \in Nat /\ Len(Run(c, x)) = c
  BY RunIsSeq, SizesAssumption
<1>2. CASE c > N
  <2>1. c - N \in 0..c /\ c - (c - N) = N
    BY <1>1, <1>2
  <2>2. SubSeq(Run(c, x), (c - N) + 1, Len(Run(c, x))) = Run(N, x)
    BY <2>1, RunTaken
  <2>. QED  BY <1>1, <1>2, <2>2 DEF Queue!Newest
<1>3. CASE c <= N
  BY <1>1, <1>3 DEF Queue!Newest
<1>. QED  BY <1>1, <1>2, <1>3

\* The queue before and after a step of the ring.
LEMMA QueueIsRun ==
    ASSUME InductiveInvariant, InductiveInvariant'
    PROVE  /\ [k \in 1..buffered_bytes |-> buffer[(read_offset + k - 1) % N]]
                = Run(buffered_bytes, delivered)
           /\ [k \in 1..buffered_bytes |-> buffer[(read_offset + k - 1) % N]]'
                = Run(buffered_bytes', delivered')
           /\ buffered_bytes \in Nat /\ delivered \in Nat /\ N \in Nat \ {0}
<1>1. /\ read_offset \in 0..(N - 1) /\ buffered_bytes \in 0..N /\ delivered \in Nat
      /\ Holds(buffer, read_offset, buffered_bytes, delivered)
  BY DEF InductiveInvariant, TypeOK, HoldsNewestBytes, Holds
<1>2. /\ read_offset' \in 0..(N - 1) /\ buffered_bytes' \in 0..N /\ delivered' \in Nat
      /\ Holds(buffer', read_offset', buffered_bytes', delivered')
  BY DEF InductiveInvariant, TypeOK, HoldsNewestBytes, Holds
<1>3. Held(buffer, read_offset, buffered_bytes) = Run(buffered_bytes, delivered)
  BY <1>1, HeldIsRun
<1>4. Held(buffer', read_offset', buffered_bytes') = Run(buffered_bytes', delivered')
  BY <1>2, HeldIsRun
<1>. QED  BY <1>1, <1>3, <1>4, SizesAssumption DEF Held

\* A block of the capture is pushed.
LEMMA PushIsPush ==
    ASSUME InductiveInvariant, NEW n \in BlockSizes, rtl_source_push_bytes(n)
    PROVE  Queue!Push(n)
<1>1. InductiveInvariant'
  BY PushStep
<1>2. n \in Nat \ {0}
  BY SizesAssumption
<1>3. delivered' = delivered + n
  BY DEF rtl_source_push_bytes
<1>4. buffered_bytes' = IF buffered_bytes + n > N THEN N ELSE buffered_bytes + n
  <2>1. buffered_bytes' = BufferedBefore(n) - Dropped(n) + KeptOf(n)
    BY DEF rtl_source_push_bytes
  <2>. QED  BY <1>2, <2>1 , SizesAssumption
            DEF InductiveInvariant, TypeOK, BufferedBefore, Dropped, KeptOf
<1>5. buffered_bytes + n \in Nat /\ delivered + n \in Nat
  BY <1>2 DEF InductiveInvariant, TypeOK
<1>6. Queue!Newest(Run(buffered_bytes, delivered) \o [k \in 1..n |-> delivered + k])
        = Run(buffered_bytes', delivered')
  <2>1. Run(buffered_bytes, delivered) \o [k \in 1..n |-> delivered + k]
          = Run(buffered_bytes + n, delivered + n)
    BY <1>1, <1>2, QueueIsRun, RunAppended
  <2>2. Queue!Newest(Run(buffered_bytes + n, delivered + n))
          = Run(IF buffered_bytes + n > N THEN N ELSE buffered_bytes + n, delivered + n)
    BY <1>5, NewestOfRun
  <2>. QED  BY <1>3, <1>4, <2>1, <2>2
<1>. QED  BY <1>1, <1>3, <1>6, QueueIsRun DEF Queue!Push

\* What a read copies in one hold of the mutex is taken, and when that is nothing the
\* queue stays as it is.
LEMMA ReadIsTake ==
    ASSUME InductiveInvariant, ReadUnderLock
    PROVE  [Queue!Next]_Queue!vars
<1>1. InductiveInvariant'
  BY ReadStep
<1> DEFINE m == IF buffered_bytes < wanted - copied THEN buffered_bytes ELSE wanted - copied
<1>2. m \in 0..buffered_bytes
  BY DEF InductiveInvariant, TypeOK
<1>3. buffered_bytes' = buffered_bytes - m /\ delivered' = delivered
  BY DEF ReadUnderLock
<1>. HIDE DEF m
<1>4. SubSeq(Run(buffered_bytes, delivered), m + 1, Len(Run(buffered_bytes, delivered)))
        = Run(buffered_bytes', delivered')
  BY <1>1, <1>2, <1>3, QueueIsRun, RunTaken
<1>5. Len(Run(buffered_bytes, delivered)) = buffered_bytes
  BY <1>1, QueueIsRun, RunIsSeq
<1>6. CASE m = 0
  BY <1>1, <1>3, <1>6, QueueIsRun DEF Queue!vars
<1>7. CASE m # 0
  <2>1. PICK k \in 1..buffered_bytes : k = m
    BY <1>2, <1>7
  <2>2. Queue!Take(k)
    BY <1>1, <1>3, <1>4, <2>1, QueueIsRun DEF Queue!Take
  <2>3. k \in 1..Len([i \in 1..buffered_bytes |-> buffer[(read_offset + i - 1) % N]])
    BY <1>1, <1>5, <2>1, QueueIsRun
  <2>. QED  BY <2>2, <2>3 DEF Queue!Next
<1>. QED  BY <1>6, <1>7

\* Tuning clears the queue.
LEMMA RetuneIsClear ==
    ASSUME InductiveInvariant, Retune
    PROVE  Queue!Clear
<1>1. InductiveInvariant'
  BY RetuneStep
<1>2. buffered_bytes' = 0 /\ delivered' = delivered
  BY DEF Retune, ClearRing
<1>3. Run(0, delivered) = <<>>
  BY <1>1, QueueIsRun, RunIsSeq
<1>. QED  BY <1>1, <1>2, <1>3, QueueIsRun DEF Queue!Clear

\* Whatever the sizes, the ring with its two offsets, its wrap-around and its overflow is
\* a first-in first-out queue that loses its oldest bytes and only those: every step of
\* the source is a Push, a Take, a Clear or no step of the queue.
THEOREM RingImplementsQueue == Spec => ImplementsQueue
<1>1. Init => Queue!Init
  <2> SUFFICES ASSUME Init PROVE Queue!Init
    OBVIOUS
  <2>1. buffered_bytes = 0 /\ delivered = 0
    BY DEF Init
  <2>2. [k \in 1..buffered_bytes |-> buffer[(read_offset + k - 1) % N]] = <<>>
    BY <2>1
  <2>. QED  BY <2>1, <2>2 DEF Queue!Init
<1>2. InductiveInvariant /\ InductiveInvariant' /\ [Next]_vars => [Queue!Next]_Queue!vars
  <2> SUFFICES ASSUME InductiveInvariant, [Next]_vars
               PROVE  [Queue!Next]_Queue!vars
    OBVIOUS
  <2>1. ASSUME NEW n \in BlockSizes, rtl_source_push_bytes(n)
        PROVE  Queue!Next
    BY <2>1, PushIsPush DEF Queue!Next
  <2>2. CASE ReadUnderLock
    BY <2>2, ReadIsTake
  <2>3. CASE Retune
    BY <2>3, RetuneIsClear DEF Queue!Next
  <2>4. CASE UNCHANGED ringVars
    BY <2>4 DEF ringVars, Queue!vars
  <2>5. \/ \E n \in BlockSizes : rtl_source_push_bytes(n)
        \/ ReadUnderLock \/ Retune \/ UNCHANGED ringVars
    BY DEF Next, Capture, rtl_source_tune, rtl_source_read, rtl_source_stop, vars,
       EnterReadAsync, ReadAsyncReturns, CaptureEnds, ResetBuffer, CreateThread, StartRead,
       SpuriousWakeup, CancelCapture, JoinCapture
  <2>. QED  BY <2>1, <2>2, <2>3, <2>4, <2>5
<1>. QED  BY <1>1, <1>2, RingIsConsistent, PTL DEF Spec, ImplementsQueue, Queue!Spec
=============================================================================
