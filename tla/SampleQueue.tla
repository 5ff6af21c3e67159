---------------------------- MODULE SampleQueue -----------------------------
(***************************************************************************)
(* What a reader of the live source may rely on: a first-in first-out      *)
(* queue of at most Capacity bytes.  Blocks are appended; when they do not *)
(* fit, the oldest bytes are lost and only those.  A byte is its number.   *)
(***************************************************************************)
EXTENDS Naturals, Sequences

CONSTANTS Capacity, BlockSizes

VARIABLES queue, produced

vars == <<queue, produced>>

Init == queue = <<>> /\ produced = 0

Newest(s) == IF Len(s) <= Capacity THEN s
             ELSE SubSeq(s, Len(s) - Capacity + 1, Len(s))

Push(n) ==
    /\ produced' = produced + n
    /\ queue' = Newest(queue \o [k \in 1..n |-> produced + k])

Take(n) ==
    /\ queue' = SubSeq(queue, n + 1, Len(queue))
    /\ UNCHANGED produced

\* The source is tuned to another frequency.
Clear ==
    /\ queue' = <<>>
    /\ UNCHANGED produced

Next ==
    \/ \E n \in BlockSizes : Push(n)
    \/ \E n \in 1..Len(queue) : Take(n)
    \/ Clear

Spec == Init /\ [][Next]_vars
=============================================================================
