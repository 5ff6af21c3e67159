--------------------------- MODULE LiveBroadcast ----------------------------
(***************************************************************************)
(* What the stream server promises its listeners, without chunks, cursors, *)
(* locks or a clock: one station is on the air at a time; everyone tuned   *)
(* to it hears what is aired from the moment of joining, in order and      *)
(* without a gap; a listener is cut off only when another station replaces *)
(* the one on the air or when the listener is MaxBehind pieces behind.     *)
(***************************************************************************)
EXTENDS Naturals

CONSTANTS Listeners, Stations, NoStation, MaxBehind

VARIABLES
    live,      \* whether a station is on the air
    station,   \* the station last on the air
    aired,     \* pieces of it aired so far
    listener,  \* each listener is "away", "tuned" or "cut"
    heard      \* for a tuned listener, the last piece heard, or skipped by joining late

vars == <<live, station, aired, listener, heard>>

Tuned == {c \in Listeners : listener[c] = "tuned"}

Init ==
    /\ live = FALSE
    /\ station = NoStation
    /\ aired = 0
    /\ listener = [c \in Listeners |-> "away"]
    /\ heard = [c \in Listeners |-> 0]

\* A listener tunes to the station on the air, at the live edge.
Join(c) ==
    /\ live
    /\ listener[c] = "away"
    /\ listener' = [listener EXCEPT ![c] = "tuned"]
    /\ heard' = [heard EXCEPT ![c] = aired]
    /\ UNCHANGED <<live, station, aired>>

\* A listener puts another station on the air, or the first one.
Replace(c, s) ==
    /\ listener[c] = "away"
    /\ ~(live /\ station = s)
    /\ live' = TRUE
    /\ station' = s
    /\ aired' = 0
    /\ listener' = [d \in Listeners |-> IF d = c THEN "tuned"
                                        ELSE IF d \in Tuned THEN "cut"
                                        ELSE listener[d]]
    /\ heard' = [heard EXCEPT ![c] = 0]

CutOff(S) ==
    /\ \A c \in S : heard[c] + MaxBehind <= aired
    /\ listener' = [c \in Listeners |-> IF c \in S THEN "cut" ELSE listener[c]]

\* The next piece is aired; whoever would then be too far behind is cut off.
Air ==
    /\ live
    /\ \E S \in SUBSET Tuned :
          /\ CutOff(S)
          /\ \A c \in Tuned \ S : aired < heard[c] + MaxBehind
    /\ aired' = aired + 1
    /\ UNCHANGED <<live, station, heard>>

\* Airing failed after the slow listeners had been cut off.
AirFails ==
    /\ live
    /\ \E S \in SUBSET Tuned : CutOff(S)
    /\ UNCHANGED <<live, station, aired, heard>>

Hear(c) ==
    /\ c \in Tuned
    /\ heard[c] < aired
    /\ heard' = [heard EXCEPT ![c] = heard[c] + 1]
    /\ UNCHANGED <<live, station, aired, listener>>

\* A listener goes away; the station is on the air for as long as one is tuned.
Leave(c) ==
    /\ listener[c] # "away"
    /\ listener' = [listener EXCEPT ![c] = "away"]
    /\ heard' = [heard EXCEPT ![c] = 0]
    /\ live' = (live /\ Tuned \ {c} # {})
    /\ UNCHANGED <<station, aired>>

Next ==
    \/ Air
    \/ AirFails
    \/ \E c \in Listeners :
          Join(c) \/ Hear(c) \/ Leave(c) \/ \E s \in Stations : Replace(c, s)

Spec == Init /\ [][Next]_vars
=============================================================================
