---------------------------- MODULE MCRdsStation ----------------------------
(***************************************************************************)
(* A name with a blank in its middle and one at its end; texts that fill   *)
(* all of their room, end early and begin with a blank.                    *)
(*                                                                         *)
(* A behaviour is either about such a station, or about any groups at all, *)
(* as noise or a change of frequency make them, and a listener.            *)
(***************************************************************************)
EXTENDS RdsStation, RdsListener

groupsVars == <<stationVars, heard_text, heard_ps, watched>>

FromTheStation ==
    /\ sends # {} /\ StationNext
    /\ UNCHANGED <<heard_text, heard_ps, watched>>

FromAnywhere ==
    /\ sends = {} /\ ListenerNext
    /\ UNCHANGED <<sends, shown, heard>>

GroupsInit ==
    /\ StationInit /\ ListenerInit
    /\ sends = {} <=> watched # -1

GroupsSpec ==
    /\ GroupsInit /\ [][FromTheStation \/ FromAnywhere]_groupsVars
    /\ StationFairness

Word(bytes) == [i \in 0..(Len(bytes) - 1) |-> bytes[i + 1]]

MCName == Word(<<"a", "control", "b", "blank">>)

MCTexts == <<Word(<<"a", "blank", "b", "a">>), Word(<<"b", "control", "end", "a">>),
             Word(<<"blank", "a", "a", "end">>)>>

\* Name and text do not touch each other: they are checked one at a time.
MCProgrammes == {{}, {"name"}, {"text"}}

\* Blocks that are received, corrected and, but for those without which there is nothing to
\* parse, missing.
MCChannel ==
    {[n \in 0..3 |-> <<Received(0, 1), b, c, d>>[n + 1]] :
        b \in {Received(0, 1), Received(1, 1)},
        c, d \in {Received(0, 1), Received(1, 1), Missing}}

CleanBlock == Received(0, 1)
Corrected == Received(1, 1)

\* A control character is heard as a blank.
Pieces == [0..(CharsPerBlock - 1) -> {"a", "control", "end"}]

\* Groups of either version in which as many blocks as can be were corrected, or one is
\* missing.
TextInputs ==
    [blocks : {[n \in 0..3 |-> <<CleanBlock, CleanBlock, c, d>>[n + 1]] :
                  c \in {CleanBlock, Missing}, d \in {CleanBlock, Corrected}}
              \cup {[n \in 0..3 |-> <<CleanBlock, Corrected, Corrected, d>>[n + 1]] :
                        d \in {Corrected, Missing}},
     pi : {1}, type : {2}, version : {"A", "B"}, ab : {0, 1},
     segment : {0}, chars : [{2, 3} -> Pieces]]

PsInputs ==
    [blocks : {[n \in 0..3 |-> <<CleanBlock, CleanBlock, Missing, d>>[n + 1]] :
                  d \in {CleanBlock, Corrected, Missing}},
     pi : {1}, type : {0}, version : {"A"}, ab : {0},
     segment : 0..2, chars : [{3} -> Pieces]]

TextAndPsInputs == TextInputs \cup PsInputs
=============================================================================
