----------------------------- MODULE RdsStation -----------------------------
(***************************************************************************)
(* A station and the parser of its groups: the name in groups of type 0    *)
(* and one radiotext after another in groups of type 2, each announced by  *)
(* the other A/B flag, over a channel that loses and corrects blocks.      *)
(*                                                                         *)
(* The station is the parser's environment: it changes its text only after *)
(* the listener has heard something of it, as a text is repeated for at    *)
(* least some seconds.                                                     *)
(***************************************************************************)
EXTENDS RdsParser, Sequences

CONSTANTS Name,       \* the bytes of the name
          Texts,      \* the texts, shown one after another
          Programmes, \* what a station may send: sets of "name" and "text"
          Channel     \* how the four blocks of a group may be received

StationAssumption ==
    /\ Name \in [PsPositions -> Bytes]
    /\ \A n \in DOMAIN Texts : Texts[n] \in [TextPositions -> Bytes]

ASSUME StationAssumption

VARIABLES sends,     \* the programme
          shown,     \* index of the text the station sends
          heard      \* index of the text the listener knows of, 0 at first

stationVars == <<vars, sends, shown, heard>>

StationInit == Init /\ sends \in Programmes /\ shown = 1 /\ heard = 0

Piece(text, first) == [k \in 0..(CharsPerBlock - 1) |-> text[first + k]]

NameGroup(segment, blocks) ==
    [type |-> 0, version |-> "A", ab |-> 0, pi |-> 1, segment |-> segment, blocks |-> blocks,
     chars |-> [n \in {3} |-> Piece(Name, segment * CharsPerBlock)]]

TextGroup(version, segment, blocks) ==
    LET first == segment * CharsPerBlock * (IF version = "A" THEN 2 ELSE 1)
    IN  [type |-> 2, version |-> version, ab |-> shown % 2, pi |-> 1, segment |-> segment,
         blocks |-> blocks,
         chars |-> [n \in {2, 3} |->
                       IF version = "A" THEN Piece(Texts[shown], first + (n - 2) * CharsPerBlock)
                       ELSE Piece(Texts[shown], first)]]

Clean == [n \in 0..3 |-> Received(0, 1)]

SendName(segment, blocks) ==
    /\ "name" \in sends
    /\ rds_parser_process_group(NameGroup(segment, blocks))
    /\ UNCHANGED <<sends, shown, heard>>

SendText(version, segment, blocks) ==
    /\ "text" \in sends
    /\ rds_parser_process_group(TextGroup(version, segment, blocks))
    /\ heard' = shown
    /\ UNCHANGED <<sends, shown>>

\* The station goes on to its next text.
ChangeText ==
    /\ heard = shown
    /\ shown < Len(Texts)
    /\ shown' = shown + 1
    /\ UNCHANGED <<vars, sends, heard>>

\* A group without one of its first two blocks is not parsed, which changes nothing.
StationNext ==
    \/ \E segment \in 0..(PsSegments - 1), blocks \in Channel : SendName(segment, blocks)
    \/ \E version \in {"A", "B"}, segment \in 0..(TextSegments - 1), blocks \in Channel :
          SendText(version, segment, blocks)
    \/ ChangeText

StationSpec == StationInit /\ [][StationNext]_stationVars

\* The station repeats everything it shows, and at times all of a group is received.
StationFairness ==
    /\ \A segment \in 0..(PsSegments - 1) : WF_stationVars(SendName(segment, Clean))
    /\ \A segment \in 0..(TextSegments - 1) : WF_stationVars(SendText("A", segment, Clean))

-----------------------------------------------------------------------------
(* Properties *)

\* The text up to its end, as it is shown.
Shown(text) == CString([i \in TextPositions |-> rds_sanitize_char(text[i])])

\* The name without the blanks at its end.
ShownName == CString(rds_trim_string([i \in PsPositions |-> rds_sanitize_char(Name[i])]))

\* The characters collected are all of the text heard last: those of an earlier one are
\* gone, whatever was lost in between and in groups of whichever version they came.
TextIsOfOneMessage == "text" \in sends =>
    \A i \in radiotext.seen :
        heard > 0 /\ radiotext.text[i] = rds_sanitize_char(Texts[heard][i])

\* A radiotext is reported only as a whole: what is reported is one of the texts, from its
\* first character to its last, and never one that was replaced before.
ReportedIsWhole ==
    "text" \in sends /\ event.radiotext_changed => last_reported_radiotext = Shown(Texts[heard])

\* The listener gets to see the whole name, also if pieces of it are blank, and keeps it.
NameSettles == ("name" \in sends) => <>[](last_reported_ps = ShownName)

\* The text the station stays with is reported in the end, from its first character to its
\* last, if it has a character at its beginning and one that is not blank.
CanBeReported(text) == text # << >> /\ \E n \in DOMAIN text : text[n] # "blank"

TextSettles ==
    ("text" \in sends) =>
        <>[](CanBeReported(Shown(Texts[shown])) => last_reported_radiotext = Shown(Texts[shown]))
=============================================================================
