-------------------------- MODULE RdsStationProofs --------------------------
(***************************************************************************)
(* Theorems about RdsStation and RdsListener.  Of a station: a text is     *)
(* never mixed from two, and what is reported is whole, for texts of any   *)
(* length and number, groups of both versions, and any channel.  Of any    *)
(* groups whatever: what is kept is the best that was heard.               *)
(***************************************************************************)
EXTENDS RdsStation, RdsListener, FiniteSetTheorems, WellFoundedInduction, TLAPS

\* What the radiotext consists of once text n has been heard.
MadeOf(rt, n) ==
    /\ DOMAIN rt.text = TextPositions
    /\ rt.seen \subseteq TextPositions
    /\ n > 0 => \A i \in rt.seen : rt.text[i] = rds_sanitize_char(Texts[n][i])
    /\ \A i \in TextPositions \ rt.seen : rt.text[i] = "nul"

\* The station is at the text that was heard last, or one further: with the other flag.
StationInvariant ==
    "text" \in sends =>
        /\ heard \in Nat /\ shown \in Nat
        /\ shown = heard \/ shown = heard + 1
        /\ shown > 0
        /\ heard = 0 => radiotext_ab = -1
        /\ heard > 0 => radiotext_ab = heard % 2
        /\ MadeOf(radiotext, heard)
        /\ heard = 0 => radiotext.seen = {}

LEMMA Sizes ==
    /\ CharsPerBlock \in Nat \ {0} /\ TextSegments \in Nat \ {0} /\ PsSegments \in Nat \ {0}
    /\ TextSegments * 2 * CharsPerBlock \in Nat \ {0}
<1>1. CharsPerBlock \in Nat \ {0} /\ TextSegments \in Nat \ {0} /\ PsSegments \in Nat \ {0}
  BY ParserAssumption
<1>2. \A a, b \in Nat \ {0} : a * 2 * b \in Nat \ {0}
  OBVIOUS
<1>. QED
  BY <1>1, <1>2

LEMMA NoTextIsEmpty == \A n : MadeOf(NoText, n) /\ NoText.seen = {}
BY DEF MadeOf, NoText

LEMMA CountUpTo == \A size \in Nat : Cardinality(0..(size - 1)) = size
<1>. SUFFICES ASSUME NEW size \in Nat PROVE Cardinality(0..(size - 1)) = size
  OBVIOUS
<1>1. 0 \in Int /\ size - 1 \in Int
  OBVIOUS
<1>2. Cardinality(0..(size - 1)) = IF 0 > size - 1 THEN 0 ELSE (size - 1) - 0 + 1
  BY <1>1, FS_Interval
<1>. QED
  BY <1>2

\* The room of segment a among b segments, in groups of the wide and the narrow version.
LEMMA SegmentRoom ==
    ASSUME NEW a \in Nat, NEW b \in Nat, NEW c \in Nat, a + 1 <= b
    PROVE  /\ a * c \in Nat /\ a * c * 2 \in Nat
           /\ a * 2 * c = a * c * 2
           /\ a * c * 2 + 2 * c <= b * 2 * c
           /\ a * c + c <= b * 2 * c
           /\ a * c + c <= b * c
<1>1. PICK d \in Nat : b = a + 1 + d
  <2>1. b - (a + 1) \in Nat /\ b = a + 1 + (b - (a + 1))
    OBVIOUS
  <2>. QED
    BY <2>1
<1>2. b * 2 * c = a * c * 2 + 2 * c + d * c * 2 /\ b * c = a * c + c + d * c
  BY <1>1
<1>3. a * c \in Nat /\ d * c \in Nat /\ a * 2 * c = a * c * 2
  OBVIOUS
<1>. QED
  BY <1>2, <1>3

\* Characters added to a text are those of the same message.
LEMMA UpdateIsMadeOf ==
    ASSUME NEW old, NEW n \in Nat, n > 0, MadeOf(old, n),
           NEW position \in Nat, NEW size \in Nat, NEW chars, NEW quality,
           DOMAIN chars = 0..(size - 1),
           position + size <= TextSegments * 2 * CharsPerBlock,
           \A k \in 0..(size - 1) : chars[k] = Texts[n][position + k]
    PROVE  MadeOf(rds_update_radiotext_chars(old, position, chars, quality), n)
<1>. DEFINE new(i) == rds_sanitize_char(chars[i - position])
            taken == {i \in position..(position + Cardinality(DOMAIN chars) - 1) :
                         Replaces(i \in old.seen, old.text[i] = new(i), quality, old.quality[i])}
            after == rds_update_radiotext_chars(old, position, chars, quality)
<1>1. Cardinality(DOMAIN chars) = size
  BY CountUpTo
<1>2. taken \subseteq position..(position + size - 1)
  BY <1>1
<1>3. taken \subseteq TextPositions
  BY <1>2, Sizes DEF TextPositions
<1>4. \A i \in taken : new(i) = rds_sanitize_char(Texts[n][i])
  <2>. SUFFICES ASSUME NEW i \in taken PROVE new(i) = rds_sanitize_char(Texts[n][i])
    OBVIOUS
  <2>1. i \in position..(position + size - 1)
    BY <1>2
  <2>2. i - position \in 0..(size - 1) /\ position + (i - position) = i
    BY <2>1
  <2>3. chars[i - position] = Texts[n][i]
    BY <2>2
  <2>. QED
    BY <2>3
<1>5. /\ after.text = [i \in TextPositions |-> IF i \in taken THEN new(i) ELSE old.text[i]]
      /\ after.seen = old.seen \cup taken
  BY DEF rds_update_radiotext_chars
<1>. HIDE DEF taken, new, after
<1>6. DOMAIN after.text = TextPositions /\ after.seen \subseteq TextPositions
  BY <1>3, <1>5 DEF MadeOf
<1>7. \A i \in after.seen : after.text[i] = rds_sanitize_char(Texts[n][i])
  BY <1>3, <1>4, <1>5 DEF MadeOf
<1>8. \A i \in TextPositions \ after.seen : after.text[i] = "nul"
  BY <1>5 DEF MadeOf
<1>. QED
  BY <1>6, <1>7, <1>8 DEF MadeOf, after

\* A group of the text shown adds to what is kept of it.
LEMMA TextAfterIsMadeOf ==
    ASSUME NEW version \in {"A", "B"}, NEW segment \in 0..(TextSegments - 1), NEW blocks,
           shown \in Nat, shown > 0,
           MadeOf(TextBefore(TextGroup(version, segment, blocks)), shown)
    PROVE  MadeOf(TextAfter(TextGroup(version, segment, blocks)), shown)
<1>. DEFINE g == TextGroup(version, segment, blocks)
            both == [i \in 0..(2 * CharsPerBlock - 1) |->
                        IF i < CharsPerBlock THEN g.chars[2][i] ELSE g.chars[3][i - CharsPerBlock]]
            wide == segment * CharsPerBlock * 2
            narrow == segment * CharsPerBlock
<1>0. MadeOf(TextBefore(g), shown)
  OBVIOUS
<1>1. /\ narrow \in Nat /\ wide \in Nat /\ g.segment * 2 * CharsPerBlock = wide
      /\ g.segment * CharsPerBlock = narrow
      /\ wide + 2 * CharsPerBlock <= TextSegments * 2 * CharsPerBlock
      /\ narrow + CharsPerBlock <= TextSegments * 2 * CharsPerBlock
  <2>1. g.segment = segment /\ segment + 1 <= TextSegments /\ segment \in Nat
    BY Sizes DEF TextGroup
  <2>. QED
    BY <2>1, Sizes, SegmentRoom
<1>2. ASSUME version = "A", NEW quality
      PROVE  MadeOf(rds_update_radiotext_chars(TextBefore(g), g.segment * 2 * CharsPerBlock, both,
                                               quality), shown)
  <2>1. DOMAIN both = 0..(2 * CharsPerBlock - 1) /\ 2 * CharsPerBlock \in Nat
    BY Sizes
  <2>2. \A k \in 0..(CharsPerBlock - 1) : /\ g.chars[2][k] = Texts[shown][wide + k]
                                          /\ g.chars[3][k] = Texts[shown][wide + CharsPerBlock + k]
    <3>1. \A n \in {2, 3} : g.chars[n] = Piece(Texts[shown], wide + (n - 2) * CharsPerBlock)
      BY <1>2 DEF TextGroup
    <3>2. /\ g.chars[2] = Piece(Texts[shown], wide)
          /\ g.chars[3] = Piece(Texts[shown], wide + CharsPerBlock)
      <4>1. wide + (2 - 2) * CharsPerBlock = wide
            /\ wide + (3 - 2) * CharsPerBlock = wide + CharsPerBlock
        BY <1>1, Sizes
      <4>. QED
        BY <3>1, <4>1
    <3>. QED
      BY <3>2 DEF Piece
  <2>3. \A k \in 0..(2 * CharsPerBlock - 1) : both[k] = Texts[shown][wide + k]
    <3>. SUFFICES ASSUME NEW k \in 0..(2 * CharsPerBlock - 1)
                  PROVE  both[k] = Texts[shown][wide + k]
      OBVIOUS
    <3>1. CASE k < CharsPerBlock
      <4>1. k \in 0..(CharsPerBlock - 1)
        BY <3>1, Sizes
      <4>. QED
        BY <3>1, <4>1, <2>2
    <3>2. CASE ~(k < CharsPerBlock)
      <4>1. /\ k - CharsPerBlock \in 0..(CharsPerBlock - 1)
            /\ wide + CharsPerBlock + (k - CharsPerBlock) = wide + k
        BY <3>2, <1>1, Sizes
      <4>2. both[k] = g.chars[3][k - CharsPerBlock]
        BY <3>2
      <4>3. g.chars[3][k - CharsPerBlock] = Texts[shown][wide + CharsPerBlock + (k - CharsPerBlock)]
        BY <4>1, <2>2
      <4>. QED
        BY <4>1, <4>2, <4>3
    <3>. QED
      BY <3>1, <3>2
  <2>. HIDE DEF both, wide, g
  <2>. QED
    BY <1>0, <1>1, <2>1, <2>3, UpdateIsMadeOf
<1>3. ASSUME version = "B", NEW quality
      PROVE  MadeOf(rds_update_radiotext_chars(TextBefore(g), g.segment * CharsPerBlock,
                                               g.chars[3], quality), shown)
  <2>1. g.chars[3] = Piece(Texts[shown], narrow)
    <3>1. narrow * 1 = narrow /\ segment * CharsPerBlock * 1 = narrow
      BY <1>1
    <3>. QED
      BY <1>3, <3>1 DEF TextGroup
  <2>2. DOMAIN g.chars[3] = 0..(CharsPerBlock - 1)
    BY <2>1 DEF Piece
  <2>3. \A k \in 0..(CharsPerBlock - 1) : g.chars[3][k] = Texts[shown][narrow + k]
    BY <2>1 DEF Piece
  <2>4. PICK chars : chars = g.chars[3]
    OBVIOUS
  <2>5. PICK old : old = TextBefore(g)
    OBVIOUS
  <2>6. PICK position : position = g.segment * CharsPerBlock
    OBVIOUS
  <2>7. /\ MadeOf(old, shown) /\ position \in Nat /\ DOMAIN chars = 0..(CharsPerBlock - 1)
        /\ position + CharsPerBlock <= TextSegments * 2 * CharsPerBlock
        /\ \A k \in 0..(CharsPerBlock - 1) : chars[k] = Texts[shown][position + k]
        /\ CharsPerBlock \in Nat
    BY <1>0, <1>1, <2>2, <2>3, <2>4, <2>5, <2>6, Sizes
  <2>8. MadeOf(rds_update_radiotext_chars(old, position, chars, quality), shown)
    BY <2>7, UpdateIsMadeOf
  <2>. QED
    BY <2>4, <2>5, <2>6, <2>8
<1>4. g.version = version
  BY DEF TextGroup
<1>. HIDE DEF g
<1>5. \/ TextAfter(g) = TextBefore(g)
      \/ version = "A" /\ TextAfter(g) = rds_update_radiotext_chars(
            TextBefore(g), g.segment * 2 * CharsPerBlock, both, Quality(g, {1, 2, 3}))
      \/ version = "B" /\ TextAfter(g) = rds_update_radiotext_chars(
            TextBefore(g), g.segment * CharsPerBlock, g.chars[3], Quality(g, {1, 3}))
  BY <1>4 DEF TextAfter
<1>. QED
  BY <1>2, <1>3, <1>5 DEF g

-----------------------------------------------------------------------------
LEMMA InitStation == StationInit => StationInvariant
BY NoTextIsEmpty DEF StationInit, Init, StationInvariant

LEMMA SendTextStep ==
    ASSUME StationInvariant, NEW version \in {"A", "B"}, NEW segment \in 0..(TextSegments - 1),
           NEW blocks, SendText(version, segment, blocks)
    PROVE  StationInvariant' /\ MadeOf(radiotext', heard') /\ heard' > 0 /\ heard' = shown
<1>. DEFINE g == TextGroup(version, segment, blocks)
<1>1. /\ "text" \in sends /\ sends' = sends
      /\ rds_parser_process_group(g)
      /\ heard' = shown /\ shown' = shown
  BY DEF SendText
<1>2. g.type = 2 /\ g.ab = shown % 2
  BY DEF TextGroup
<1>3. radiotext_ab' = shown % 2 /\ radiotext' = TextAfter(g)
  BY <1>1, <1>2 DEF rds_parser_process_group, UpdateText
<1>4. shown \in Nat /\ shown > 0
  BY <1>1 DEF StationInvariant
<1>5. MadeOf(TextBefore(g), shown)
  <2>1. CASE radiotext_ab = shown % 2
    <3>1. heard = shown
      BY <1>1, <1>4, <2>1 DEF StationInvariant
    <3>. QED
      BY <1>1, <1>2, <2>1, <3>1 DEF TextBefore, StationInvariant
  <2>2. CASE radiotext_ab # shown % 2
    BY <1>2, <2>2, NoTextIsEmpty DEF TextBefore
  <2>. QED
    BY <2>1, <2>2
<1>6. MadeOf(radiotext', shown)
  BY <1>3, <1>4, <1>5, TextAfterIsMadeOf
<1>. HIDE DEF g
<1>. QED
  BY <1>1, <1>3, <1>4, <1>6 DEF StationInvariant

LEMMA OtherStep ==
    ASSUME StationInvariant,
           \/ \E segment \in 0..(PsSegments - 1), blocks \in Channel : SendName(segment, blocks)
           \/ ChangeText
           \/ UNCHANGED stationVars
    PROVE  StationInvariant'
<1>1. CASE \E segment \in 0..(PsSegments - 1), blocks \in Channel : SendName(segment, blocks)
  <2>. PICK segment \in 0..(PsSegments - 1), blocks \in Channel : SendName(segment, blocks)
    BY <1>1
  <2>1. NameGroup(segment, blocks).type = 0
    BY DEF NameGroup
  <2>2. UNCHANGED <<radiotext_ab, radiotext, sends, shown, heard>>
    BY <2>1 DEF SendName, rds_parser_process_group, UpdateText
  <2>. QED
    BY <2>2 DEF StationInvariant, MadeOf
<1>2. CASE ChangeText
  BY <1>2 DEF ChangeText, StationInvariant, MadeOf, vars
<1>3. CASE UNCHANGED stationVars
  BY <1>3 DEF stationVars, StationInvariant, MadeOf, vars
<1>. QED
  BY <1>1, <1>2, <1>3

LEMMA NextStation == StationInvariant /\ [StationNext]_stationVars => StationInvariant'
BY SendTextStep, OtherStep DEF StationNext

-----------------------------------------------------------------------------
\* The characters collected are those of the text heard last, for ever: whatever is lost
\* when a text is replaced, in groups of either version.
THEOREM TextIsNeverMixed == StationSpec => []TextIsOfOneMessage
<1>1. StationInvariant => TextIsOfOneMessage
  <2>. SUFFICES ASSUME StationInvariant, "text" \in sends, NEW i \in radiotext.seen
                PROVE  heard > 0 /\ radiotext.text[i] = rds_sanitize_char(Texts[heard][i])
    BY DEF TextIsOfOneMessage
  <2>1. heard \in Nat /\ heard # 0
    BY DEF StationInvariant
  <2>. QED
    BY <2>1 DEF StationInvariant, MadeOf
<1>. QED
  BY <1>1, InitStation, NextStation, PTL DEF StationSpec

-----------------------------------------------------------------------------
(* A complete text, as a string, is the text that was sent. *)

LEMMA LeastExists ==
    ASSUME NEW S \in SUBSET Nat, S # {}
    PROVE  Min(S) \in S /\ \A y \in S : Min(S) <= y
<1>. DEFINE Below == OpToRel(<, Nat)
<1>1. IsWellFoundedOn(Below, Nat)
  BY NatLessThanWellFounded
<1>2. \A x, y \in Nat : <<y, x>> \in Below <=> y < x
  BY DEF OpToRel
<1>. HIDE DEF Below
<1>3. PICK x \in S : \A y \in S : ~(<<y, x>> \in Below)
  BY <1>1, WFMin
<1>4. \A y \in S : ~(y < x)
  BY <1>2, <1>3, Zenon
<1>5. \A y \in S : x <= y
  BY <1>4
<1>. QED
  BY <1>3, <1>5 DEF Min

Room == TextSegments * 2 * CharsPerBlock

LEMMA RoomIsSize ==
    Room \in Nat \ {0} /\ TextPositions = 0..(Room - 1) /\ Cardinality(TextPositions) = Room
<1>1. Room \in Nat \ {0} /\ TextPositions = 0..(Room - 1)
  BY Sizes DEF Room, TextPositions
<1>2. 0 \in Int /\ Room - 1 \in Int
  BY <1>1
<1>3. Cardinality(0..(Room - 1)) = IF 0 > Room - 1 THEN 0 ELSE (Room - 1) - 0 + 1
  BY <1>2, FS_Interval
<1>. QED
  BY <1>1, <1>3

LEMMA StrLenIsFirstEnd ==
    ASSUME NEW x, DOMAIN x = TextPositions, NEW end \in 0..Room,
           end = Room \/ x[end] = "nul",
           \A i \in 0..(end - 1) : x[i] # "nul"
    PROVE  StrLen(x) = end
<1>. DEFINE ends == {i \in DOMAIN x : x[i] = "nul"} \cup {Cardinality(DOMAIN x)}
<1>1. ends \subseteq Nat /\ end \in ends
  BY RoomIsSize
<1>2. \A y \in ends : end <= y
  <2>. SUFFICES ASSUME NEW y \in ends, y < end PROVE FALSE
    BY <1>1
  <2>1. y \in 0..(end - 1) /\ y # Room
    BY <1>1
  <2>. QED
    BY <2>1, RoomIsSize
<1>. HIDE DEF ends
<1>3. Min(ends) \in ends /\ \A y \in ends : Min(ends) <= y
  BY <1>1, LeastExists
<1>4. Min(ends) = end
  <2>1. Min(ends) \in Nat /\ end \in Nat
    BY <1>1, <1>3
  <2>2. Min(ends) <= end /\ end <= Min(ends)
    BY <1>1, <1>2, <1>3
  <2>. QED
    BY <2>1, <2>2
<1>. QED
  BY <1>4 DEF StrLen, ends

LEMMA CompleteIsWhole ==
    ASSUME NEW rt, NEW n \in Nat, n > 0, MadeOf(rt, n), rds_parser_radiotext_is_complete(rt)
    PROVE  CString(rt.text) = Shown(Texts[n])
<1>. DEFINE whole == [i \in TextPositions |-> rds_sanitize_char(Texts[n][i])]
            ends == {i \in rt.seen : rt.text[i] = "nul"} \cup {Cardinality(TextPositions)}
            end == Min(ends)
<1>1. rt.seen \subseteq 0..(Room - 1) /\ DOMAIN rt.text = 0..(Room - 1)
  BY RoomIsSize DEF MadeOf
<1>2. ends \subseteq Nat /\ ends # {}
  BY <1>1, RoomIsSize
<1>3. end \in ends /\ \A y \in ends : end <= y
  <2>. HIDE DEF ends
  <2>. QED
    BY <1>2, LeastExists
<1>4. \A i \in 0..(end - 1) : i \in rt.seen
  BY Zenon DEF rds_parser_radiotext_is_complete
<1>. HIDE DEF end
<1>5. end \in 0..Room
  BY <1>1, <1>2, <1>3, RoomIsSize
<1>6. \A i \in 0..(end - 1) : rt.text[i] # "nul"
  <2>. SUFFICES ASSUME NEW i \in 0..(end - 1), rt.text[i] = "nul" PROVE FALSE
    OBVIOUS
  <2>1. i \in ends
    BY <1>4
  <2>. QED
    BY <1>3, <1>5, <2>1
<1>7. end = Room \/ (end \in rt.seen /\ rt.text[end] = "nul")
  BY <1>3, RoomIsSize
<1>8. \A i \in rt.seen : rt.text[i] = whole[i]
  BY <1>1, RoomIsSize DEF MadeOf
<1>9. DOMAIN whole = TextPositions
  OBVIOUS
<1>. HIDE DEF whole
<1>10. StrLen(rt.text) = end
  BY <1>5, <1>6, <1>7, StrLenIsFirstEnd DEF MadeOf
<1>11. end = Room \/ whole[end] = "nul"
  BY <1>7, <1>8
<1>12. \A i \in 0..(end - 1) : whole[i] # "nul"
  BY <1>4, <1>6, <1>8
<1>13. StrLen(whole) = end
  BY <1>5, <1>9, <1>11, <1>12, StrLenIsFirstEnd
<1>14. \A i \in 1..end : rt.text[i - 1] = whole[i - 1]
  <2>. SUFFICES ASSUME NEW i \in 1..end PROVE rt.text[i - 1] = whole[i - 1]
    OBVIOUS
  <2>1. i - 1 \in 0..(end - 1)
    BY <1>5
  <2>. QED
    BY <1>4, <1>8, <2>1
<1>15. CString(rt.text) = CString(whole)
  BY <1>10, <1>13, <1>14 DEF CString
<1>. QED
  BY <1>15 DEF Shown, whole

\* What a group makes the parser report is the text heard last.
LEMMA ReportIsWhole ==
    ASSUME StationInvariant', "text" \in sends', Report
    PROVE  event'.radiotext_changed => last_reported_radiotext' = Shown(Texts[heard'])
<1>. SUFFICES ASSUME event'.radiotext_changed
              PROVE  last_reported_radiotext' = Shown(Texts[heard'])
  OBVIOUS
<1>1. /\ rds_parser_radiotext_is_complete(radiotext')
      /\ last_reported_radiotext' = CString(radiotext'.text)
  BY DEF Report
<1>2. MadeOf(radiotext', heard') /\ heard' \in Nat
  BY DEF StationInvariant, MadeOf
<1>3. radiotext'.text[0] # "nul"
  BY <1>1 DEF rds_parser_radiotext_is_complete
<1>4. 0 \in TextPositions
  BY RoomIsSize
<1>5. radiotext'.seen # {}
  BY <1>2, <1>3, <1>4 DEF MadeOf
<1>6. heard' > 0
  BY <1>2, <1>5 DEF StationInvariant
<1>. QED
  BY <1>1, <1>2, <1>6, CompleteIsWhole

LEMMA StationReports ==
    ASSUME StationInvariant, StationInvariant', ReportedIsWhole, [StationNext]_stationVars
    PROVE  ReportedIsWhole'
<1>1. CASE Report /\ UNCHANGED sends
  <2>1. event'.radiotext_changed /\ "text" \in sends'
            => last_reported_radiotext' = Shown(Texts[heard'])
    BY <1>1, ReportIsWhole
  <2>. QED
    BY <2>1 DEF ReportedIsWhole
<1>2. CASE UNCHANGED <<event, last_reported_radiotext, sends, heard>>
  BY <1>2 DEF ReportedIsWhole
<1>3. (Report /\ UNCHANGED sends) \/ UNCHANGED <<event, last_reported_radiotext, sends, heard>>
  BY DEF StationNext, SendName, SendText, ChangeText, rds_parser_process_group, stationVars, vars
<1>. QED
  BY <1>1, <1>2, <1>3

\* Only whole texts are reported, each as it was sent, and none that has been replaced.
THEOREM OnlyWholeTextsAreReported == StationSpec => []ReportedIsWhole
<1>1. StationInit => ReportedIsWhole
  BY DEF StationInit, Init, NoEvent, ReportedIsWhole
<1>. QED
  BY <1>1, InitStation, NextStation, StationReports, PTL DEF StationSpec

-----------------------------------------------------------------------------
(***************************************************************************)
(* A listener that remembers the best that was heard: what is kept of the  *)
(* text and of the name is always the best, with no group forgotten.  The  *)
(* invariant adds to BestIsKept that the qualities agree and that of what  *)
(* was not seen nothing was heard.                                         *)
(***************************************************************************)
IsBest(best) == best.quality \in Nat /\ best = [quality |-> best.quality, pieces |-> best.pieces]

TextHeard(rt, best) ==
    /\ DOMAIN best = TextPositions
    /\ rt.seen \subseteq TextPositions
    /\ \A i \in TextPositions :
          /\ IsBest(best[i])
          /\ IF i \in rt.seen
             THEN rt.quality[i] = best[i].quality /\ rt.text[i] \in best[i].pieces
             ELSE best[i] = Nothing

\* The piece is in the text at segment s, but for blanks that were cut off.
Stands(text, s, piece) ==
    \A k \in 0..(CharsPerBlock - 1) :
        \/ text[s * CharsPerBlock + k] = piece[k]
        \/ piece[k] = "blank" /\ text[s * CharsPerBlock + k] = "nul"

NameHeard(name, best) ==
    /\ DOMAIN best = 0..(PsSegments - 1)
    /\ DOMAIN name.text = PsPositions
    /\ DOMAIN name.quality = 0..(PsSegments - 1)
    /\ name.seen \subseteq 0..(PsSegments - 1)
    /\ \A s \in 0..(PsSegments - 1) :
          /\ IsBest(best[s])
          /\ \A piece \in best[s].pieces : DOMAIN piece = 0..(CharsPerBlock - 1)
          /\ IF s \in name.seen
             THEN /\ name.quality[s] = best[s].quality
                  /\ \E piece \in best[s].pieces : Stands(name.text, s, piece)
             ELSE best[s] = Nothing

ListenerInvariant == TextHeard(radiotext, heard_text) /\ NameHeard(ps, heard_ps)

\* Nothing is the least that can be heard.
LEMMA NothingIsBest == IsBest(Nothing) /\ Nothing.quality = 0 /\ Nothing.pieces = {}
BY DEF IsBest, Nothing

LEMMA HearsIsBest ==
    ASSUME NEW best, IsBest(best), NEW piece, NEW q \in Nat
    PROVE  /\ IsBest(Hears(best, piece, q))
           /\ q > best.quality => Hears(best, piece, q) = [quality |-> q, pieces |-> {piece}]
           /\ q = best.quality => Hears(best, piece, q)
                                    = [quality |-> q, pieces |-> best.pieces \cup {piece}]
           /\ q < best.quality => Hears(best, piece, q) = best
<1>1. ASSUME q > best.quality
      PROVE  Hears(best, piece, q) = [quality |-> q, pieces |-> {piece}]
  BY <1>1 DEF Hears, IsBest
<1>2. ASSUME q = best.quality
      PROVE  Hears(best, piece, q) = [quality |-> q, pieces |-> best.pieces \cup {piece}]
  <2>1. Hears(best, piece, q) = [best EXCEPT !.pieces = @ \cup {piece}]
    BY <1>2 DEF Hears, IsBest
  <2>. QED  BY <1>2, <2>1 DEF IsBest
<1>3. ASSUME q < best.quality
      PROVE  Hears(best, piece, q) = best
  BY <1>3 DEF Hears, IsBest
<1>4. IsBest(Hears(best, piece, q))
  <2>1. q > best.quality \/ q = best.quality \/ q < best.quality
    BY DEF IsBest
  <2>2. \A z : IsBest([quality |-> q, pieces |-> z])
    BY DEF IsBest
  <2>. QED  BY <1>1, <1>2, <1>3, <2>1, <2>2
<1>. QED  BY <1>1, <1>2, <1>3, <1>4

\* What a piece does to the best that was heard.
LEMMA PieceIsBest ==
    ASSUME NEW best, IsBest(best), NEW new, NEW q \in Nat
    PROVE  /\ best = Nothing =>
                 Hears(best, new, q).quality = q /\ new \in Hears(best, new, q).pieces
           /\ q >= best.quality =>
                 Hears(best, new, q).quality = q /\ new \in Hears(best, new, q).pieces
           /\ q <= best.quality => /\ Hears(best, new, q).quality = best.quality
                                   /\ best.pieces \subseteq Hears(best, new, q).pieces
<1>. DEFINE h == Hears(best, new, q)
<1>1. /\ q > best.quality => h.quality = q /\ new \in h.pieces
      /\ q = best.quality => h.quality = q /\ new \in h.pieces /\ best.pieces \subseteq h.pieces
      /\ q < best.quality => h.quality = best.quality /\ h.pieces = best.pieces
  BY HearsIsBest
<1>2. best.quality \in Nat
  BY DEF IsBest
<1>. HIDE DEF h
<1>3. best = Nothing => h.quality = q /\ new \in h.pieces
  BY <1>1, <1>2, NothingIsBest
<1>4. q >= best.quality => h.quality = q /\ new \in h.pieces
  BY <1>1, <1>2
<1>5. q <= best.quality => h.quality = best.quality /\ best.pieces \subseteq h.pieces
  BY <1>1, <1>2
<1>. QED  BY <1>3, <1>4, <1>5 DEF h

HeardAt(best, position, size, chars, q) ==
    [i \in TextPositions |->
        IF i \in position..(position + size - 1)
        THEN Hears(best[i], rds_sanitize_char(chars[i - position]), q)
        ELSE best[i]]

\* The characters of a group, heard and collected.
LEMMA UpdateIsBest ==
    ASSUME NEW old, NEW best, TextHeard(old, best),
           NEW position \in Nat, NEW size \in Nat, NEW chars, NEW q \in Nat,
           DOMAIN chars = 0..(size - 1), position + size <= Room
    PROVE  TextHeard(rds_update_radiotext_chars(old, position, chars, q),
                     HeardAt(best, position, size, chars, q))
<1>. DEFINE new(i) == rds_sanitize_char(chars[i - position])
            place == position..(position + size - 1)
            Takes(i) == Replaces(i \in old.seen, old.text[i] = new(i), q, old.quality[i])
            taken == {i \in place : Takes(i)}
            after == rds_update_radiotext_chars(old, position, chars, q)
            bestAfter == [i \in TextPositions |-> IF i \in place THEN Hears(best[i], new(i), q)
                                                  ELSE best[i]]
<1>1. Cardinality(DOMAIN chars) = size
  BY CountUpTo
<1>2. after = [text |-> [i \in TextPositions |-> IF i \in taken THEN new(i) ELSE old.text[i]],
               seen |-> old.seen \cup taken,
               quality |-> [i \in TextPositions |->
                               IF i \in taken THEN KeptQuality(i \in old.seen, q, old.quality[i])
                               ELSE old.quality[i]]]
  BY <1>1 DEF rds_update_radiotext_chars
<1>3. place \subseteq TextPositions
  BY RoomIsSize
<1>. HIDE DEF after
<1>4. ASSUME NEW i \in TextPositions
      PROVE  /\ IsBest(bestAfter[i])
             /\ IF i \in after.seen
                THEN after.quality[i] = bestAfter[i].quality /\ after.text[i] \in bestAfter[i].pieces
                ELSE bestAfter[i] = Nothing
  <2>1. /\ IsBest(best[i])
        /\ i \in old.seen => old.quality[i] = best[i].quality /\ old.text[i] \in best[i].pieces
        /\ i \notin old.seen => best[i] = Nothing
    BY DEF TextHeard
  <2>2. CASE i \in place
    <3>1. bestAfter[i] = Hears(best[i], new(i), q)
      BY <2>2
    <3>2. /\ i \in old.seen \/ Takes(i)
          /\ Takes(i) => /\ KeptQuality(i \in old.seen, q, old.quality[i])
                              = Hears(best[i], new(i), q).quality
                         /\ new(i) \in Hears(best[i], new(i), q).pieces
          /\ ~Takes(i) => /\ old.quality[i] = Hears(best[i], new(i), q).quality
                          /\ old.text[i] \in Hears(best[i], new(i), q).pieces
      <4>. DEFINE one == best[i]
                  kept == old.quality[i]
                  char == old.text[i]
                  fresh == new(i)
      <4>1. /\ Takes(i) <=> ~(i \in old.seen /\ char # fresh /\ q < kept)
            /\ KeptQuality(i \in old.seen, q, kept)
                 = IF i \notin old.seen \/ q > kept THEN q ELSE kept
        BY DEF Replaces, KeptQuality
      <4>2. /\ IsBest(one)
            /\ i \in old.seen => kept = one.quality /\ char \in one.pieces
            /\ i \notin old.seen => one = Nothing
        BY <2>1
      <4>3. i \in old.seen => kept \in Nat
        BY <4>2 DEF IsBest
      <4>. HIDE DEF one, kept, char, fresh
      <4>4. /\ one = Nothing =>
                  Hears(one, fresh, q).quality = q /\ fresh \in Hears(one, fresh, q).pieces
            /\ q >= one.quality =>
                  Hears(one, fresh, q).quality = q /\ fresh \in Hears(one, fresh, q).pieces
            /\ q <= one.quality => /\ Hears(one, fresh, q).quality = one.quality
                                   /\ one.pieces \subseteq Hears(one, fresh, q).pieces
        BY <4>2, PieceIsBest
      <4>. HIDE DEF Takes
      <4>5. Takes(i) => /\ KeptQuality(i \in old.seen, q, kept) = Hears(one, fresh, q).quality
                        /\ fresh \in Hears(one, fresh, q).pieces
        <5>1. CASE i \in old.seen /\ q < kept
          BY <4>1, <4>2, <4>3, <4>4, <5>1
        <5>2. CASE i \in old.seen /\ ~(q < kept)
          BY <4>1, <4>2, <4>3, <4>4, <5>2
        <5>3. CASE i \notin old.seen
          BY <4>1, <4>2, <4>4, <5>3
        <5>. QED  BY <5>1, <5>2, <5>3
      <4>6. ~Takes(i) => /\ i \in old.seen
                         /\ kept = Hears(one, fresh, q).quality
                         /\ char \in Hears(one, fresh, q).pieces
        BY <4>1, <4>2, <4>3, <4>4
      <4>. QED  BY <4>5, <4>6 DEF one, kept, char, fresh
    <3>3. IsBest(Hears(best[i], new(i), q))
      BY <2>1, HearsIsBest
    <3>4. i \in taken <=> Takes(i)
      BY <2>2
    <3>. HIDE DEF Takes, new, taken, bestAfter
    <3>5. /\ i \in after.seen
          /\ after.quality[i] = IF Takes(i) THEN KeptQuality(i \in old.seen, q, old.quality[i])
                                ELSE old.quality[i]
          /\ after.text[i] = IF Takes(i) THEN new(i) ELSE old.text[i]
      BY <1>2, <3>2, <3>4
    <3>. QED  BY <3>1, <3>2, <3>3, <3>5
  <2>3. CASE i \notin place
    <3>1. bestAfter[i] = best[i] /\ i \notin taken
      BY <2>3
    <3>. HIDE DEF Takes, new, taken, bestAfter
    <3>2. /\ i \in after.seen <=> i \in old.seen
          /\ after.quality[i] = old.quality[i] /\ after.text[i] = old.text[i]
      BY <1>2, <3>1
    <3>. QED  BY <2>1, <3>1, <3>2
  <2>. QED  BY <2>2, <2>3
<1>5. after.seen \subseteq TextPositions
  BY <1>2, <1>3 DEF TextHeard
<1>6. TextHeard(after, bestAfter)
  <2>1. DOMAIN bestAfter = TextPositions
    OBVIOUS
  <2>. HIDE DEF bestAfter
  <2>. QED  BY <1>4, <1>5, <2>1 DEF TextHeard
<1>. QED  BY <1>6 DEF after, HeardAt

LEMMA Quotient ==
    ASSUME NEW i \in Nat, NEW p \in Nat \ {0}, NEW n \in Nat
    PROVE  /\ i \div p = n <=> i \in (n * p)..(n * p + p - 1)
           /\ i \div p = n => i % p = i - n * p
<1>. DEFINE d == i \div p
            r == i % p
<1>1. d \in Nat /\ r \in 0..(p - 1) /\ i = d * p + r
  OBVIOUS
<1>. HIDE DEF d, r
<1>2. ASSUME d < n
      PROVE  i < n * p
  <2>1. (d + 1) * p <= n * p
    BY <1>1, <1>2
  <2>. QED  BY <1>1, <2>1
<1>3. ASSUME d > n
      PROVE  i >= n * p + p
  <2>1. (n + 1) * p <= d * p
    BY <1>1, <1>3
  <2>. QED  BY <1>1, <2>1
<1>4. ASSUME d = n
      PROVE  i \in (n * p)..(n * p + p - 1) /\ r = i - n * p
  BY <1>1, <1>4
<1>5. i \in (n * p)..(n * p + p - 1) => d = n
  <2>1. n * p \in Nat
    OBVIOUS
  <2>. QED  BY <1>1, <1>2, <1>3, <2>1
<1>. QED  BY <1>4, <1>5 DEF d, r

LEMMA QualityIsNat ==
    ASSUME NEW g \in Inputs, NEW numbers
    PROVE  Quality(g, numbers) \in Nat
<1>1. ASSUME NEW block \in Blocks
      PROVE  rds_block_quality(block) \in Nat
  <2>1. block.corrected_bit_count \in Nat /\ block.confidence \in Nat
    BY DEF Blocks
  <2>2. \A a, b \in Nat : (12 * a) \div (1 + b) \in Nat
    OBVIOUS
  <2>. QED  BY <2>1, <2>2 DEF rds_block_quality
<1>2. \A n \in 1..3 : g.blocks[n] \in Blocks
  BY InputsAssumption
<1>3. \A n \in 1..3 : rds_block_quality(g.blocks[n]) \in Nat
  BY <1>1, <1>2
<1>. QED  BY <1>3 DEF Quality

LEMMA NoTextIsHeard == TextHeard(NoText, [i \in TextPositions |-> Nothing])
BY NothingIsBest, NoTextIsEmpty DEF TextHeard

\* A group of the text.
LEMMA TextIsHeard ==
    ASSUME NEW g \in Inputs, g.type = 2, TextHeard(radiotext, heard_text),
           UpdateText(g), Listen(g)
    PROVE  TextHeard(radiotext', heard_text')
<1>. DEFINE old == TextBefore(g)
            before == IF radiotext_ab = g.ab THEN heard_text
                      ELSE [i \in TextPositions |-> Nothing]
            size == Cardinality(TextBlocks(g)) * CharsPerBlock
            byte(k) == IF g.version = "A" /\ k < CharsPerBlock THEN g.chars[2][k]
                       ELSE g.chars[3][k % CharsPerBlock]
            numbers == {1} \cup TextBlocks(g)
            q == Quality(g, numbers)
<1>1. TextHeard(old, before)
  BY NoTextIsHeard DEF TextBefore
<1>2. /\ heard_text' = [i \in TextPositions |->
                            IF Usable(g, numbers) /\ i \div size = g.segment
                            THEN Hears(before[i], rds_sanitize_char(byte(i % size)), q)
                            ELSE before[i]]
      /\ radiotext' = TextAfter(g)
  BY DEF Listen, UpdateText
<1>3. q \in Nat
  BY QualityIsNat
<1>4. g.segment \in 0..(TextSegments - 1) /\ g.version \in {"A", "B"}
  BY InputsAssumption
<1>5. CharsPerBlock \in Nat \ {0} /\ TextSegments \in Nat \ {0}
  BY ParserAssumption
<1>6. CASE ~Usable(g, numbers)
  <2>1. radiotext' = old
    <3>1. g.version = "A" => numbers = {1, 2, 3}
      BY DEF TextBlocks
    <3>2. g.version = "B" => numbers = {1, 3}
      BY DEF TextBlocks
    <3>. QED  BY <1>2, <1>6, <3>1, <3>2 DEF TextAfter
  <2>2. heard_text' = [i \in TextPositions |-> before[i]]
    BY <1>2, <1>6
  <2>3. DOMAIN heard_text' = TextPositions /\ \A i \in TextPositions : heard_text'[i] = before[i]
    BY <2>2
  <2>. HIDE DEF old, before
  <2>. QED  BY <1>1, <2>1, <2>3 DEF TextHeard
<1>7. ASSUME Usable(g, numbers), NEW chars, DOMAIN chars = 0..(size - 1), size \in Nat \ {0},
             \A k \in 0..(size - 1) : chars[k] = byte(k),
             g.segment * size + size <= Room,
             radiotext' = rds_update_radiotext_chars(old, g.segment * size, chars, q)
      PROVE  TextHeard(radiotext', heard_text')
  <2>1. heard_text' = HeardAt(before, g.segment * size, size, chars, q)
    <3>. DEFINE place == (g.segment * size)..(g.segment * size + size - 1)
    <3>1. \A i \in TextPositions : i \in Nat
      BY DEF TextPositions
    <3>. HIDE DEF size
    <3>2. \A i \in TextPositions :
             /\ i \div size = g.segment <=> i \in place
             /\ i \div size = g.segment => i % size = i - g.segment * size
      <4>1. g.segment \in Nat /\ size \in Nat \ {0}
        BY <1>4, <1>5, <1>7
      <4>. TAKE i \in TextPositions
      <4>2. i \in Nat
        BY <3>1
      <4>. QED  BY <4>1, <4>2, Quotient
    <3>3. \A i \in TextPositions : i \in place => i - g.segment * size \in 0..(size - 1)
      BY <1>4, <1>7
    <3>. HIDE DEF byte, before, q, place
    <3>4. ASSUME NEW i \in TextPositions
          PROVE  (IF Usable(g, numbers) /\ i \div size = g.segment
                  THEN Hears(before[i], rds_sanitize_char(byte(i % size)), q)
                  ELSE before[i])
                 = (IF i \in place
                    THEN Hears(before[i], rds_sanitize_char(chars[i - g.segment * size]), q)
                    ELSE before[i])
      BY <1>7, <3>2, <3>3
    <3>5. heard_text' = [i \in TextPositions |->
                            IF i \in place
                            THEN Hears(before[i], rds_sanitize_char(chars[i - g.segment * size]),
                                       q)
                            ELSE before[i]]
      BY <1>2, <3>4
    <3>. QED  BY <3>5 DEF HeardAt, place
  <2>2. g.segment * size \in Nat
    BY <1>4, <1>7
  <2>. HIDE DEF old, before, size, q, byte
  <2>. QED  BY <1>1, <1>3, <1>7, <2>1, <2>2, UpdateIsBest
<1>8. CASE Usable(g, numbers) /\ g.version = "A"
  <2>. DEFINE both == [i \in 0..(2 * CharsPerBlock - 1) |->
                          IF i < CharsPerBlock THEN g.chars[2][i] ELSE g.chars[3][i - CharsPerBlock]]
  <2>1. TextBlocks(g) = {2, 3} /\ numbers = {1, 2, 3}
    BY <1>8 DEF TextBlocks
  <2>2. size = 2 * CharsPerBlock
    <3>1. Cardinality({3}) = 1 /\ IsFiniteSet({3})
      BY FS_Singleton
    <3>2. Cardinality({3} \cup {2}) = 2
      BY <3>1, FS_AddElement
    <3>3. {3} \cup {2} = {2, 3}
      OBVIOUS
    <3>. QED  BY <1>5, <2>1, <3>2, <3>3
  <2>3. \A k \in 0..(2 * CharsPerBlock - 1) : both[k] = byte(k)
    <3>1. \A k \in CharsPerBlock..(2 * CharsPerBlock - 1) : k % CharsPerBlock = k - CharsPerBlock
      <4>1. \A k \in CharsPerBlock..(2 * CharsPerBlock - 1) :
               k \in Nat /\ k \in (1 * CharsPerBlock)..(1 * CharsPerBlock + CharsPerBlock - 1)
        BY <1>5
      <4>2. \A k \in CharsPerBlock..(2 * CharsPerBlock - 1) :
               k % CharsPerBlock = k - 1 * CharsPerBlock
        BY <1>5, <4>1, Quotient
      <4>. QED  BY <1>5, <4>2
    <3>. QED  BY <1>5, <1>8, <3>1
  <2>4. g.segment * size + size <= Room
    BY <1>4, <1>5, <2>2, SegmentRoom DEF Room
  <2>5. g.segment * 2 * CharsPerBlock = g.segment * size
    BY <1>4, <1>5, <2>2
  <2>6. radiotext' = rds_update_radiotext_chars(old, g.segment * size, both, q)
    BY <1>2, <1>8, <2>1, <2>5 DEF TextAfter
  <2>7. DOMAIN both = 0..(size - 1) /\ size \in Nat \ {0}
    BY <1>5, <2>2
  <2>. HIDE DEF both, byte, old, q, numbers, size
  <2>. QED  BY <1>7, <1>8, <2>2, <2>3, <2>4, <2>6, <2>7
<1>9. CASE Usable(g, numbers) /\ g.version = "B"
  <2>1. TextBlocks(g) = {3} /\ numbers = {1, 3}
    BY <1>9 DEF TextBlocks
  <2>2. size = CharsPerBlock
    <3>1. Cardinality({3}) = 1
      BY FS_Singleton
    <3>. QED  BY <1>5, <2>1, <3>1
  <2>3. \A k \in 0..(CharsPerBlock - 1) : g.chars[3][k] = byte(k)
    <3>1. \A k \in 0..(CharsPerBlock - 1) : k % CharsPerBlock = k
      BY <1>5
    <3>. QED  BY <1>9, <3>1
  <2>4. g.segment * size + size <= Room
    BY <1>4, <1>5, <2>2, SegmentRoom DEF Room
  <2>6. radiotext' = rds_update_radiotext_chars(old, g.segment * size, g.chars[3], q)
    BY <1>2, <1>9, <2>1, <2>2 DEF TextAfter
  <2>7. DOMAIN g.chars[3] = 0..(size - 1) /\ size \in Nat \ {0}
    BY <1>5, <2>2, InputsAssumption
  <2>. HIDE DEF byte, old, q, numbers, size
  <2>. QED  BY <1>7, <1>9, <2>2, <2>3, <2>4, <2>6, <2>7
<1>. QED  BY <1>4, <1>6, <1>8, <1>9

-----------------------------------------------------------------------------
\* A name's end may come anywhere, and blanks before it are cut off.
LEMMA TrimOnlyCutsBlanks ==
    ASSUME NEW text, DOMAIN text = PsPositions, NEW i \in PsPositions
    PROVE  \/ rds_trim_string(text)[i] = text[i]
           \/ text[i] = "blank" /\ rds_trim_string(text)[i] = "nul"
<1>. DEFINE size == PsSegments * CharsPerBlock
            ends == {j \in DOMAIN text : text[j] = "nul"} \cup {Cardinality(DOMAIN text)}
<1>1. PsSegments \in Nat /\ CharsPerBlock \in Nat
  BY Sizes
<1>2. size \in Nat
  BY <1>1
<1>3. PsPositions = 0..(size - 1)
  BY DEF PsPositions
<1>. HIDE DEF size
<1>4. Cardinality(DOMAIN text) = size
  BY <1>2, <1>3, CountUpTo
<1>5. ends \in SUBSET Nat /\ ends # {}
  BY <1>2, <1>3, <1>4
<1>. HIDE DEF ends
<1>6. Min(ends) \in Nat
  BY <1>5, LeastExists
<1>7. StrLen(text) \in Nat
  BY <1>6 DEF StrLen, ends
<1>8. rds_trim_string(text)[i] =
         IF \A j \in i..(StrLen(text) - 1) : text[j] = "blank"
         THEN IF i < StrLen(text) THEN "nul" ELSE text[i]
         ELSE text[i]
  BY DEF rds_trim_string
<1>9. i < StrLen(text) => i \in i..(StrLen(text) - 1)
  BY <1>2, <1>3, <1>7
<1>. QED  BY <1>8, <1>9

\* The place of a segment of the name, and no place of another.
LEMMA SegmentsApart ==
    ASSUME NEW s \in 0..(PsSegments - 1), NEW k \in 0..(CharsPerBlock - 1),
           NEW t \in 0..(PsSegments - 1)
    PROVE  /\ s * CharsPerBlock + k \in PsPositions
           /\ s # t => s * CharsPerBlock + k \notin
                          (t * CharsPerBlock)..(t * CharsPerBlock + CharsPerBlock - 1)
           /\ s * CharsPerBlock + k \in
                 (s * CharsPerBlock)..(s * CharsPerBlock + CharsPerBlock - 1)
           /\ (s * CharsPerBlock + k) - s * CharsPerBlock = k
<1>. DEFINE c == CharsPerBlock
            i == s * CharsPerBlock + k
<1>1. c \in Nat \ {0} /\ PsSegments \in Nat /\ s \in Nat /\ t \in Nat
  BY Sizes
<1>2. s * c \in Nat /\ t * c \in Nat
  BY <1>1
<1>3. i \in Nat /\ i \in (s * c)..(s * c + c - 1) /\ i - s * c = k
  BY <1>1, <1>2
<1>4. s * c + c <= PsSegments * c
  BY <1>1, SegmentRoom
<1>5. i \in PsPositions
  BY <1>1, <1>2, <1>3, <1>4 DEF PsPositions
<1>6. ASSUME i \in (t * c)..(t * c + c - 1)
      PROVE  s = t
  <2>. HIDE DEF i, c
  <2>1. i \in Nat
    BY <1>3
  <2>2. i \div c = s <=> i \in (s * c)..(s * c + c - 1)
    BY <1>1, <2>1, Quotient
  <2>3. i \div c = t <=> i \in (t * c)..(t * c + c - 1)
    BY <1>1, <2>1, Quotient
  <2>. QED  BY <1>3, <1>6, <2>2, <2>3
<1>. QED  BY <1>3, <1>5, <1>6

\* What stands in a name still does when its blanks are cut off.
LEMMA TrimmedStillStands ==
    ASSUME NEW text, DOMAIN text = PsPositions, NEW s \in 0..(PsSegments - 1), NEW piece,
           Stands(text, s, piece)
    PROVE  Stands(rds_trim_string(text), s, piece)
<1>. SUFFICES ASSUME NEW k \in 0..(CharsPerBlock - 1)
              PROVE  \/ rds_trim_string(text)[s * CharsPerBlock + k] = piece[k]
                     \/ /\ piece[k] = "blank"
                        /\ rds_trim_string(text)[s * CharsPerBlock + k] = "nul"
  BY DEF Stands
<1>. DEFINE i == s * CharsPerBlock + k
<1>1. i \in PsPositions
  BY SegmentsApart
<1>2. text[i] = piece[k] \/ (piece[k] = "blank" /\ text[i] = "nul")
  BY DEF Stands
<1>. HIDE DEF i
<1>3. \/ rds_trim_string(text)[i] = text[i]
      \/ text[i] = "blank" /\ rds_trim_string(text)[i] = "nul"
  BY <1>1, TrimOnlyCutsBlanks
<1>4. \/ rds_trim_string(text)[i] = piece[k]
      \/ piece[k] = "blank" /\ rds_trim_string(text)[i] = "nul"
  BY <1>2, <1>3
<1>. QED  BY <1>4 DEF i

\* A group of the name.
LEMMA NameIsHeard ==
    ASSUME NEW g \in Inputs, g.type = 0, NameHeard(ps, heard_ps), UpdatePs(g), Listen(g)
    PROVE  NameHeard(ps', heard_ps')
<1>. DEFINE t == g.segment
            first == t * CharsPerBlock
            place == first..(first + CharsPerBlock - 1)
            new(i) == rds_sanitize_char(g.chars[3][i - first])
            piece == [k \in 0..(CharsPerBlock - 1) |-> rds_sanitize_char(g.chars[3][k])]
            q == Quality(g, {1, 3})
            kept == ps.quality[t]
            best == heard_ps[t]
            same == \A i \in place : ps.text[i] = new(i)
            mixed == [i \in PsPositions |-> IF i \in place THEN new(i) ELSE ps.text[i]]
            Taken == Replaces(t \in ps.seen, same, q, kept)
<1>1. t \in 0..(PsSegments - 1) /\ q \in Nat
  BY InputsAssumption, QualityIsNat
<1>2. CASE ~Usable(g, {1, 3})
  BY <1>2 DEF UpdatePs, Listen
<1>3. CASE Usable(g, {1, 3})
  <2>1. heard_ps' = [heard_ps EXCEPT ![t] = Hears(best, piece, q)]
    BY <1>3 DEF Listen
  <2>2. /\ ~Taken => ps' = ps
        /\ Taken => ps' = [text |-> rds_trim_string(mixed), seen |-> ps.seen \cup {t},
                           quality |-> [ps.quality EXCEPT
                                           ![t] = KeptQuality(t \in ps.seen, q, kept)]]
    BY <1>3 DEF UpdatePs, rds_update_ps
  <2>3. /\ Taken <=> ~(t \in ps.seen /\ ~same /\ q < kept)
        /\ KeptQuality(t \in ps.seen, q, kept) = IF t \notin ps.seen \/ q > kept THEN q ELSE kept
    BY DEF Replaces, KeptQuality
  <2>4. /\ IsBest(best)
        /\ \A p \in best.pieces : DOMAIN p = 0..(CharsPerBlock - 1)
        /\ t \in ps.seen => /\ kept = best.quality
                            /\ \E p \in best.pieces : Stands(ps.text, t, p)
        /\ t \notin ps.seen => best = Nothing
    BY <1>1 DEF NameHeard
  <2>5. best.quality \in Nat
    BY <2>4 DEF IsBest
  <2>6. DOMAIN mixed = PsPositions /\ DOMAIN piece = 0..(CharsPerBlock - 1)
    OBVIOUS
  <2>7. \A s \in 0..(PsSegments - 1), k \in 0..(CharsPerBlock - 1) :
           mixed[s * CharsPerBlock + k]
             = IF s = t THEN piece[k] ELSE ps.text[s * CharsPerBlock + k]
    <3>. TAKE s \in 0..(PsSegments - 1), k \in 0..(CharsPerBlock - 1)
    <3>1. /\ s * CharsPerBlock + k \in PsPositions
          /\ s # t => s * CharsPerBlock + k \notin place
          /\ s * CharsPerBlock + k \in
                (s * CharsPerBlock)..(s * CharsPerBlock + CharsPerBlock - 1)
          /\ (s * CharsPerBlock + k) - s * CharsPerBlock = k
      BY <1>1, SegmentsApart
    <3>2. CASE s = t
      BY <3>1, <3>2
    <3>3. CASE s # t
      BY <3>1, <3>3
    <3>. QED  BY <3>2, <3>3
  <2>8. same => \A k \in 0..(CharsPerBlock - 1) :
                   ps.text[t * CharsPerBlock + k] = mixed[t * CharsPerBlock + k]
    <3>. SUFFICES ASSUME same, NEW k \in 0..(CharsPerBlock - 1)
                  PROVE  ps.text[t * CharsPerBlock + k] = mixed[t * CharsPerBlock + k]
      OBVIOUS
    <3>1. t * CharsPerBlock + k \in PsPositions /\ t * CharsPerBlock + k \in place
      BY <1>1, SegmentsApart
    <3>. QED  BY <3>1
  <2>. HIDE DEF mixed, piece, q, kept, same, best, new, place, Taken
  <2>9. Stands(mixed, t, piece)
    BY <1>1, <2>7 DEF Stands
  <2>10. \A s \in 0..(PsSegments - 1) : \A p :
            (s # t \/ same) /\ Stands(ps.text, s, p) => Stands(mixed, s, p)
    BY <2>7, <2>8 DEF Stands
  <2>11. \A s \in 0..(PsSegments - 1) : \A p :
            Stands(mixed, s, p) => Stands(rds_trim_string(mixed), s, p)
    BY <2>6, TrimmedStillStands
  <2>12. /\ best = Nothing =>
               Hears(best, piece, q).quality = q /\ piece \in Hears(best, piece, q).pieces
         /\ q >= best.quality =>
               Hears(best, piece, q).quality = q /\ piece \in Hears(best, piece, q).pieces
         /\ q <= best.quality => /\ Hears(best, piece, q).quality = best.quality
                                 /\ best.pieces \subseteq Hears(best, piece, q).pieces
    BY <1>1, <2>4, PieceIsBest
  <2>13. /\ IsBest(Hears(best, piece, q))
         /\ \A p \in Hears(best, piece, q).pieces : DOMAIN p = 0..(CharsPerBlock - 1)
    <3>1. Hears(best, piece, q).pieces \subseteq best.pieces \cup {piece}
      BY <1>1, <2>4, <2>5, HearsIsBest
    <3>. QED  BY <1>1, <2>4, <2>6, <3>1, HearsIsBest
  <2>14. DOMAIN heard_ps' = 0..(PsSegments - 1)
    BY <2>1 DEF NameHeard
  <2>15. heard_ps'[t] = Hears(best, piece, q)
         /\ \A s \in 0..(PsSegments - 1) : s # t => heard_ps'[s] = heard_ps[s]
    BY <1>1, <2>1 DEF NameHeard
  <2>16. CASE ~Taken
    <3>1. t \in ps.seen /\ q < best.quality /\ ps' = ps
      BY <2>2, <2>3, <2>4, <2>16
    <3>2. heard_ps'[t] = heard_ps[t]
      BY <1>1, <2>4, <2>15, <3>1, HearsIsBest DEF best
    <3>3. \A s \in 0..(PsSegments - 1) : heard_ps'[s] = heard_ps[s]
      BY <2>15, <3>2
    <3>. QED  BY <2>14, <3>1, <3>3 DEF NameHeard
  <2>17. CASE Taken
    <3>. DEFINE quality == KeptQuality(t \in ps.seen, q, kept)
    <3>a. ps' = [text |-> rds_trim_string(mixed), seen |-> ps.seen \cup {t},
                 quality |-> [ps.quality EXCEPT ![t] = quality]]
      BY <2>2, <2>17
    <3>b. quality = IF t \notin ps.seen \/ q > kept THEN q ELSE kept
      BY <2>3
    <3>. HIDE DEF quality
    <3>1. /\ ps'.text = rds_trim_string(mixed)
          /\ ps'.seen = ps.seen \cup {t}
          /\ DOMAIN ps'.quality = 0..(PsSegments - 1)
          /\ ps'.quality[t] = IF t \notin ps.seen \/ q > kept THEN q ELSE kept
          /\ \A s \in 0..(PsSegments - 1) : s # t => ps'.quality[s] = ps.quality[s]
      BY <1>1, <3>a, <3>b DEF NameHeard
    <3>2. DOMAIN ps'.text = PsPositions
      BY <2>6, <3>1 DEF rds_trim_string
    <3>3. /\ ps'.quality[t] = heard_ps'[t].quality
          /\ \E p \in heard_ps'[t].pieces : Stands(ps'.text, t, p)
      <4>. DEFINE h == heard_ps'[t]
      <4>1. CASE t \notin ps.seen
        <5>1. h.quality = q /\ piece \in h.pieces
          BY <2>4, <2>12, <2>15, <4>1
        <5>. QED  BY <1>1, <2>9, <2>11, <3>1, <4>1, <5>1
      <4>2. CASE t \in ps.seen /\ q >= best.quality
        <5>1. h.quality = q /\ piece \in h.pieces
          BY <2>12, <2>15, <4>2
        <5>2. ps'.quality[t] = q
          BY <1>1, <2>4, <2>5, <3>1, <4>2
        <5>. QED  BY <1>1, <2>9, <2>11, <3>1, <5>1, <5>2
      <4>3. CASE t \in ps.seen /\ q < best.quality
        <5>1. same /\ ps'.quality[t] = best.quality
          BY <1>1, <2>3, <2>4, <2>5, <2>17, <3>1, <4>3
        <5>2. h.quality = best.quality /\ best.pieces \subseteq h.pieces
          BY <1>1, <2>5, <2>12, <2>15, <4>3
        <5>3. PICK p \in best.pieces : Stands(ps.text, t, p)
          BY <2>4, <4>3
        <5>4. Stands(ps'.text, t, p)
          BY <1>1, <2>10, <2>11, <3>1, <5>1, <5>3
        <5>. QED  BY <5>1, <5>2, <5>3, <5>4
      <4>. QED  BY <1>1, <2>5, <4>1, <4>2, <4>3
    <3>4. ASSUME NEW s \in 0..(PsSegments - 1), s # t
          PROVE  /\ IsBest(heard_ps'[s])
                 /\ \A p \in heard_ps'[s].pieces : DOMAIN p = 0..(CharsPerBlock - 1)
                 /\ IF s \in ps'.seen
                    THEN /\ ps'.quality[s] = heard_ps'[s].quality
                         /\ \E p \in heard_ps'[s].pieces : Stands(ps'.text, s, p)
                    ELSE heard_ps'[s] = Nothing
      <4>1. /\ IsBest(heard_ps[s])
            /\ \A p \in heard_ps[s].pieces : DOMAIN p = 0..(CharsPerBlock - 1)
            /\ IF s \in ps.seen
               THEN /\ ps.quality[s] = heard_ps[s].quality
                    /\ \E p \in heard_ps[s].pieces : Stands(ps.text, s, p)
               ELSE heard_ps[s] = Nothing
        BY DEF NameHeard
      <4>2. heard_ps'[s] = heard_ps[s] /\ ps'.quality[s] = ps.quality[s]
            /\ (s \in ps'.seen <=> s \in ps.seen)
        BY <2>15, <3>1, <3>4
      <4>3. \A p : Stands(ps.text, s, p) => Stands(ps'.text, s, p)
        BY <2>10, <2>11, <3>1, <3>4
      <4>. QED  BY <4>1, <4>2, <4>3
    <3>5. t \in ps'.seen /\ ps'.seen \subseteq 0..(PsSegments - 1)
      BY <1>1, <3>1 DEF NameHeard
    <3>6. ASSUME NEW s \in 0..(PsSegments - 1)
          PROVE  /\ IsBest(heard_ps'[s])
                 /\ \A p \in heard_ps'[s].pieces : DOMAIN p = 0..(CharsPerBlock - 1)
                 /\ IF s \in ps'.seen
                    THEN /\ ps'.quality[s] = heard_ps'[s].quality
                         /\ \E p \in heard_ps'[s].pieces : Stands(ps'.text, s, p)
                    ELSE heard_ps'[s] = Nothing
      <4>1. CASE s = t
        BY <2>13, <2>15, <3>3, <3>5, <4>1
      <4>2. CASE s # t
        BY <3>4, <4>2
      <4>. QED  BY <4>1, <4>2
    <3>. QED  BY <2>14, <3>1, <3>2, <3>5, <3>6 DEF NameHeard
  <2>. QED  BY <2>16, <2>17
<1>. QED  BY <1>2, <1>3

-----------------------------------------------------------------------------
LEMMA InitListener == ListenerInit => ListenerInvariant
<1>. SUFFICES ASSUME ListenerInit PROVE ListenerInvariant
  OBVIOUS
<1>1. TextHeard(radiotext, heard_text)
  BY NoTextIsHeard DEF ListenerInit, Init
<1>2. NameHeard(ps, heard_ps)
  BY NothingIsBest DEF ListenerInit, Init, NoPs, NameHeard
<1>. QED  BY <1>1, <1>2 DEF ListenerInvariant

LEMMA NextListener == ListenerInvariant /\ [ListenerNext]_listenerVars => ListenerInvariant'
<1>. SUFFICES ASSUME ListenerInvariant, [ListenerNext]_listenerVars PROVE ListenerInvariant'
  OBVIOUS
<1>1. CASE UNCHANGED listenerVars
  BY <1>1 DEF listenerVars, vars, ListenerInvariant
<1>2. ASSUME NEW g \in Inputs, rds_parser_process_group(g), Listen(g)
      PROVE  ListenerInvariant'
  <2>1. TextHeard(radiotext', heard_text')
    <3>1. CASE g.type = 2
      BY <1>2, <3>1, TextIsHeard DEF ListenerInvariant, rds_parser_process_group
    <3>2. CASE g.type # 2
      BY <1>2, <3>2 DEF ListenerInvariant, rds_parser_process_group, UpdateText, Listen
    <3>. QED  BY <3>1, <3>2
  <2>2. NameHeard(ps', heard_ps')
    <3>1. CASE g.type = 0
      BY <1>2, <3>1, NameIsHeard DEF ListenerInvariant, rds_parser_process_group
    <3>2. CASE g.type # 0
      BY <1>2, <3>2 DEF ListenerInvariant, rds_parser_process_group, UpdatePs, Listen
    <3>. QED  BY <3>1, <3>2
  <2>. QED  BY <2>1, <2>2 DEF ListenerInvariant
<1>. QED  BY <1>1, <1>2 DEF ListenerNext

LEMMA ListenerHasTheBest == ListenerInvariant => BestIsKept
<1>. SUFFICES ASSUME ListenerInvariant PROVE BestCharIsKept /\ BestPieceIsKept
  BY DEF BestIsKept
<1>1. BestCharIsKept
  BY NothingIsBest DEF ListenerInvariant, TextHeard, BestCharIsKept
<1>2. BestPieceIsKept
  <2>. SUFFICES ASSUME NEW s \in 0..(PsSegments - 1)
                PROVE  /\ s \in ps.seen <=> heard_ps[s].pieces # {}
                       /\ s \in ps.seen =>
                             \E piece \in heard_ps[s].pieces : \A k \in DOMAIN piece :
                                 LET char == ps.text[s * CharsPerBlock + k]
                                 IN  char = piece[k] \/ (piece[k] = "blank" /\ char = "nul")
    BY DEF BestPieceIsKept
  <2>1. /\ \A piece \in heard_ps[s].pieces : DOMAIN piece = 0..(CharsPerBlock - 1)
        /\ IF s \in ps.seen THEN \E piece \in heard_ps[s].pieces : Stands(ps.text, s, piece)
                            ELSE heard_ps[s] = Nothing
    BY DEF ListenerInvariant, NameHeard
  <2>2. CASE s \notin ps.seen
    BY <2>1, <2>2, NothingIsBest
  <2>3. CASE s \in ps.seen
    <3>1. PICK piece \in heard_ps[s].pieces : Stands(ps.text, s, piece)
      BY <2>1, <2>3
    <3>2. \A k \in DOMAIN piece :
             LET char == ps.text[s * CharsPerBlock + k]
             IN  char = piece[k] \/ (piece[k] = "blank" /\ char = "nul")
      BY <2>1, <3>1 DEF Stands
    <3>. QED  BY <2>3, <3>1, <3>2
  <2>. QED  BY <2>2, <2>3
<1>. QED  BY <1>1, <1>2

\* What is kept of the text and of the name is the best that was heard of it, of any groups
\* in any order: nothing heard well is replaced by what was heard worse, nothing is left of
\* an earlier text, and nothing that was heard is missing.
THEOREM BestIsAlwaysKept == ListenerSpec => []BestIsKept
<1>. QED
  BY InitListener, NextListener, ListenerHasTheBest, PTL DEF ListenerSpec
=============================================================================
