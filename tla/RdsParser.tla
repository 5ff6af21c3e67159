----------------------------- MODULE RdsParser ------------------------------
(***************************************************************************)
(* Putting the station's name and radiotext together from groups:          *)
(* src/rds/parser.c.                                                       *)
(*                                                                         *)
(* The 16 bits of a block are abstracted to the fields the parser reads    *)
(* from it, and a character to whether it is a blank, an end, a control    *)
(* character or some letter.  The previews, which repeat the texts with    *)
(* dots for what is missing, are left out.                                 *)
(***************************************************************************)
EXTENDS Integers, FiniteSets, FiniteSetsExt

CONSTANTS
    Letters,            \* printable characters other than the blank
    CharsPerBlock,      \* 2
    PsSegments,         \* 4
    TextSegments        \* 16

ASSUME ParserAssumption == {CharsPerBlock, PsSegments, TextSegments} \subseteq Nat \ {0}

Bytes == Letters \cup {"blank", "end", "control"}

PsPositions == 0..(PsSegments * CharsPerBlock - 1)
TextPositions == 0..(TextSegments * 2 * CharsPerBlock - 1)

VARIABLES
    has_pi, pi,
    ps,              \* info.ps, ps_seen_mask and ps_segment_quality
    radiotext,       \* info.radiotext, radiotext_seen_mask and radiotext_quality
    radiotext_ab,    \* -1 while not radiotext_ab_valid
    last_reported_ps, last_reported_radiotext,
    event            \* what changed with the last group

vars == <<has_pi, pi, ps, radiotext, radiotext_ab, last_reported_ps,
          last_reported_radiotext, event>>

\* What a block is to the parser, apart from its data: it was received without an error,
\* was corrected, or is missing (block_sync.c takes no other blocks).
Missing == [is_received |-> FALSE, had_errors |-> FALSE, corrected_bit_count |-> 0,
            confidence |-> 0]

Received(count, confidence) ==
    [is_received |-> TRUE, had_errors |-> count > 0, corrected_bit_count |-> count,
     confidence |-> confidence]

NoText == [text |-> [i \in TextPositions |-> "nul"], seen |-> {},
           quality |-> [i \in TextPositions |-> 0]]
NoPs == [text |-> [i \in PsPositions |-> "nul"], seen |-> {},
         quality |-> [s \in 0..(PsSegments - 1) |-> 0]]
NoEvent == [ps_changed |-> FALSE, radiotext_changed |-> FALSE]

Init ==
    /\ has_pi = FALSE /\ pi = 0
    /\ ps = NoPs
    /\ radiotext = NoText
    /\ radiotext_ab = -1
    /\ last_reported_ps = << >>
    /\ last_reported_radiotext = << >>
    /\ event = NoEvent

-----------------------------------------------------------------------------
(* Characters and strings *)

rds_sanitize_char(byte) ==
    CASE byte = "end" -> "nul" [] byte = "control" -> "blank" [] OTHER -> byte

\* The length of a C string.
StrLen(text) == Min({i \in DOMAIN text : text[i] = "nul"} \cup {Cardinality(DOMAIN text)})

CString(text) == [i \in 1..StrLen(text) |-> text[i - 1]]

\* Trailing blanks become the string's end.
rds_trim_string(text) ==
    [i \in DOMAIN text |->
        IF \A j \in i..(StrLen(text) - 1) : text[j] = "blank" THEN
            IF i < StrLen(text) THEN "nul" ELSE text[i]
        ELSE text[i]]

\* Twelve times the quality: a division by 1, 2, 3 or 4 leaves no rest.
rds_block_quality(block) ==
    IF ~block.is_received THEN 0
    ELSE (12 * block.confidence) \div (1 + block.corrected_bit_count)
            + (IF block.had_errors THEN 3 ELSE 24)

rds_block_is_usable_for_text(block) ==
    block.is_received /\ (~block.had_errors \/ block.corrected_bit_count > 0)

-----------------------------------------------------------------------------
(* The texts with one more piece *)

\* Mutant: of two different pieces of the same quality the first is kept.
FirstIsKept(seen, same, quality, kept) == ~(seen /\ ~same /\ quality <= kept)

\* Mutant: whatever comes last is taken.
LastIsKept(seen, same, quality, kept) == TRUE

\* A piece is not replaced by another one of lower quality.
Replaces(seen, same, quality, kept) == ~(seen /\ ~same /\ quality < kept)

KeptQuality(seen, quality, kept) == IF ~seen \/ quality > kept THEN quality ELSE kept

rds_update_ps(segment, chars, quality) ==
    LET first == segment * CharsPerBlock
        place == first..(first + CharsPerBlock - 1)
        new(i) == rds_sanitize_char(chars[i - first])
        has_existing == segment \in ps.seen
        same_chars == \A i \in place : ps.text[i] = new(i)
        kept == ps.quality[segment]
    IN  IF ~Replaces(has_existing, same_chars, quality, kept) THEN ps
        ELSE [text |-> rds_trim_string(
                           [i \in PsPositions |-> IF i \in place THEN new(i) ELSE ps.text[i]]),
              seen |-> ps.seen \cup {segment},
              quality |-> [ps.quality EXCEPT
                              ![segment] = KeptQuality(has_existing, quality, kept)]]

rds_update_radiotext_chars(old, position, chars, quality) ==
    LET new(i) == rds_sanitize_char(chars[i - position])
        taken == {i \in position..(position + Cardinality(DOMAIN chars) - 1) :
                     Replaces(i \in old.seen, old.text[i] = new(i), quality, old.quality[i])}
    IN  [text |-> [i \in TextPositions |-> IF i \in taken THEN new(i) ELSE old.text[i]],
         seen |-> old.seen \cup taken,
         quality |-> [i \in TextPositions |->
                         IF i \in taken
                         THEN KeptQuality(i \in old.seen, quality, old.quality[i])
                         ELSE old.quality[i]]]

\* Mutant: the end must have been seen too, also where there is none.
OneTooFar(rt) ==
    LET ends == {i \in rt.seen : rt.text[i] = "nul"}
        end_index == Min(ends \cup {Cardinality(TextPositions)})
    IN  /\ rt.text[0] # "nul"
        /\ \A i \in 0..end_index : i \in rt.seen
        /\ \E i \in 0..(end_index - 1) : rt.text[i] # "blank"

\* Mutant: a text is complete when its end has been seen.
EndIsEnough(rt) == \E i \in rt.seen : rt.text[i] = "nul" /\ i > 0

rds_parser_radiotext_is_complete(rt) ==
    LET ends == {i \in rt.seen : rt.text[i] = "nul"}
        end_index == Min(ends \cup {Cardinality(TextPositions)})
    IN  /\ rt.text[0] # "nul"
        /\ \A i \in 0..(end_index - 1) : i \in rt.seen
        /\ \E i \in 0..(end_index - 1) : rt.text[i] # "blank"

-----------------------------------------------------------------------------
(* rds_parser_process_group *)

\* Mutant: the text is not cleared when the flag changes.
TextKept(g) == radiotext

\* A new A/B flag announces a new text.
TextBefore(g) == IF radiotext_ab # g.ab THEN NoText ELSE radiotext

Usable(g, numbers) == \A n \in numbers : rds_block_is_usable_for_text(g.blocks[n])

\* The sum over those of the blocks 1, 2 and 3 that the text comes from.
Quality(g, numbers) ==
    LET of(n) == IF n \in numbers THEN rds_block_quality(g.blocks[n]) ELSE 0
    IN  of(1) + of(2) + of(3)

TextAfter(g) ==
    LET both == [i \in 0..(2 * CharsPerBlock - 1) |->
                    IF i < CharsPerBlock THEN g.chars[2][i] ELSE g.chars[3][i - CharsPerBlock]]
    IN  CASE g.version = "A" /\ Usable(g, {1, 2, 3}) ->
                rds_update_radiotext_chars(TextBefore(g), g.segment * 2 * CharsPerBlock, both,
                                           Quality(g, {1, 2, 3}))
          [] g.version = "B" /\ Usable(g, {1, 3}) ->
                rds_update_radiotext_chars(TextBefore(g), g.segment * CharsPerBlock,
                                           g.chars[3], Quality(g, {1, 3}))
          [] OTHER -> TextBefore(g)

\* A noisy block A is meant to change the PI only while there is none.
UpdatePi(g) ==
    IF rds_block_is_usable_for_text(g.blocks[0]) \/ ~has_pi
    THEN has_pi' = TRUE /\ pi' = g.pi
    ELSE UNCHANGED <<has_pi, pi>>

UpdatePs(g) ==
    ps' = IF g.type = 0 /\ Usable(g, {1, 3})
          THEN rds_update_ps(g.segment, g.chars[3], Quality(g, {1, 3}))
          ELSE ps

UpdateText(g) ==
    IF g.type = 2 THEN radiotext_ab' = g.ab /\ radiotext' = TextAfter(g)
    ELSE UNCHANGED <<radiotext_ab, radiotext>>

Report ==
    LET ps_changed == last_reported_ps # CString(ps'.text) /\ CString(ps'.text) # << >>
        radiotext_changed ==
            /\ rds_parser_radiotext_is_complete(radiotext')
            /\ last_reported_radiotext # CString(radiotext'.text)
    IN  /\ event' = [ps_changed |-> ps_changed, radiotext_changed |-> radiotext_changed]
        /\ last_reported_ps' = IF ps_changed THEN CString(ps'.text) ELSE last_reported_ps
        /\ last_reported_radiotext' =
               IF radiotext_changed THEN CString(radiotext'.text) ELSE last_reported_radiotext

rds_parser_process_group(g) ==
    /\ g.blocks[0].is_received /\ g.blocks[1].is_received
    /\ UpdatePi(g)
    /\ UpdatePs(g)
    /\ UpdateText(g)
    /\ Report
=============================================================================
