---------------------------- MODULE RdsListener -----------------------------
(***************************************************************************)
(* RdsParser with any groups whatever, and a listener who remembers the    *)
(* best that was heard of every piece: its quality, and the characters     *)
(* heard with that quality.                                                *)
(***************************************************************************)
EXTENDS RdsParser

CONSTANT Inputs     \* the groups that may be received

Blocks == [is_received : BOOLEAN, had_errors : BOOLEAN, corrected_bit_count : Nat,
           confidence : Nat]

\* Any groups whose text is addressed as the four bits, or two for the name, allow.
ASSUME InputsAssumption ==
    \A g \in Inputs :
        /\ g.blocks \in [0..3 -> Blocks]
        /\ g.version \in {"A", "B"}
        /\ g.type = 0 => g.segment \in 0..(PsSegments - 1)
        /\ g.type = 2 => g.segment \in 0..(TextSegments - 1)
        /\ 3 \in DOMAIN g.chars /\ DOMAIN g.chars[3] = 0..(CharsPerBlock - 1)

VARIABLES heard_text, heard_ps,
          watched    \* the type of the groups that are listened to, -1 when none are

listenerVars == <<vars, heard_text, heard_ps, watched>>

Nothing == [quality |-> 0, pieces |-> {}]

ListenerInit ==
    /\ Init
    /\ heard_text = [i \in TextPositions |-> Nothing]
    /\ heard_ps = [s \in 0..(PsSegments - 1) |-> Nothing]
    /\ watched \in {g.type : g \in Inputs} \cup {-1}

Hears(best, piece, quality) ==
    CASE quality > best.quality -> [quality |-> quality, pieces |-> {piece}]
      [] quality = best.quality -> [best EXCEPT !.pieces = @ \cup {piece}]
      [] OTHER -> best

\* The blocks that carry the text of a group, in order.
TextBlocks(g) == IF g.version = "A" THEN {2, 3} ELSE {3}

Listen(g) ==
    LET sure == Usable(g, {1} \cup TextBlocks(g))
        quality == Quality(g, {1} \cup TextBlocks(g))
        before == IF radiotext_ab = g.ab THEN heard_text ELSE [i \in TextPositions |-> Nothing]
        perGroup == Cardinality(TextBlocks(g)) * CharsPerBlock
        byte(k) == IF g.version = "A" /\ k < CharsPerBlock THEN g.chars[2][k]
                   ELSE g.chars[3][k % CharsPerBlock]
    IN  /\ heard_text' =
               IF g.type # 2 THEN heard_text
               ELSE [i \in TextPositions |->
                        IF sure /\ i \div perGroup = g.segment
                        THEN Hears(before[i], rds_sanitize_char(byte(i % perGroup)), quality)
                        ELSE before[i]]
        /\ heard_ps' =
               IF g.type # 0 \/ ~Usable(g, {1, 3}) THEN heard_ps
               ELSE [heard_ps EXCEPT ![g.segment] =
                        Hears(@, [k \in 0..(CharsPerBlock - 1) |->
                                     rds_sanitize_char(g.chars[3][k])],
                              Quality(g, {1, 3}))]

ListenerNext ==
    /\ \E g \in Inputs : g.type = watched /\ rds_parser_process_group(g) /\ Listen(g)
    /\ UNCHANGED watched

ListenerSpec == ListenerInit /\ [][ListenerNext]_listenerVars

-----------------------------------------------------------------------------
\* Every character of the radiotext is the one heard best since the text began, none is
\* left of an earlier text, and none that was heard is missing.
BestCharIsKept ==
    \A i \in TextPositions :
        /\ i \in radiotext.seen <=> heard_text[i].pieces # {}
        /\ i \in radiotext.seen => /\ radiotext.text[i] \in heard_text[i].pieces
                                   /\ radiotext.quality[i] = heard_text[i].quality

\* Every segment of the name is the piece heard best, but for blanks that were cut off.
BestPieceIsKept ==
    \A s \in 0..(PsSegments - 1) :
        /\ s \in ps.seen <=> heard_ps[s].pieces # {}
        /\ s \in ps.seen =>
              \E piece \in heard_ps[s].pieces : \A k \in DOMAIN piece :
                  LET char == ps.text[s * CharsPerBlock + k]
                  IN  char = piece[k] \/ (piece[k] = "blank" /\ char = "nul")

\* What the parser has is the best it could have of everything it was given: nothing
\* heard well is replaced by what was heard worse, or outlives its text.
BestIsKept == watched # -1 => BestCharIsKept /\ BestPieceIsKept
=============================================================================
