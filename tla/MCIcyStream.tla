---------------------------- MODULE MCIcyStream -----------------------------
(***************************************************************************)
(* IcyStream with the program's own lengths: WAV in stereo and mono, and   *)
(* MPEG-TS with 25 packets for a chunk.  One title fills its block exactly *)
(* (15 + 1), the other needs one more and has something to clean.          *)
(***************************************************************************)
EXTENDS IcyStream

MCFormats == {[prelude |-> 44, body |-> 4096], [prelude |-> 44, body |-> 2048],
              [prelude |-> 376, body |-> 4700]}

MCRadiotexts ==
    {[text |-> <<"a">>, complete |-> TRUE],
     [text |-> <<"quote", "a", "foreign", "quote", "b", "blank">>, complete |-> TRUE],
     [text |-> <<"b">>, complete |-> FALSE]}
=============================================================================
