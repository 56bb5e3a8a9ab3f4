------------------------------ MODULE MCParser ------------------------------
(* A number before a group, after a word and at the start, and no number.    *)
EXTENDS Parser

MCTexts ==
  { <<"digits", "comma", "group", "space">>,
    <<"space", "word", "space", "word">> }
=============================================================================
