------------------------------- MODULE MCShell -------------------------------
(***************************************************************************)
(* Instance of Shell for TLC: every line of up to three characters, and    *)
(* some longer ones.                                                       *)
(***************************************************************************)
EXTENDS Shell, TLC

ShortLines == UNION {[1 .. n -> {"a", " "} \cup Symbols] : n \in 1 .. 3}
LongLines  == {
    <<"a", "|", "b", "|", "c">>,
    <<"a", "<", "f", "|", "b", ">", ">", "g">>,
    <<"(", "a", ";", "b", ")", ">", "f", "&">>,
    <<"a", "|", "b", "&", ";", "c">>,
    <<"a", "b", " ", ">", ">", ">", "f">>,
    <<"<", "f", "(", "a", ")">>,
    <<"(", "a", "|", "b", " ", ")", "<", "f", " ", ">", "g">>,
    <<"a", " ", "b", " ", "c">>}
Background == <<"|", "|", "&">>
Typed == {<<l>> : l \in ShortLines \cup LongLines} \cup {<<Background, EOF>>, <<Background, <<"d">>>>}
=============================================================================
