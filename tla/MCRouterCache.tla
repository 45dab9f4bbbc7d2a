---------------------------- MODULE MCRouterCache ----------------------------
(* Bounded instance of RouterCache for TLC: "ab" is one token or two, and a   *)
(* part of an answer is an answer that was cut.                               *)
EXTENDS RouterCache

MCPrompts == {<<"p">>}
MCAnswers == {<<<<"a">>, <<"b">>, <<"e">>>>, <<<<"a", "b">>, <<"e">>>>}
MCMerges == {<<"a", "b">>}

ASSUME MCTextsAreApart == TextsApart({"p", "a", "b", "e"})
=============================================================================
