---------------------------- MODULE MCPrimitives ----------------------------
(* Texts of up to three characters: digits, a letter that is a digit of    *)
(* some radices and the first beyond the decimal ones, a sign and a space. *)
EXTENDS Primitives

MCOperands ==
  {JSUNDEF, JSNULL, JSBOOL(TRUE), JSNAN, JSNUM(NAN), JSNUM(INF), JSNUM(NINF),
   Num(-1), JSSTR(<<"1", "a">>), JSSTR(<<" ", "1">>)}

MCTexts == {<<>>, <<"a">>, <<"a", "1">>}

(* a*, aa|1 *)
MCPatterns == {{<<>>, <<"a">>, <<"a", "a">>, <<"a", "a", "a">>}, {<<"a", "a">>, <<"1">>}}
=============================================================================
