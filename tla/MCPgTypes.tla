----------------------------- MODULE MCPgTypes -----------------------------
(* An instance of the registered types.  The texts have the characters that  *)
(* the two ends of a text, and its inside, could be taken for.               *)
EXTENDS PgTypes

TwoValues == {2, 4}

Characters == Special \cup Delimiter \cup {"N", "U", "L", "=", ">", "1", "-", "2"}

AwkwardTexts == {
    <<>>, <<"1">>,
    <<Quote>>, <<Backslash>>, <<Backslash, Quote>>, <<Quote, ",", Quote>>,
    <<",">>, <<")", "]">>, <<"N", "U", "L", "L">>, <<" ", "=", ">">> }

PlainNumbers == {<<"1">>, <<"-", "2">>}
=============================================================================
