--------------------------- MODULE MC_UserLogin ---------------------------
(* Model-checking instance of UserLogin.                                   *)
EXTENDS UserLogin

CONSTANTS u1, u2, p1, p2

(* No id assigned yet, and an assigned one.                                 *)
MCClientIds == {0, 7}
(* No error text, and one.                                                 *)
MCLoginErrors == {<<>>, <<"E">>}

(* "type" spellings: each name upper, lower and mixed case, a name cut    *)
(* short, a name with a character too many, and an unknown word.          *)
MCTypeStrings ==
    { <<"P", "L", "A", "I", "N">>, <<"p", "l", "a", "i", "n">>,
      <<"P", "l", "a", "i", "n">>, <<"S", "H", "A", "1">>,
      <<"s", "h", "a", "1">>, <<"S", "H", "A">>, <<"S", "H", "A", "1", "X">>,
      <<"n", "o", "n", "e">>, <<"R", "S", "A", "O", "A", "E", "P">>,
      <<"a", "z", "u", "r", "e">>, <<"I", "N", "V", "A", "L", "I", "D">>,
      <<"x">> }
=============================================================================
