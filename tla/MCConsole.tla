------------------------------ MODULE MCConsole ------------------------------
(***************************************************************************)
(* A console for TLC: a screen of two lines of five characters in a video  *)
(* memory of four lines and four cells; words of eight bits.  The writes   *)
(* of five characters are as long as fits below the lowest screen, and     *)
(* some go below the screen and come back.                                 *)
(***************************************************************************)
EXTENDS Console

Chars == {"a", "LF", "CR", "BS", "DEL", "NUL"}

TheTexts ==
  {<<a>> : a \in Chars} \cup {<<a, b>> : a, b \in Chars \ {"NUL"}}
    \cup {<< >>, <<"a", "LF", "a">>, <<"LF", "LF", "a">>, <<"LF", "LF", "a", "DEL", "DEL">>,
          <<"a", "a", "BS", "DEL">>, <<"a", "a", "a", "a", "a">>, <<"a", "a", "a", "a", "a", "a">>}

(* Every size with values at its ends, of numbers with and without a sign   *)
Sizes == {<< >>, <<"l">>, <<"h">>, <<"h", "h">>, <<"l", "l">>}
Values(type, size) ==
  LET top == 2 ^ Bits(size) IN
  IF type = "d" THEN {0, 7, -1, - (top \div 2), top \div 2 - 1} ELSE {0, 8, top \div 2, top - 1}

Conversions(types, sizes, flags, widths, precisions) ==
  UNION {[type : {t}, size : {s}, value : Values(t, s), flags : flags, field_width : widths,
          precision : precisions, star : {FALSE}] : t \in types, s \in sizes}
Starred(set) == {[m EXCEPT !.star = TRUE] : m \in set}

Single ==
  Conversions({"d", "u", "x"}, Sizes, {{}, {"ZEROPAD"}}, {0, 10}, {0})
    \cup Conversions({"d", "u", "o", "x", "p"}, {<< >>},
                     {{"LEFT"}, {"SPEC"}, {"PLUS"}, {"SPACE", "PLUS"}, {"SPACE", "LEFT"}, {"SPEC", "ZEROPAD"}},
                     {0, 7}, {0, 4})
    \cup Starred(Conversions({"d", "p"}, {<< >>}, {{}, {"ZEROPAD"}}, {-7, 6}, {0, 3}))

Text(v) == [type |-> "text", value |-> v]
D(v) == [type |-> "d", size |-> << >>, value |-> v, flags |-> {}, field_width |-> 0, precision |-> 0, star |-> FALSE]
U(v) == [D(v) EXCEPT !.type = "u", !.size = <<"l", "l">>]

TheMessages ==
  {<<m>> : m \in Single}
    \cup {<<Text(<<"a">>), m, Text(<<"a", "a">>), D(-3)>> : m \in
            {D(5), U(300), [type |-> "c", value |-> <<"a">>], [type |-> "s", value |-> <<"a", "a">>],
             [D(9) EXCEPT !.star = TRUE, !.field_width = -3]}}
=============================================================================
