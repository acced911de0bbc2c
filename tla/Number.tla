------------------------------- MODULE Number -------------------------------
(***************************************************************************)
(* number and reverse_uint of lib/vsprintf.c: a uint64_t in a base, with   *)
(* the flags, the field width and the precision of a conversion.  A text   *)
(* is a sequence of characters.  The division is the one of lib/math.c.    *)
(***************************************************************************)
EXTENDS Division, Sequences

DIGITS == <<"0", "1", "2", "3", "4", "5", "6", "7", "8", "9", "A", "B", "C", "D", "E", "F">>
Copies(c, n) == [k \in 1 .. n |-> c]
Larger(a, b) == IF a > b THEN a ELSE b

(* One round of reverse_uint: the last digit of num moves to the end of x.  *)
Round(s, base) ==
  [num |-> udivdi3(s.num, base), t |-> s.t + 1,
   x |-> (s.x * base + umoddi3(s.num, base)) % UINT64]

(* At least one round, and one for every digit: the reversed number and t.  *)
reverse_uint(num, base) ==
  LET after[k \in 1 .. BITS] ==
        IF k = 1 THEN Round([num |-> num, t |-> 0, x |-> 0], base)
        ELSE LET s == after[k - 1] IN IF s.num = 0 THEN s ELSE Round(s, base)
  IN  after[BITS]

(* The t last digits of x, the last first *)
Digits(x, base, t) ==
  LET rest[k \in 1 .. t] == IF k = 1 THEN x ELSE udivdi3(rest[k - 1], base)
  IN  [k \in 1 .. t |-> DIGITS[umoddi3(rest[k], base) + 1]]

Negative(num, flags)  == "SIGNED" \in flags /\ num >= UINT64 \div 2
Magnitude(num, flags) == IF Negative(num, flags) THEN UINT64 - num ELSE num

Sign(num, flags) ==
  IF "SIGNED" \notin flags THEN << >>
  ELSE IF Negative(num, flags) THEN <<"-">>
  ELSE IF "PLUS" \in flags THEN <<"+">>
  ELSE IF "SPACE" \in flags THEN <<" ">> ELSE << >>

Prefix(base, flags) ==
  IF "SPEC" \notin flags THEN << >>
  ELSE CASE base = 8 -> <<"0">> [] base = 16 -> <<"0", "x">> [] OTHER -> << >>

Padded(body, flags, field_width) ==
  LET fill == Copies(IF "ZEROPAD" \in flags THEN "0" ELSE " ", Larger(field_width - Len(body), 0))
  IN  IF "LEFT" \in flags THEN body \o fill ELSE fill \o body

number(num, base, flags, field_width, precision) ==
  LET r == reverse_uint(Magnitude(num, flags), base)
  IN  Padded(Sign(num, flags) \o Prefix(base, flags) \o Copies("0", Larger(precision - r.t, 0))
               \o Digits(r.x, base, r.t),
             flags, field_width)

-----------------------------------------------------------------------------
(***************************************************************************)
(* Reference: the numeral of n in a base, by its positional value.         *)
(***************************************************************************)
Power(base) == LET p[d \in Nat] == IF d = 0 THEN 1 ELSE base * p[d - 1] IN p

Figures(n, base) ==
  CHOOSE d \in 1 .. BITS : n < Power(base)[d] /\ (d = 1 \/ n >= Power(base)[d - 1])
Numeral(n, base) ==
  LET d == Figures(n, base) IN [k \in 1 .. d |-> DIGITS[((n \div Power(base)[d - k]) % base) + 1]]
=============================================================================
