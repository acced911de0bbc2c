------------------------------- MODULE Format -------------------------------
(***************************************************************************)
(* vsprintf of lib/vsprintf.c: what it makes of a format and the arguments *)
(* on the stack.  A format is a sequence of characters.  The arguments are *)
(* the words of the stack from the first one on; the word for a string is  *)
(* the string, the one for a character the character.                      *)
(*                                                                         *)
(* A format that ends inside a conversion, behind whose end vsprintf goes  *)
(* on reading, and widths that an int does not hold are left out: no       *)
(* caller has one.                                                         *)
(***************************************************************************)
EXTENDS Number, Integers

CONSTANTS
  WORD,            (* bits of a word, an int, a long and a pointer, 32      *)
  SHORT, CHAR      (* bits of a short and of a char, 16 and 8               *)

ASSUME WidthAssumption ==
  /\ {WORD, SHORT, CHAR} \subseteq Nat
  /\ 0 < CHAR /\ CHAR < SHORT /\ SHORT < WORD /\ BITS = 2 * WORD

At(fmt, i) == IF i \in DOMAIN fmt THEN fmt[i] ELSE "NUL"

(* The first place from i on with a character that is not one of chars *)
Past(fmt, i, chars) ==
  CHOOSE j \in i .. Len(fmt) + 1 :
    At(fmt, j) \notin chars /\ \A k \in i .. j - 1 : At(fmt, k) \in chars

Count(fmt, i, j, c) ==
  LET n[k \in i .. j] == IF k = i THEN 0 ELSE n[k - 1] + (IF fmt[k - 1] = c THEN 1 ELSE 0) IN n[j]

IsDigit == {DIGITS[k] : k \in 1 .. 10}

(* The number in the places i .. j - 1 *)
skip_atoi(fmt, i, j) ==
  LET digit(c) == (CHOOSE k \in 1 .. 10 : DIGITS[k] = c) - 1
      n[k \in i .. j] == IF k = i THEN 0 ELSE n[k - 1] * 10 + digit(fmt[k - 1])
  IN  n[j]

-----------------------------------------------------------------------------
(***************************************************************************)
(* va_arg: bits of the words from the a-th one on.  get_int extends them   *)
(* by their sign to an int64_t, get_uint by zeros to a uint64_t.           *)
(***************************************************************************)
Width(l, h) ==
  IF l >= 2 THEN BITS ELSE IF l = 1 THEN WORD
  ELSE IF h >= 2 THEN CHAR ELSE IF h = 1 THEN SHORT ELSE WORD
Words(l) == IF l >= 2 THEN 2 ELSE 1

get_uint(args, a, l, h) ==
  (args[a] + (IF Words(l) = 2 THEN args[a + 1] * 2 ^ WORD ELSE 0)) % 2 ^ Width(l, h)

NotExtended(n, bits) == n
SignExtended(n, bits) == IF n >= 2 ^ (bits - 1) THEN n + (UINT64 - 2 ^ bits) ELSE n

get_int(args, a, l, h) == SignExtended(get_uint(args, a, l, h), Width(l, h))

AsInt(word) == IF word >= 2 ^ (WORD - 1) THEN word - 2 ^ WORD ELSE word

-----------------------------------------------------------------------------
FlagOf(c) ==
  CASE c = "-" -> "LEFT" [] c = "+" -> "PLUS" [] c = " " -> "SPACE"
    [] c = "#" -> "SPEC" [] c = "0" -> "ZEROPAD"
FlagChars == {"-", "+", " ", "#", "0"}

(* A width or a precision at i: digits, or * for the next argument *)
Field(fmt, i, args, a) ==
  IF At(fmt, i) \in IsDigit
  THEN LET j == Past(fmt, i, IsDigit) IN [n |-> skip_atoi(fmt, i, j), i |-> j, a |-> a]
  ELSE IF At(fmt, i) = "*" THEN [n |-> AsInt(args[a]), i |-> i + 1, a |-> a + 1]
  ELSE [n |-> 0, i |-> i, a |-> a]

(* The conversion whose % is at i: what it asks for, the place of its type *)
(* and its first argument                                                  *)
Conversion(fmt, i, args, a) ==
  LET f == Past(fmt, i + 1, FlagChars)
      width == Field(fmt, f, args, a)
      prec  == IF At(fmt, width.i) = "." THEN Field(fmt, width.i + 1, args, width.a)
               ELSE [width EXCEPT !.n = 0]
      at == Past(fmt, prec.i, {"l", "h"})
  IN  [flags |-> {FlagOf(fmt[k]) : k \in i + 1 .. f - 1} \cup (IF width.n < 0 THEN {"LEFT"} ELSE {}),
       field_width |-> IF width.n < 0 THEN - width.n ELSE width.n,
       precision |-> Larger(prec.n, 0),
       l |-> Count(fmt, prec.i, at, "l"), h |-> Count(fmt, prec.i, at, "h"),
       at |-> at, a |-> prec.a]

(* What it prints, and how many words it takes *)
Converted(fmt, args, c) ==
  LET type == At(fmt, c.at)
      unsigned(base) == [out |-> number(get_uint(args, c.a, c.l, c.h), base, c.flags,
                                        c.field_width, c.precision),
                         words |-> Words(c.l)]
      just(chars, words) == [out |-> chars, words |-> words]
  IN  CASE type \in {"d", "i"} ->
             just(number(get_int(args, c.a, c.l, c.h), 10, c.flags \cup {"SIGNED"},
                         c.field_width, c.precision), Words(c.l))
        [] type = "u" -> unsigned(10)
        [] type = "o" -> unsigned(8)
        [] type \in {"x", "X"} -> unsigned(16)
        [] type = "p" ->
             just(number(args[c.a], 16, c.flags \cup {"SPEC"}, c.field_width,
                         IF c.precision = 0 THEN WORD \div 4 ELSE c.precision), 1)
        [] type = "c" -> just(<<args[c.a]>>, 1)
        [] type = "s" -> just(args[c.a], 1)
        [] type = "n" -> just(<< >>, 1)
        [] type = "%" -> just(<<"%">>, 0)
        [] OTHER -> just(<<"%", type>>, 0)

(* One round of the loop.  len is Len(out), which %n stores.               *)
FormatRound(fmt, args, s) ==
  IF At(fmt, s.i) = "NUL" THEN s
  ELSE IF fmt[s.i] # "%" THEN [s EXCEPT !.i = @ + 1, !.out = Append(@, fmt[s.i])]
  ELSE LET c == Conversion(fmt, s.i, args, s.a)
           r == Converted(fmt, args, c)
       IN  [i |-> c.at + 1, a |-> c.a + r.words, out |-> s.out \o r.out,
            stored |-> IF At(fmt, c.at) = "n" THEN Append(s.stored, <<args[c.a], Len(s.out)>>)
                       ELSE s.stored]

vsprintf(fmt, args) ==
  LET after[k \in 0 .. Len(fmt)] ==
        IF k = 0 THEN [i |-> 1, a |-> 1, out |-> << >>, stored |-> << >>]
        ELSE FormatRound(fmt, args, after[k - 1])
  IN  after[Len(fmt)]
=============================================================================
