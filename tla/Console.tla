------------------------------ MODULE Console ------------------------------
(***************************************************************************)
(* The two users of the terminal: printk, which formats into its buffer    *)
(* first, and the system call write, with any bytes.  Both run with        *)
(* interrupts off, so a write is one step.                                 *)
(*                                                                         *)
(* A message is a sequence of parts: text, and conversions that a caller   *)
(* asks for.  Spelling and Arguments are how a caller writes them.         *)
(***************************************************************************)
EXTENDS Tty, Format, SequencesExt

CONSTANTS
  Messages,  (* what printk is called for                                   *)
  Texts,     (* the texts of write                                          *)
  PrintAt,   (* bound of the model: the cursors at which printk is called   *)
  NULL

VARIABLES
  message,   (* that of the last call, NULL after write                     *)
  text       (* what it was formatted to                                    *)

vars == <<tty, message, text>>

(***************************************************************************)
(* A part is [type |-> "text", value |-> characters], or a conversion with *)
(* its type, flags, field_width and precision, star (are these two given   *)
(* as arguments?), size and value, an integer that the size holds.  For    *)
(* "c" and "s" only the type and the value, the characters.                *)
(***************************************************************************)
Numbers == {"d", "u", "o", "x", "p"}

CharOf(flag) == CHOOSE c \in FlagChars : FlagOf(c) = flag

Spelling(m) ==
  CASE m.type = "text" -> m.value
    [] m.type \in {"c", "s"} -> <<"%", m.type>>
    [] m.type \in Numbers ->
         <<"%">> \o SetToSeq({CharOf(f) : f \in m.flags})
           \o (IF m.star THEN <<"*", ".", "*">>
               ELSE (IF m.field_width = 0 THEN << >> ELSE Numeral(m.field_width, 10))
                      \o (IF m.precision = 0 THEN << >> ELSE <<".">> \o Numeral(m.precision, 10)))
           \o m.size \o <<m.type>>

Arguments(m) ==
  CASE m.type = "text" -> << >>
    [] m.type = "c" -> m.value
    [] m.type = "s" -> <<m.value>>
    [] m.type \in Numbers ->
         (IF m.star THEN <<m.field_width % 2 ^ WORD, m.precision>> ELSE << >>)
           \o <<m.value % 2 ^ WORD>>
           \o (IF m.size = <<"l", "l">> THEN <<(m.value \div 2 ^ WORD) % 2 ^ WORD>> ELSE << >>)

(* What callers pass: an int for a width or a precision, written in the     *)
(* format only if it is not negative, and a number that its size holds      *)
Bits(size) ==
  CASE size = <<"l", "l">> -> BITS [] size = <<"h">> -> SHORT [] size = <<"h", "h">> -> CHAR
    [] size \in {<< >>, <<"l">>} -> WORD

Legal(m) ==
  CASE m.type = "text" -> m.value \in Seq(STRING \ {"%", "NUL"})
    [] m.type = "c" -> m.value \in Seq(STRING) /\ Len(m.value) = 1
    [] m.type = "s" -> m.value \in Seq(STRING \ {"NUL"})
    [] m.type \in Numbers ->
         LET int == 2 ^ (WORD - 1)
             top == 2 ^ (Bits(m.size) - 1)
         IN  /\ m.flags \subseteq {FlagOf(c) : c \in FlagChars} /\ m.star \in BOOLEAN
             /\ m.field_width \in (IF m.star THEN 1 - int ELSE 0) .. int - 1
             /\ m.precision \in 0 .. int - 1
             /\ m.size \in {<< >>, <<"l">>, <<"h">>, <<"h", "h">>, <<"l", "l">>}
             /\ m.type = "p" => m.size = << >>
             /\ m.value \in (IF m.type = "d" THEN - top .. top - 1 ELSE 0 .. 2 * top - 1)
    [] OTHER -> FALSE

ASSUME MessagesAssumption ==
  \A m \in Messages : m \in Seq(Range(m)) /\ \A part \in Range(m) : Legal(part)
ASSUME TextsAssumption == \A buf \in Texts : buf \in Seq(Range(buf))

-----------------------------------------------------------------------------
Init == TtyInit /\ message = NULL /\ text = << >>

printk(m) ==
  /\ cursor \in PrintAt
  /\ message' = m
  /\ text' = vsprintf(FlattenSeq([k \in DOMAIN m |-> Spelling(m[k])]),
                      FlattenSeq([k \in DOMAIN m |-> Arguments(m[k])])).out
  /\ tty_write(text')

sys_write(buf) == tty_write(buf) /\ message' = NULL /\ text' = << >>

Next == (\E m \in Messages : printk(m)) \/ (\E buf \in Texts : sys_write(buf))

Spec == Init /\ [][Next]_vars

-----------------------------------------------------------------------------
(***************************************************************************)
(* Reference: what a conversion should print, from what is asked for.      *)
(***************************************************************************)
Abs(n) == IF n < 0 THEN - n ELSE n

Leading(m) ==
  (IF m.type # "d" THEN << >>
   ELSE IF m.value < 0 THEN <<"-">>
   ELSE IF "PLUS" \in m.flags THEN <<"+">>
   ELSE IF "SPACE" \in m.flags THEN <<" ">> ELSE << >>)
  \o (CASE m.type = "p" \/ (m.type = "x" /\ "SPEC" \in m.flags) -> <<"0", "x">>
        [] m.type = "o" /\ "SPEC" \in m.flags -> <<"0">>
        [] OTHER -> << >>)

Base(m)      == CASE m.type \in {"d", "u"} -> 10 [] m.type = "o" -> 8 [] m.type \in {"x", "p"} -> 16
MinDigits(m) == IF m.type = "p" /\ m.precision = 0 THEN WORD \div 4 ELSE m.precision
AtLeft(m)    == "LEFT" \in m.flags \/ m.field_width < 0

Wanted(m) ==
  LET body == Numeral(Abs(m.value), Base(m))
      all  == Leading(m) \o Copies("0", Larger(MinDigits(m) - Len(body), 0)) \o body
      gap  == Larger(Abs(m.field_width) - Len(all), 0)
  IN  IF m.type \notin Numbers THEN m.value
      ELSE IF AtLeft(m) THEN all \o Copies(" ", gap)
      ELSE Copies(IF "ZEROPAD" \in m.flags THEN "0" ELSE " ", gap) \o all

(* Does the code promise to print it right? *)
Covered(m) ==
  m.type \in Numbers =>
    /\ Abs(m.value) < 2 ^ (BITS \div 2)
    /\ "ZEROPAD" \in m.flags => ~AtLeft(m) /\ Leading(m) = << >>

(* vsprintf reads a format the way its callers write it, takes each argument *)
(* in its size and sign, and prints it as its numeral, with sign, prefix,    *)
(* precision and padding where they belong.  Left out: numbers of more than  *)
(* half the bits of a uint64_t, which no int or pointer has, and zeros asked *)
(* for in a field that is filled on the right (vsprintf.c:148) or has a sign *)
(* or prefix (160).  The text of every number, also of one whose reversal    *)
(* overflows, has the length that the conversion asks for: what vsprintf     *)
(* adds to len.                                                             *)
NumberRight ==
  message # NULL =>
    LET wanted == FlattenSeq([k \in DOMAIN message |-> Wanted(message[k])]) IN
    /\ (\A k \in DOMAIN message : Covered(message[k])) => text = wanted
    /\ Len(text) = Len(wanted)
=============================================================================
