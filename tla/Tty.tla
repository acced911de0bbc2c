-------------------------------- MODULE Tty --------------------------------
(***************************************************************************)
(* The terminal of kernel/tty.c: the cursor and the screen are positions   *)
(* in video memory, which holds more lines than the screen shows.  A write *)
(* moves the cursor character by character and then scrolls, by one line.  *)
(* Of the contents only the lines that may hold text are kept.             *)
(***************************************************************************)
EXTENDS Naturals, Sequences

CONSTANTS
  WIDTH, HIGHT,   (* of the screen                                          *)
  CELLS,          (* of the video memory, (vmem_base + vmem_size) >> 1      *)
  UINT32          (* cursor and screen are numbers modulo UINT32            *)

ASSUME TtyAssumption ==
  /\ WIDTH \in Nat \ {0} /\ HIGHT \in Nat \ {0} /\ CELLS \in Nat /\ UINT32 \in Nat
  /\ WIDTH * HIGHT <= CELLS /\ 2 * CELLS < UINT32 /\ UINT32 % 2 = 0

VARIABLES
  screen, cursor,
  ink,        (* the lines of video memory that may hold text              *)
  outside,    (* a character was set outside of the video memory           *)
  strayed     (* what writes have done so far: "start" deleted before the   *)
              (* first cell, "lines" moved the cursor by more than a line, *)
              (* "far" had it more than a line further down, if only on    *)
              (* the way, "length" were longer than the lowest screen has  *)
              (* room for, "back" went back above the screen, or onto it   *)
              (* from below                                                *)

tty == <<screen, cursor, ink, outside, strayed>>

Line(c) == c \div WIDTH
Below(c) == c >= screen + WIDTH * HIGHT
OnScreen == cursor >= screen /\ ~Below(cursor)

(* The cells below the lowest screen *)
Spare == CELLS % WIDTH

TtyTypeOK ==
  /\ screen \in 0 .. UINT32 - 1 /\ cursor \in 0 .. UINT32 - 1
  /\ ink \subseteq 0 .. Line(CELLS)
  /\ outside \in BOOLEAN
  /\ strayed \subseteq {"start", "lines", "far", "length", "back"}

(* tty_init and tty_clear *)
TtyInit == screen = 0 /\ cursor = 0 /\ ink = {} /\ outside = FALSE /\ strayed = {}

-----------------------------------------------------------------------------
(* set_char at cursor c, whose address is 2 * c modulo UINT32: a set of     *)
(* lines and a set of cells outside.                                       *)
Cell(c) == c % (UINT32 \div 2)
SetChar(s, c) ==
  IF Cell(c) < CELLS THEN [s EXCEPT !.ink = @ \cup {Line(Cell(c))}] ELSE [s EXCEPT !.outside = TRUE]

LineStart(c) == c - (c % WIDTH)

(* The cursor after a character *)
Moved(c, char) ==
  CASE char = "NUL" -> c
    [] char = "LF"  -> LineStart((c + WIDTH) % UINT32)
    [] char = "CR"  -> LineStart(c)
    [] char = "BS"  -> IF c % WIDTH = 0 THEN c ELSE c - 1
    [] char = "DEL" -> (c + UINT32 - 1) % UINT32
    [] OTHER        -> (c + 1) % UINT32

(* The record of writes, for the properties: of a character that moves the  *)
(* cursor from c to d, and of a write of n characters that ends at end      *)
Strays(c, d, char) ==
  (IF char = "DEL" /\ c = 0 THEN {"start"} ELSE {})
  \cup (IF Line(d) > Line(cursor) + 1 THEN {"far"} ELSE {})
  \cup (IF Below(c) /\ ~Below(d) THEN {"back"} ELSE {})

WriteStrays(end, n) ==
  (IF Line(end) \in {Line(cursor), Line(cursor) + 1} \/ Line(end) + 1 = Line(cursor)
   THEN {} ELSE {"lines"})
  \cup (IF n > Spare + 1 THEN {"length"} ELSE {})
  \cup (IF end < screen THEN {"back"} ELSE {})

Put(char, s) ==
  LET d == Moved(s.cursor, char)
      t == [s EXCEPT !.cursor = d, !.strayed = @ \cup Strays(s.cursor, d, char)]
  IN
  CASE char \in {"NUL", "LF", "CR", "BS"} -> t
    [] char = "DEL" -> SetChar(t, t.cursor)
    [] OTHER        -> SetChar(t, s.cursor)

(* Scrolling, from the state s after the characters.  The test for a screen *)
(* below vmem_base cannot hold, as that is 0.                              *)
TopPastEnd(top) == top > CELLS
PastEnd(top)   == top + WIDTH * HIGHT > CELLS
NotErased(s)   == s.ink
Erased(s)      == {}

NotBack(s)     == s
Back(s)        == [s EXCEPT !.screen = (screen + UINT32 - WIDTH) % UINT32]

Scrolled(s) ==
  CASE s.cursor < screen -> Back(s)
    [] Below(s.cursor) /\ ~PastEnd(screen + WIDTH) -> [s EXCEPT !.screen = screen + WIDTH]
    [] Below(s.cursor) /\ PastEnd(screen + WIDTH) ->
         [s EXCEPT !.screen = 0, !.cursor = 0, !.ink = Erased(s)]
    [] OTHER -> s

tty_write(buf) ==
  LET before == [screen |-> screen, cursor |-> cursor, ink |-> ink, outside |-> outside,
                 strayed |-> strayed]
      at[k \in 0 .. Len(buf)] == IF k = 0 THEN before ELSE Put(buf[k], at[k - 1])
      put    == at[Len(buf)]
      after  == Scrolled(put)
  IN  /\ screen' = after.screen /\ cursor' = after.cursor
      /\ ink' = after.ink /\ outside' = after.outside
      /\ strayed' = after.strayed \cup WriteStrays(put.cursor, Len(buf))

(* The terminal with any writes *)
TtySpec == TtyInit /\ [][\E buf \in Seq(STRING) : tty_write(buf)]_tty

-----------------------------------------------------------------------------
(* The screen shows video memory only, from the start of a line, whatever   *)
(* was written (tty.c:157 and 169), and the cursor stays on it as long as   *)
(* no write moves it by more than one line (tty.c:152).                     *)
CursorOnScreen ==
  /\ TtyTypeOK
  /\ screen % WIDTH = 0 /\ screen + WIDTH * HIGHT <= CELLS
  /\ "lines" \notin strayed => OnScreen

(* Characters are only set in video memory as long as no write goes more    *)
(* than one line down, even if it comes back, deletes before the first cell *)
(* (tty.c:141), or is longer than the cells below the lowest screen allow.  *)
WritesInside == strayed \cap {"start", "far", "length"} = {} => ~outside

(* The line that scrolls in at the bottom is blank, also after the screen   *)
(* starts again at the top of video memory, unless writes went too far down *)
(* or back up: from above the screen, or from below it, where BS and DEL    *)
(* leave a character behind.                                               *)
FreshLines ==
  strayed \cap {"start", "far", "back"} = {} => \A l \in ink : l < Line(screen) + HIGHT
=============================================================================
