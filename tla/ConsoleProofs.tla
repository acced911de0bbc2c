--------------------------- MODULE ConsoleProofs ---------------------------
(***************************************************************************)
(* Theorems about Console and what it is composed of.  Tty: for every size *)
(* of screen and video memory and writes of any length, where the screen   *)
(* and the cursor are, where characters are set, and that the bottom line  *)
(* is blank.  Division and Number: for every width, that numbers are       *)
(* divided and turned into numerals as they should be.  Console: for every *)
(* message that is legal, that printk prints what is asked for.            *)
(***************************************************************************)
EXTENDS Console, Basics, FiniteSetTheorems

-----------------------------------------------------------------------------
(***************************************************************************)
(* 1. The terminal.                                                        *)
(*                                                                         *)
(* Positions are compared by their lines: the screen shows the lines       *)
(* Top .. Top + HIGHT - 1 of the LastLine full lines of video memory.      *)
(* Through a write, Reached says how far down its characters have come     *)
(* after k of them; what a write leaves then follows in the four ways to   *)
(* scroll.                                                                 *)
(***************************************************************************)
Positions == 0 .. UINT32 - 1
Ways      == {"start", "lines", "far", "length", "back"}
Display   == [screen : Positions, cursor : Positions, ink : SUBSET (0 .. Line(CELLS)),
              outside : BOOLEAN, strayed : SUBSET Ways]

Top  == Line(screen)
LastLine == Line(CELLS)

-----------------------------------------------------------------------------
(* Positions and lines                                                      *)
LEMMA Products ==
  ASSUME NEW a \in Nat, NEW b \in Nat, NEW m \in Nat, a <= b
  PROVE  m * a \in Nat /\ m * b \in Nat /\ m * a <= m * b
PROOF
  <1>1. b - a \in Nat /\ b = a + (b - a)
    OBVIOUS
  <1>2. m * (b - a) \in Nat /\ m * a \in Nat /\ m * b \in Nat
    BY <1>1
  <1>3. m * b = m * a + m * (b - a)
    BY <1>1
  <1> QED BY <1>2, <1>3

LEMMA Sizes ==
  /\ WIDTH \in Nat /\ WIDTH > 0 /\ HIGHT \in Nat /\ HIGHT > 0 /\ CELLS \in Nat /\ UINT32 \in Nat
  /\ WIDTH <= CELLS /\ WIDTH * HIGHT \in Nat /\ WIDTH * HIGHT <= CELLS /\ 2 * CELLS < UINT32
  /\ UINT32 \div 2 \in Nat /\ CELLS < UINT32 \div 2
  /\ LastLine \in Nat /\ Spare \in 0 .. WIDTH - 1 /\ CELLS = WIDTH * LastLine + Spare
PROOF
  <1>1. /\ WIDTH \in Nat /\ WIDTH > 0 /\ HIGHT \in Nat /\ HIGHT > 0
        /\ WIDTH * HIGHT \in Nat /\ WIDTH * HIGHT >= WIDTH
    <2>1. WIDTH \in Nat /\ WIDTH > 0 /\ HIGHT \in Nat /\ 1 <= HIGHT /\ 1 \in Nat
      BY TtyAssumption
    <2>2. WIDTH * 1 = WIDTH
      BY <2>1
    <2> QED BY <2>1, <2>2, Products
  <1>2. /\ CELLS \in Nat /\ UINT32 \in Nat /\ WIDTH * HIGHT <= CELLS /\ 2 * CELLS < UINT32
        /\ UINT32 % 2 = 0
    BY TtyAssumption
  <1>3. UINT32 \div 2 \in Nat /\ CELLS < UINT32 \div 2
    BY <1>2
  <1>4. LastLine \in Nat /\ Spare \in 0 .. WIDTH - 1 /\ CELLS = WIDTH * LastLine + Spare
    BY <1>1, <1>2, DivMod DEF LastLine, Line, Spare
  <1> QED BY <1>1, <1>2, <1>3, <1>4

LEMMA LineIs ==
  ASSUME NEW c \in Nat
  PROVE  /\ Line(c) \in Nat /\ c % WIDTH \in 0 .. WIDTH - 1
         /\ c = WIDTH * Line(c) + (c % WIDTH)
BY Sizes, DivMod DEF Line

LEMMA LineOrder ==
  ASSUME NEW c \in Nat, NEW d \in Nat, c <= d
  PROVE  Line(c) <= Line(d)
BY Sizes, DivOrder DEF Line

(* Before the start of line k                                               *)
LEMMA LineLess ==
  ASSUME NEW c \in Nat, NEW k \in Nat
  PROVE  /\ WIDTH * k \in Nat /\ Line(WIDTH * k) = k
         /\ c < WIDTH * k <=> Line(c) < k
PROOF
  <1>1. WIDTH * k \in Nat /\ Line(WIDTH * k) = k
    <2>1. WIDTH * k \in Nat /\ 0 \in 0 .. WIDTH - 1 /\ WIDTH * k = WIDTH * k + 0
      BY Sizes
    <2> QED BY Sizes, <2>1, DivIs DEF Line
  <1>2. WIDTH * k <= c => k <= Line(c)
    BY <1>1, LineOrder
  <1>3. k <= Line(c) => WIDTH * k <= c
    <2>1. k <= Line(c) => WIDTH * k <= WIDTH * Line(c)
      BY Sizes, LineIs, Products
    <2>2. WIDTH * Line(c) \in Nat /\ c % WIDTH \in Nat /\ c = WIDTH * Line(c) + (c % WIDTH)
      BY Sizes, LineIs
    <2> QED BY <1>1, <2>1, <2>2
  <1> QED BY <1>1, <1>2, <1>3, LineIs

(* The screen shows the lines from Top, all of them in video memory.        *)
ScreenInside == screen \in Positions /\ screen % WIDTH = 0 /\ screen + WIDTH * HIGHT <= CELLS

LEMMA ScreenIs ==
  ASSUME ScreenInside
  PROVE  /\ Top \in Nat /\ screen = WIDTH * Top /\ Top + HIGHT <= LastLine
         /\ \A c \in Nat : /\ c < screen <=> Line(c) < Top
                           /\ Below(c) <=> Line(c) >= Top + HIGHT
PROOF
  <1>1. screen \in Nat /\ Top \in Nat /\ screen = WIDTH * Top
    <2>1. screen \in Nat
      BY Sizes DEF ScreenInside, Positions
    <2> QED BY Sizes, LineIs, <2>1 DEF ScreenInside, Top
  <1>2. screen + WIDTH * HIGHT = WIDTH * (Top + HIGHT) /\ Top + HIGHT \in Nat
    BY Sizes, <1>1
  <1>3. ASSUME NEW c \in Nat
        PROVE  /\ c < screen <=> Line(c) < Top
               /\ Below(c) <=> Line(c) >= Top + HIGHT
    <2>1. Line(c) \in Nat
      BY LineIs
    <2>2. c < screen <=> Line(c) < Top
      BY <1>1, LineLess
    <2>3. c < WIDTH * (Top + HIGHT) <=> Line(c) < Top + HIGHT
      BY <1>2, LineLess
    <2>4. WIDTH * (Top + HIGHT) \in Nat
      BY <1>2, LineLess
    <2> QED BY <1>2, <2>1, <2>2, <2>3, <2>4 DEF Below
  <1>4. Top + HIGHT <= LastLine
    <2>1. ~(CELLS < WIDTH * (Top + HIGHT))
      BY Sizes, <1>2, LineLess DEF ScreenInside
    <2>2. ~(Line(CELLS) < Top + HIGHT)
      BY Sizes, <1>2, <2>1, LineLess
    <2> QED BY Sizes, <1>2, <2>2 DEF LastLine
  <1> QED BY <1>1, <1>3, <1>4

-----------------------------------------------------------------------------
(* One character: where the cursor goes, and where a character is set       *)
LEMMA MovedIs ==
  ASSUME NEW c \in Positions, NEW char
  PROVE  /\ Moved(c, char) \in Positions
         /\ \/ Moved(c, char) <= c + 1
            \/ Moved(c, char) = WIDTH * Line(Moved(c, char))
            \/ char = "DEL" /\ c = 0
         /\ char = "DEL" => c = 0 \/ Moved(c, char) <= c
PROOF
  <1>0. c \in Nat /\ c <= UINT32 - 1 /\ UINT32 \in Nat /\ UINT32 > 0
    BY Sizes DEF Positions
  <1>1. ASSUME NEW x \in Positions
        PROVE  /\ LineStart(x) \in Positions /\ LineStart(x) <= x
               /\ LineStart(x) = WIDTH * Line(LineStart(x))
    <2>1. x \in Nat /\ Line(x) \in Nat /\ x % WIDTH \in Nat /\ x = WIDTH * Line(x) + (x % WIDTH)
      BY Sizes, LineIs DEF Positions
    <2>2. WIDTH * Line(x) \in Nat /\ Line(WIDTH * Line(x)) = Line(x)
      BY <2>1, LineLess
    <2>3. LineStart(x) = WIDTH * Line(x)
      BY <2>1, <2>2, Sizes DEF LineStart
    <2> QED BY <2>1, <2>2, <2>3, <1>0 DEF Positions
  <1>2. CASE char = "NUL"
    BY <1>0, <1>2 DEF Moved
  <1>3. CASE char = "LF"
    <2>1. (c + WIDTH) % UINT32 \in Positions
      BY <1>0, Sizes DEF Positions
    <2>2. Moved(c, char) = LineStart((c + WIDTH) % UINT32)
      BY <1>3 DEF Moved
    <2> QED BY <1>1, <1>3, <2>1, <2>2
  <1>4. CASE char = "CR"
    <2>1. Moved(c, char) = LineStart(c)
      BY <1>4 DEF Moved
    <2> QED BY <1>1, <1>4, <2>1
  <1>5. CASE char = "BS"
    <2>1. Moved(c, char) = IF c % WIDTH = 0 THEN c ELSE c - 1
      BY <1>5 DEF Moved
    <2>2. c % WIDTH # 0 => c # 0
      BY Sizes, DivLess
    <2> QED BY <1>0, <1>5, <2>1, <2>2 DEF Positions
  <1>6. CASE char = "DEL"
    <2>1. Moved(c, char) = (c + UINT32 - 1) % UINT32
      BY <1>6 DEF Moved
    <2>2. c # 0 => (c + UINT32 - 1) % UINT32 = c - 1
      BY <1>0
    <2>3. c = 0 => (c + UINT32 - 1) % UINT32 = UINT32 - 1
      BY <1>0
    <2> QED BY <1>0, <1>6, <2>1, <2>2, <2>3 DEF Positions
  <1>7. CASE char \notin {"NUL", "LF", "CR", "BS", "DEL"}
    <2>1. Moved(c, char) = (c + 1) % UINT32
      BY <1>7 DEF Moved
    <2>2. (c + 1) % UINT32 \in Positions /\ (c + 1) % UINT32 <= c + 1
      BY <1>0 DEF Positions
    <2> QED BY <1>7, <2>1, <2>2
  <1> QED BY <1>2, <1>3, <1>4, <1>5, <1>6, <1>7
LEMMA CellIs ==
  ASSUME NEW c \in Nat
  PROVE  Cell(c) \in Nat /\ Cell(c) <= c /\ Line(Cell(c)) \in Nat /\ Line(Cell(c)) <= Line(c)
PROOF
  <1>1. Cell(c) \in Nat /\ Cell(c) <= c
    BY Sizes DEF Cell
  <1> QED BY <1>1, LineIs, LineOrder

(* From state s to p a character was set at e, if at all.                   *)
Sets(s, p, e) ==
  \/ p.ink = s.ink /\ p.outside = s.outside
  \/ Cell(e) < CELLS /\ p.ink = s.ink \cup {Line(Cell(e))} /\ p.outside = s.outside
  \/ Cell(e) >= CELLS /\ p.ink = s.ink /\ p.outside = TRUE

LEMMA SetCharIs ==
  ASSUME NEW s \in Display, NEW c \in Positions
  PROVE  /\ SetChar(s, c) \in Display /\ Sets(s, SetChar(s, c), c)
         /\ SetChar(s, c).screen = s.screen /\ SetChar(s, c).cursor = s.cursor
         /\ SetChar(s, c).strayed = s.strayed
PROOF
  <1>1. /\ s = [screen |-> s.screen, cursor |-> s.cursor, ink |-> s.ink, outside |-> s.outside,
                strayed |-> s.strayed]
        /\ s.screen \in Positions /\ s.cursor \in Positions /\ s.ink \subseteq 0 .. LastLine
        /\ s.outside \in BOOLEAN /\ s.strayed \subseteq Ways
    BY DEF Display, LastLine
  <1>2. Cell(c) \in Nat /\ c \in Nat
    BY Sizes, CellIs DEF Positions
  <1>3. CASE Cell(c) < CELLS
    <2>1. Line(Cell(c)) \in 0 .. LastLine
      BY Sizes, <1>2, <1>3, LineIs, LineOrder DEF LastLine
    <2>2. SetChar(s, c) = [s EXCEPT !.ink = s.ink \cup {Line(Cell(c))}]
      BY <1>3 DEF SetChar
    <2>3. SetChar(s, c) = [screen |-> s.screen, cursor |-> s.cursor,
                           ink |-> s.ink \cup {Line(Cell(c))}, outside |-> s.outside,
                           strayed |-> s.strayed]
      BY <1>1, <2>2
    <2>4. /\ SetChar(s, c).screen = s.screen /\ SetChar(s, c).cursor = s.cursor
          /\ SetChar(s, c).ink = s.ink \cup {Line(Cell(c))} /\ SetChar(s, c).outside = s.outside
          /\ SetChar(s, c).strayed = s.strayed
      BY <2>3
    <2>5. SetChar(s, c) \in Display
      BY <1>1, <2>1, <2>3 DEF Display, LastLine
    <2> QED BY <1>3, <2>4, <2>5 DEF Sets
  <1>4. CASE ~(Cell(c) < CELLS)
    <2>1. SetChar(s, c) = [s EXCEPT !.outside = TRUE]
      BY <1>4 DEF SetChar
    <2>2. SetChar(s, c) = [screen |-> s.screen, cursor |-> s.cursor, ink |-> s.ink,
                           outside |-> TRUE, strayed |-> s.strayed]
      BY <1>1, <2>1
    <2>3. Cell(c) >= CELLS
      BY <1>2, <1>4, Sizes
    <2>4. /\ SetChar(s, c).screen = s.screen /\ SetChar(s, c).cursor = s.cursor
          /\ SetChar(s, c).ink = s.ink /\ SetChar(s, c).outside = TRUE
          /\ SetChar(s, c).strayed = s.strayed
      BY <2>2
    <2>5. SetChar(s, c) \in Display
      BY <1>1, <2>2 DEF Display, LastLine
    <2> QED BY <2>3, <2>4, <2>5 DEF Sets
  <1> QED BY <1>3, <1>4

(* A character is set where the cursor was, or is.                          *)
LEMMA PutIs ==
  ASSUME NEW s \in Display, NEW char
  PROVE  LET d == Moved(s.cursor, char)
             p == Put(char, s)
         IN  /\ p \in Display /\ p.screen = s.screen /\ p.cursor = d
             /\ p.strayed = s.strayed \cup Strays(s.cursor, d, char)
             /\ \E e \in {s.cursor, d} : /\ e <= s.cursor \/ "start" \in p.strayed
                                         /\ Sets(s, p, e)
PROOF
  <1> DEFINE c == s.cursor
             d == Moved(c, char)
             z == Strays(c, d, char)
             t == [s EXCEPT !.cursor = d, !.strayed = @ \cup z]
             p == Put(char, s)
  <1>1. /\ s = [screen |-> s.screen, cursor |-> c, ink |-> s.ink, outside |-> s.outside,
                strayed |-> s.strayed]
        /\ s.screen \in Positions /\ c \in Positions /\ s.ink \subseteq 0 .. Line(CELLS)
        /\ s.outside \in BOOLEAN /\ s.strayed \subseteq Ways
    BY DEF Display
  <1>2. d \in Positions /\ c \in Nat
    BY <1>1, MovedIs, Sizes DEF Positions
  <1>3. z \subseteq Ways
    BY DEF Strays, Ways
  <1> HIDE DEF d, z
  <1>4. t \in Display
    BY <1>1, <1>2, <1>3 DEF Display
  <1>5. /\ t \in Display /\ t.screen = s.screen /\ t.cursor = d /\ t.ink = s.ink
        /\ t.outside = s.outside /\ t.strayed = s.strayed \cup z
    BY <1>1, <1>4
  <1> HIDE DEF c, t
  <1>6. /\ p \in Display /\ p.screen = s.screen /\ p.cursor = d /\ p.strayed = t.strayed
        /\ \E e \in {c, d} : /\ e <= c \/ "start" \in p.strayed
                             /\ Sets(s, p, e)
    <2>1. CASE char \in {"NUL", "LF", "CR", "BS"}
      <3>1. p = t
        BY <2>1 DEF Put, c, d, t, z
      <3>2. Sets(s, p, c) /\ c <= c
        BY <1>2, <1>5, <3>1 DEF Sets
      <3> QED BY <1>5, <3>1, <3>2
    <2>2. CASE char = "DEL"
      <3>1. p = SetChar(t, d)
        BY <1>5, <2>2 DEF Put, c, d, t, z
      <3>2. d <= c \/ "start" \in t.strayed
        <4>1. d <= c \/ c = 0
          BY <1>1, <2>2, MovedIs DEF d
        <4> QED BY <1>5, <2>2, <4>1 DEF Strays, z
      <3>3. Sets(t, p, d) => Sets(s, p, d)
        BY <1>5 DEF Sets
      <3> QED BY <1>2, <1>5, <3>1, <3>2, <3>3, SetCharIs
    <2>3. CASE char \notin {"NUL", "LF", "CR", "BS", "DEL"}
      <3>1. p = SetChar(t, c)
        BY <2>3 DEF Put, c, d, t, z
      <3>2. Sets(t, p, c) => Sets(s, p, c)
        BY <1>5 DEF Sets
      <3>3. c <= c
        BY <1>2
      <3> QED BY <1>1, <1>2, <1>5, <3>1, <3>2, <3>3, SetCharIs, SMTT(60) DEF c
    <2> QED BY <2>1, <2>2, <2>3
  <1> QED BY <1>5, <1>6 DEF c, d, p, z

-----------------------------------------------------------------------------
(* What a write has reached after k characters: it has come no further than *)
(* its way and its length allow.                                            *)
Now == [screen |-> screen, cursor |-> cursor, ink |-> ink, outside |-> outside,
        strayed |-> strayed]

Reached(s, k) ==
  /\ s \in Display /\ s.screen = screen /\ strayed \subseteq s.strayed
  /\ s.strayed \cap {"start", "far"} = {} =>
       /\ Line(s.cursor) <= Line(cursor) + 1
       /\ s.cursor + 1 <= WIDTH * LastLine + k
       /\ k <= Spare + 1 => (s.outside => outside)
  /\ s.strayed \cap {"start", "far", "back"} = {} =>
       \A l \in s.ink : l < Top + HIGHT \/ (l = Top + HIGHT /\ Below(s.cursor))
(* Without having strayed the cursor is not below the screen.               *)
Steady == strayed \cap {"start", "far"} = {} => ~Below(cursor)

LEMMA SteadyIs ==
  ASSUME ScreenInside, cursor \in Positions, Steady, strayed \cap {"start", "far"} = {}
  PROVE  Line(cursor) \in Nat /\ Line(cursor) + 1 <= Top + HIGHT /\ Line(cursor) + 1 <= LastLine
PROOF
  <1>1. cursor \in Nat /\ Line(cursor) \in Nat
    BY Sizes, LineIs DEF Positions
  <1>2. ~(Line(cursor) >= Top + HIGHT)
    BY <1>1, ScreenIs DEF Steady
  <1> QED BY <1>1, <1>2, ScreenIs, Sizes

LEMMA ReachedFirst ==
  ASSUME ScreenInside, TtyTypeOK, Steady, FreshLines
  PROVE  Reached(Now, 0)
PROOF
  <1>1. cursor \in Positions /\ cursor \in Nat
    BY Sizes DEF TtyTypeOK, Positions
  <1>2. /\ Now.screen = screen /\ Now.cursor = cursor /\ Now.ink = ink /\ Now.outside = outside
        /\ Now.strayed = strayed
    BY DEF Now
  <1>3. Now \in Display
    BY DEF Now, Display, TtyTypeOK, Positions, Ways
  <1>4. ASSUME strayed \cap {"start", "far"} = {}
        PROVE  Line(cursor) <= Line(cursor) + 1 /\ cursor + 1 <= WIDTH * LastLine + 0
    <2>1. Line(cursor) \in Nat /\ Line(cursor) + 1 <= LastLine
      BY <1>1, <1>4, SteadyIs
    <2>2. cursor < WIDTH * LastLine /\ WIDTH * LastLine \in Nat
      BY <1>1, <2>1, Sizes, LineLess
    <2> QED BY <1>1, <2>1, <2>2
  <1>5. ASSUME strayed \cap {"start", "far", "back"} = {}
        PROVE  \A l \in ink : l < Top + HIGHT
    BY <1>5 DEF FreshLines, Top
  <1> HIDE DEF Now
  <1> QED BY <1>2, <1>3, <1>4, <1>5 DEF Reached

LEMMA ReachedNext ==
  ASSUME ScreenInside, cursor \in Positions, Steady,
         NEW k \in Nat, NEW s, Reached(s, k), NEW char
  PROVE  Reached(Put(char, s), k + 1)
PROOF
  <1> DEFINE c == s.cursor
             d == Moved(c, char)
             p == Put(char, s)
  <1>1. /\ s \in Display /\ s.screen = screen /\ strayed \subseteq s.strayed
        /\ c \in Positions /\ d \in Positions
    BY MovedIs DEF Reached, Display
  <1>2. /\ p \in Display /\ p.screen = s.screen /\ p.cursor = d
        /\ p.strayed = s.strayed \cup Strays(c, d, char)
        /\ \E e \in {c, d} : (e <= c \/ "start" \in p.strayed) /\ Sets(s, p, e)
    BY <1>1, PutIs
  <1>3. PICK e \in {c, d} : (e <= c \/ "start" \in p.strayed) /\ Sets(s, p, e)
    BY <1>2
  <1>4. /\ c \in Nat /\ d \in Nat /\ e \in Nat /\ cursor \in Nat
        /\ Line(c) \in Nat /\ Line(d) \in Nat /\ Line(e) \in Nat /\ Line(cursor) \in Nat
    <2> HIDE DEF c, d
    <2>1. c \in Nat /\ d \in Nat /\ e \in Nat /\ cursor \in Nat
      BY <1>1, <1>3, Sizes DEF Positions
    <2> QED BY <2>1, LineIs
  <1>5. char = "DEL" /\ c = 0 => "start" \in p.strayed
    BY <1>2 DEF Strays
  <1>6. Line(d) > Line(cursor) + 1 => "far" \in p.strayed
    BY <1>2 DEF Strays
  <1>7. Below(c) /\ ~Below(d) => "back" \in p.strayed
    BY <1>2 DEF Strays
  <1>8. \/ d <= c + 1
        \/ d = WIDTH * Line(d)
        \/ char = "DEL" /\ c = 0
    BY <1>1, MovedIs
  <1> HIDE DEF c, d, p
  <1>9. ASSUME p.strayed \cap {"start", "far"} = {}
        PROVE  /\ Line(c) <= Line(cursor) + 1 /\ Line(d) <= Line(cursor) + 1
               /\ Line(cursor) + 1 <= Top + HIGHT
               /\ d + 1 <= WIDTH * LastLine + (k + 1)
               /\ k + 1 <= Spare + 1 => (p.outside => outside)
    <2>1. s.strayed \cap {"start", "far"} = {} /\ strayed \cap {"start", "far"} = {}
      BY <1>1, <1>2, <1>9
    <2>2. /\ Line(c) <= Line(cursor) + 1 /\ c + 1 <= WIDTH * LastLine + k
          /\ k <= Spare + 1 => (s.outside => outside)
      BY <2>1 DEF Reached, c
    <2>3. Line(cursor) + 1 <= Top + HIGHT /\ Line(cursor) + 1 <= LastLine
      BY <2>1, SteadyIs
    <2>4. Line(d) <= Line(cursor) + 1
      BY <1>4, <1>6, <1>9
    <2>5. Line(d) <= LastLine /\ WIDTH * LastLine \in Nat /\ WIDTH * Line(d) <= WIDTH * LastLine
      <3>1. Line(d) <= LastLine
        BY <1>4, <2>3, <2>4, Sizes
      <3> QED BY <1>4, <3>1, Sizes, Products
    <2>6. d + 1 <= WIDTH * LastLine + (k + 1)
      <3>1. CASE d <= c + 1
        BY <1>4, <2>2, <2>5, <3>1
      <3>2. CASE d = WIDTH * Line(d)
        BY <1>4, <2>5, <3>2
      <3> QED BY <1>5, <1>8, <1>9, <3>1, <3>2
    <2>7. ASSUME k + 1 <= Spare + 1, p.outside
          PROVE  outside
      <3>1. e <= c /\ Cell(e) \in Nat /\ Cell(e) <= e
        BY <1>3, <1>4, <1>9, CellIs
      <3>2. e + 1 <= CELLS
        BY <1>4, <2>2, <2>5, <2>7, <3>1, Sizes
      <3>3. ~(Cell(e) >= CELLS)
        BY <1>4, <3>1, <3>2, Sizes
      <3>4. p.outside = s.outside
        BY <1>3, <3>3 DEF Sets
      <3>5. k <= Spare + 1
        BY <2>7, Sizes
      <3> QED BY <2>2, <2>7, <3>4, <3>5
    <2> QED BY <2>2, <2>3, <2>4, <2>6, <2>7
  <1>10. ASSUME p.strayed \cap {"start", "far", "back"} = {}, NEW l \in p.ink
         PROVE  l < Top + HIGHT \/ (l = Top + HIGHT /\ Below(d))
    <2>1. Below(c) => Below(d)
      BY <1>7, <1>10
    <2>2. p.strayed \cap {"start", "far"} = {} /\ s.strayed \cap {"start", "far", "back"} = {}
      BY <1>2, <1>10
    <2>3. CASE l \in s.ink
      BY <2>1, <2>2, <2>3 DEF Reached, c
    <2>4. CASE l \notin s.ink
      <3>1. l = Line(Cell(e))
        BY <1>3, <1>10, <2>4 DEF Sets
      <3>2. l \in Nat /\ l <= Line(e)
        BY <1>4, <3>1, CellIs
      <3>3. Line(e) <= Top + HIGHT /\ Top \in Nat /\ HIGHT \in Nat
        <4>1. Top \in Nat /\ HIGHT \in Nat
          BY ScreenIs, Sizes
        <4> QED BY <1>3, <1>4, <1>9, <2>2, <4>1
      <3>4. Line(e) >= Top + HIGHT => Below(d)
        <4>1. Line(e) >= Top + HIGHT => Below(e)
          BY <1>4, ScreenIs
        <4> QED BY <1>3, <2>1, <4>1
      <3> QED BY <1>4, <3>2, <3>3, <3>4
    <2> QED BY <2>3, <2>4
  <1>11. strayed \subseteq p.strayed /\ p.screen = screen
    BY <1>1, <1>2
  <1> QED BY <1>2, <1>9, <1>10, <1>11 DEF Reached, p

(* The characters of a write, one after the other                           *)
Characters(buf) ==
  LET at[k \in 0 .. Len(buf)] == IF k = 0 THEN Now ELSE Put(buf[k], at[k - 1])
  IN  at

LEMMA CharactersAre ==
  ASSUME TtyTypeOK, NEW S, NEW buf \in Seq(S)
  PROVE  LET at == Characters(buf)
         IN  at[0] = Now /\ \A k \in 1 .. Len(buf) : at[k] = Put(buf[k], at[k - 1])
PROOF
  <1> DEFINE n == Len(buf)
             step == [k \in 1 .. n |-> [s \in Display |-> Put(buf[k], s)]]
             Is(g) == g = [k \in 0 .. n |-> IF k = 0 THEN Now ELSE Put(buf[k], g[k - 1])]
             at == Characters(buf)
  <1>1. n \in Nat /\ Now \in Display
    BY DEF Now, Display, TtyTypeOK, Positions, Ways
  <1>2. ASSUME NEW k \in 1 .. n, NEW s \in Display
        PROVE  Put(buf[k], s) \in Display /\ step[k][s] = Put(buf[k], s)
    <2>1. Put(buf[k], s) \in Display
      BY PutIs
    <2> QED BY <2>1
  <1>3. Stepping(step, n, Display)
    BY <1>2 DEF Stepping
  <1> HIDE DEF step, n
  <1>4. PICK f : Follows(f, n, Display, Now, step)
    BY <1>1, <1>3, StepsExist
  <1>5. /\ f \in [0 .. n -> Display] /\ f[0] = Now
        /\ \A k \in 1 .. n : f[k] = step[k][f[k - 1]]
    BY <1>4 DEF Follows
  <1>6. ASSUME NEW k \in 0 .. n
        PROVE  f[k] = IF k = 0 THEN Now ELSE Put(buf[k], f[k - 1])
    <2>1. CASE k # 0
      <3>1. k \in 1 .. n /\ k - 1 \in 0 .. n
        BY <1>1, <2>1
      <3>2. f[k - 1] \in Display
        BY <1>5, <3>1
      <3> QED BY <1>2, <1>5, <2>1, <3>1, <3>2
    <2> QED BY <1>5, <2>1
  <1>7. Is(f)
    BY <1>5, <1>6
  <1>8. at = CHOOSE g : Is(g)
    BY DEF Characters, n
  <1>9. Is(at)
    <2> HIDE DEF Is, at
    <2> QED BY <1>7, <1>8, Zenon
  <1> HIDE DEF at
  <1>10. at[0] = Now /\ \A k \in 1 .. n : at[k] = Put(buf[k], at[k - 1])
    BY <1>1, <1>9
  <1> QED BY <1>10 DEF at, n

LEMMA ReachedAll ==
  ASSUME ScreenInside, TtyTypeOK, Steady, FreshLines, NEW S, NEW buf \in Seq(S)
  PROVE  Reached(Characters(buf)[Len(buf)], Len(buf))
PROOF
  <1> DEFINE n == Len(buf)
             at == Characters(buf)
             T == {k \in 0 .. n : Reached(at[k], k)}
  <1>1. n \in Nat /\ at[0] = Now /\ \A k \in 1 .. n : at[k] = Put(buf[k], at[k - 1])
    BY CharactersAre
  <1>2. cursor \in Positions
    BY DEF TtyTypeOK, Positions
  <1> HIDE DEF n, at
  <1>3. 0 \in T
    BY <1>1, ReachedFirst
  <1>4. ASSUME NEW k \in 0 .. n, k # n, k \in T
        PROVE  k + 1 \in T
    <2>1. k + 1 \in 1 .. n /\ k + 1 \in 0 .. n /\ (k + 1) - 1 = k /\ k \in Nat
      BY <1>1, <1>4
    <2>2. at[k + 1] = Put(buf[k + 1], at[k])
      BY <1>1, <2>1
    <2>3. Reached(Put(buf[k + 1], at[k]), k + 1)
      BY <1>2, <1>4, <2>1, ReachedNext
    <2> QED BY <2>1, <2>2, <2>3
  <1>5. n \in T
    <2>1. n \in 0 .. n
      BY <1>1
    <2> HIDE DEF T
    <2> QED BY <1>1, <1>3, <1>4, <2>1, Upwards
  <1> QED BY <1>5 DEF n, at
-----------------------------------------------------------------------------
(* The four ways to scroll, from what the characters left                   *)
LEMMA ScrolledIs ==
  ASSUME ScreenInside, NEW s \in Display, s.screen = screen
  PROVE  LET t == Scrolled(s) IN
         /\ t \in Display /\ t.outside = s.outside /\ t.strayed = s.strayed
         /\ \/ /\ s.cursor < screen /\ Top >= 1 /\ t.screen = WIDTH * (Top - 1)
               /\ t.cursor = s.cursor /\ t.ink = s.ink
            \/ /\ Below(s.cursor) /\ t.screen = WIDTH * (Top + 1)
               /\ t.screen + WIDTH * HIGHT <= CELLS /\ t.cursor = s.cursor /\ t.ink = s.ink
            \/ Below(s.cursor) /\ t.screen = 0 /\ t.cursor = 0 /\ t.ink = {}
            \/ /\ ~(s.cursor < screen) /\ ~Below(s.cursor)
               /\ t.screen = screen /\ t.cursor = s.cursor /\ t.ink = s.ink
PROOF
  <1> DEFINE t == Scrolled(s)
  <1>1. /\ s.screen \in Positions /\ s.cursor \in Positions /\ s.ink \subseteq 0 .. Line(CELLS)
        /\ s.outside \in BOOLEAN /\ s.strayed \subseteq Ways
    BY DEF Display
  <1>2. /\ screen \in Nat /\ s.cursor \in Nat /\ Top \in Nat /\ screen = WIDTH * Top
        /\ WIDTH * HIGHT \in Nat /\ screen <= CELLS /\ 0 \in Positions
    <2>1. screen \in Nat /\ s.cursor \in Nat /\ 0 \in Positions
      BY <1>1, Sizes DEF Positions
    <2> QED BY <2>1, ScreenIs, Sizes DEF ScreenInside
  <1>3. CASE s.cursor < screen
    <2>1. Top >= 1 /\ Top - 1 \in Nat /\ screen = WIDTH * (Top - 1) + WIDTH
      <3>1. Top # 0
        <4>1. WIDTH * 0 = 0
          BY Sizes
        <4> QED BY <1>2, <1>3, <4>1
      <3> QED BY <1>2, <3>1, Sizes
    <2>2. WIDTH * (Top - 1) \in Nat
      BY <2>1, Sizes
    <2> DEFINE up == (screen + UINT32 - WIDTH) % UINT32
    <2>3. up = WIDTH * (Top - 1) /\ up \in Positions
      <3> DEFINE x == WIDTH * (Top - 1)
      <3>1. x \in Nat /\ screen = x + WIDTH /\ x < UINT32
        BY <1>2, <2>1, <2>2, Sizes
      <3> HIDE DEF x
      <3>2. screen + UINT32 - WIDTH = UINT32 + x /\ (UINT32 + x) % UINT32 = x
        BY <3>1, Sizes
      <3>3. up = x /\ up \in Positions
        BY <3>1, <3>2, Sizes DEF Positions
      <3> QED BY <3>3 DEF x
    <2> HIDE DEF up
    <2>4. t = [s EXCEPT !.screen = up]
      <3>1. ~Below(s.cursor)
        BY <1>2, <1>3 DEF Below
      <3> QED BY <1>3, <3>1 DEF Scrolled, Back, up
    <2>5. t \in Display
      BY <2>3, <2>4 DEF Display
    <2>6. /\ t.screen = up /\ t.cursor = s.cursor /\ t.ink = s.ink /\ t.outside = s.outside
          /\ t.strayed = s.strayed
      BY <2>4 DEF Display
    <2> HIDE DEF t
    <2> QED BY <1>3, <2>1, <2>3, <2>5, <2>6 DEF t
  <1>4. CASE ~(s.cursor < screen) /\ Below(s.cursor) /\ ~PastEnd(screen + WIDTH)
    <2>1. screen + WIDTH = WIDTH * (Top + 1) /\ screen + WIDTH \in Nat
      BY <1>2, Sizes
    <2>2. screen + WIDTH + WIDTH * HIGHT <= CELLS
      BY <1>2, <1>4, <2>1, Sizes DEF PastEnd
    <2>3. screen + WIDTH \in Positions
      BY <1>2, <2>1, <2>2, Sizes DEF Positions
    <2>4. t = [s EXCEPT !.screen = screen + WIDTH]
      BY <1>4 DEF Scrolled
    <2>5. t \in Display
      BY <2>3, <2>4 DEF Display
    <2>6. /\ t.screen = screen + WIDTH /\ t.cursor = s.cursor /\ t.ink = s.ink
          /\ t.outside = s.outside /\ t.strayed = s.strayed
      BY <2>4 DEF Display
    <2> HIDE DEF t
    <2> QED BY <1>4, <2>1, <2>2, <2>5, <2>6 DEF t
  <1>5. CASE ~(s.cursor < screen) /\ Below(s.cursor) /\ PastEnd(screen + WIDTH)
    <2>1. t = [s EXCEPT !.screen = 0, !.cursor = 0, !.ink = {}]
      BY <1>5 DEF Scrolled, Erased
    <2>2. t \in Display
      BY <1>2, <2>1 DEF Display
    <2>3. /\ t.screen = 0 /\ t.cursor = 0 /\ t.ink = {} /\ t.outside = s.outside
          /\ t.strayed = s.strayed
      BY <2>1 DEF Display
    <2> HIDE DEF t
    <2> QED BY <1>5, <2>2, <2>3 DEF t
  <1>6. CASE ~(s.cursor < screen) /\ ~Below(s.cursor)
    <2>1. t = s
      BY <1>6 DEF Scrolled
    <2> HIDE DEF t
    <2> QED BY <1>6, <2>1 DEF t
  <1> QED BY <1>3, <1>4, <1>5, <1>6

(* What a write of n characters leaves, from their state s                  *)
Left(s, n) ==
  LET t == Scrolled(s) IN
  /\ screen' = t.screen /\ cursor' = t.cursor /\ ink' = t.ink /\ outside' = t.outside
  /\ strayed' = t.strayed \cup WriteStrays(s.cursor, n)

LEMMA WriteIs ==
  ASSUME NEW S, NEW buf \in Seq(S), tty_write(buf)
  PROVE  LET s == Characters(buf)[Len(buf)]
         IN  Left(s, Len(buf))
BY DEF Left, tty_write, Characters, Now

IInv == CursorOnScreen /\ WritesInside /\ FreshLines /\ Steady

LEMMA InitIInv == TtyInit => IInv
PROOF
  <1> SUFFICES ASSUME TtyInit PROVE IInv
    OBVIOUS
  <1>1. screen = 0 /\ cursor = 0 /\ ink = {} /\ outside = FALSE /\ strayed = {}
    BY DEF TtyInit
  <1>2. 0 % WIDTH = 0 /\ 0 + WIDTH * HIGHT <= CELLS /\ WIDTH * HIGHT > 0 /\ WIDTH * HIGHT \in Nat
    <2>1. 1 \in Nat /\ 1 <= HIGHT /\ WIDTH * 1 = WIDTH
      BY Sizes
    <2>2. WIDTH <= WIDTH * HIGHT
      BY <2>1, Sizes, Products
    <2> QED BY <2>2, Sizes
  <1>3. ~Below(0)
    BY <1>1, <1>2 DEF Below
  <1>4. TtyTypeOK
    <2>1. 0 \in 0 .. UINT32 - 1
      BY Sizes
    <2> QED BY <1>1, <2>1 DEF TtyTypeOK
  <1> QED BY <1>1, <1>2, <1>3, <1>4 DEF IInv, CursorOnScreen, OnScreen, WritesInside, FreshLines, Steady

LEMMA LeftIInv ==
  ASSUME IInv, NEW n \in Nat, NEW s, Reached(s, n), Left(s, n)
  PROVE  IInv'
PROOF
  <1> DEFINE t == Scrolled(s)
             c == s.cursor
  <1>1. TtyTypeOK /\ ScreenInside /\ Steady /\ FreshLines /\ WritesInside /\ cursor \in Positions
    BY DEF IInv, CursorOnScreen, TtyTypeOK, ScreenInside, Positions
  <1>2. n \in Nat /\ Reached(s, n)
    OBVIOUS
  <1>3. s \in Display /\ s.screen = screen /\ strayed \subseteq s.strayed
    BY <1>2 DEF Reached
  <1>4. /\ screen' = t.screen /\ cursor' = t.cursor /\ ink' = t.ink /\ outside' = t.outside
        /\ strayed' = t.strayed \cup WriteStrays(c, n)
    BY DEF Left
  <1>5. /\ t \in Display /\ t.outside = s.outside /\ t.strayed = s.strayed
        /\ \/ /\ c < screen /\ Top >= 1 /\ t.screen = WIDTH * (Top - 1)
              /\ t.cursor = c /\ t.ink = s.ink
           \/ /\ Below(c) /\ t.screen = WIDTH * (Top + 1)
              /\ t.screen + WIDTH * HIGHT <= CELLS /\ t.cursor = c /\ t.ink = s.ink
           \/ Below(c) /\ t.screen = 0 /\ t.cursor = 0 /\ t.ink = {}
           \/ /\ ~(c < screen) /\ ~Below(c)
              /\ t.screen = screen /\ t.cursor = c /\ t.ink = s.ink
    BY <1>1, <1>3, ScrolledIs
  <1>6. c \in Nat /\ Line(c) \in Nat /\ cursor \in Nat /\ Line(cursor) \in Nat
    <2>1. c \in Nat /\ cursor \in Nat
      BY <1>1, <1>3, Sizes DEF Display, Positions
    <2> HIDE DEF c
    <2> QED BY <2>1, LineIs
  <1> HIDE DEF t, c
  <1>7. strayed' = s.strayed \cup WriteStrays(c, n) /\ outside' = s.outside
    BY <1>4, <1>5
  <1>8. /\ WriteStrays(c, n) \subseteq Ways
        /\ n > Spare + 1 => "length" \in WriteStrays(c, n)
        /\ c < screen => "back" \in WriteStrays(c, n)
        /\ "lines" \in WriteStrays(c, n) \/ Line(c) \in {Line(cursor), Line(cursor) + 1}
                                        \/ Line(c) + 1 = Line(cursor)
    BY DEF WriteStrays, Ways
  <1>9. /\ Top \in Nat /\ screen = WIDTH * Top /\ Top + HIGHT <= LastLine
        /\ c < screen <=> Line(c) < Top
        /\ Below(c) <=> Line(c) >= Top + HIGHT
        /\ OnScreen <=> Line(cursor) >= Top /\ Line(cursor) < Top + HIGHT
    BY <1>1, <1>6, ScreenIs, Sizes DEF OnScreen, ScreenInside, Positions
  <1>10. TtyTypeOK'
    <2>1. s.strayed \subseteq Ways
      BY <1>3 DEF Display
    <2> QED BY <1>4, <1>5, <1>7, <1>8, <2>1 DEF TtyTypeOK, Display, Positions, Ways
  (* The screen of lines top .. top + HIGHT - 1 after the write *)
  <1>11. PICK top \in Nat : /\ screen' = WIDTH * top
                            /\ \/ c < screen /\ top = Top - 1 /\ cursor' = c /\ ink' = s.ink
                               \/ Below(c) /\ top = Top + 1 /\ cursor' = c /\ ink' = s.ink
                               \/ Below(c) /\ top = 0 /\ cursor' = 0 /\ ink' = {}
                               \/ /\ ~(c < screen) /\ ~Below(c) /\ top = Top
                                  /\ cursor' = c /\ ink' = s.ink
    <2>1. WIDTH * 0 = 0 /\ 0 \in Nat /\ Top + 1 \in Nat
      BY <1>9, Sizes
    <2>2. Top >= 1 => Top - 1 \in Nat
      BY <1>9
    <2> QED BY <1>4, <1>5, <1>9, <2>1, <2>2
  <1>12. screen' + WIDTH * HIGHT <= CELLS
    <2>1. WIDTH * (Top - 1) <= WIDTH * Top \/ Top = 0
      <3>1. Top # 0 => Top - 1 \in Nat /\ Top - 1 <= Top
        BY <1>9
      <3> QED BY <1>9, <3>1, Sizes, Products
    <2>2. screen + WIDTH * HIGHT <= CELLS /\ screen \in Nat /\ screen' \in Nat
      BY <1>1, <1>10, Sizes DEF ScreenInside, TtyTypeOK, Positions
    <2>3. screen' <= screen \/ screen' + WIDTH * HIGHT <= CELLS
      BY <1>4, <1>5, <1>9, <2>1, <2>2
    <2>4. PICK shown \in Nat, start \in Nat : shown = WIDTH * HIGHT /\ start = screen'
      BY <2>2, Sizes
    <2>5. /\ CELLS \in Nat /\ screen + shown <= CELLS /\ screen \in Nat
          /\ start <= screen \/ start + shown <= CELLS
      BY <2>2, <2>3, <2>4, Sizes
    <2>6. start + shown <= CELLS
      BY <2>5
    <2> QED BY <2>4, <2>6
  <1>13. (ScreenInside /\ TtyTypeOK)' /\ Line(screen') = top
    <2>1. Line(WIDTH * top) = top /\ WIDTH * top \in Nat
      BY LineLess, Sizes
    <2>2. (WIDTH * top) % WIDTH = 0
      <3>1. WIDTH * top = WIDTH * top + 0 /\ 0 \in 0 .. WIDTH - 1
        BY <2>1, Sizes
      <3> QED BY <2>1, <3>1, Sizes, DivIs
    <2> QED BY <1>10, <1>11, <1>12, <2>1, <2>2 DEF ScreenInside, TtyTypeOK, Positions
  <1>14. /\ cursor' \in Nat /\ Line(cursor') \in Nat
         /\ Below(cursor)' <=> Line(cursor') >= top + HIGHT
         /\ OnScreen' <=> Line(cursor') >= top /\ Line(cursor') < top + HIGHT
    <2>1. cursor' \in Nat
      BY <1>13, Sizes DEF TtyTypeOK, Positions
    <2>2. Line(cursor') \in Nat /\ (cursor' < WIDTH * top <=> Line(cursor') < top)
      BY <2>1, LineIs, LineLess
    <2>3. /\ top + HIGHT \in Nat /\ WIDTH * (top + HIGHT) = screen' + WIDTH * HIGHT
          /\ screen' \in Nat
      BY <1>11, <1>13, Sizes DEF ScreenInside, Positions
    <2>4. cursor' < WIDTH * (top + HIGHT) <=> Line(cursor') < top + HIGHT
      BY <2>1, <2>3, LineLess
    <2>5. Below(cursor)' <=> ~(cursor' < screen' + WIDTH * HIGHT)
      <3>1. PICK shown \in Nat, start \in Nat, c2 \in Nat :
              shown = WIDTH * HIGHT /\ start = screen' /\ c2 = cursor'
        BY <2>1, <2>3, Sizes
      <3>2. Below(cursor)' <=> c2 >= start + shown
        BY <2>3, <3>1 DEF Below
      <3>3. Below(cursor)' <=> ~(c2 < start + shown)
        BY <3>2
      <3> QED BY <3>1, <3>3
    <2>6. cursor' >= screen' <=> ~(cursor' < screen')
      BY <2>1, <2>3
    <2>7. Below(cursor)' <=> Line(cursor') >= top + HIGHT
      BY <2>2, <2>3, <2>4, <2>5
    <2>8. OnScreen' <=> cursor' >= screen' /\ ~Below(cursor)'
      BY DEF OnScreen
    <2> QED BY <1>11, <2>1, <2>2, <2>3, <2>6, <2>7, <2>8
  <1>15. CursorOnScreen'
    <2>1. ASSUME "lines" \notin strayed'
          PROVE  Line(cursor') >= top /\ Line(cursor') < top + HIGHT
      <3>1. Line(cursor) >= Top /\ Line(cursor) < Top + HIGHT
        <4>1. "lines" \notin strayed
          BY <1>3, <1>7, <2>1
        <4> QED BY <1>9, <4>1 DEF IInv, CursorOnScreen
      <3>2. Line(c) \in {Line(cursor), Line(cursor) + 1} \/ Line(c) + 1 = Line(cursor)
        BY <1>7, <1>8, <2>1
      <3>3. Line(0) = 0
        BY Sizes, DivLess DEF Line
      <3> QED BY <1>6, <1>9, <1>11, <3>1, <3>2, <3>3, Sizes
    <2> QED BY <1>13, <1>14, <2>1 DEF CursorOnScreen, ScreenInside
  <1>16. Steady'
    <2>1. SUFFICES ASSUME strayed' \cap {"start", "far"} = {} PROVE Line(cursor') < top + HIGHT
      BY <1>14, Sizes DEF Steady
    <2>2. strayed \cap {"start", "far"} = {} /\ s.strayed \cap {"start", "far"} = {}
      BY <1>3, <1>7, <2>1
    <2>3. Line(c) <= Line(cursor) + 1 /\ Line(cursor) + 1 <= Top + HIGHT
      BY <1>1, <1>2, <2>2, SteadyIs DEF Reached, c
    <2>4. Line(0) = 0
      BY Sizes, DivLess DEF Line
    <2> QED BY <1>6, <1>9, <1>11, <2>3, <2>4, Sizes
  <1>17. WritesInside'
    <2>1. SUFFICES ASSUME strayed' \cap {"start", "far", "length"} = {}, outside' PROVE FALSE
      BY DEF WritesInside
    <2>2. s.strayed \cap {"start", "far"} = {} /\ n <= Spare + 1
      BY <1>2, <1>7, <1>8, <2>1, Sizes
    <2>3. outside
      BY <1>2, <1>7, <2>1, <2>2 DEF Reached
    <2>4. strayed \cap {"start", "far", "length"} = {}
      BY <1>3, <1>7, <2>1
    <2> QED BY <1>1, <2>3, <2>4 DEF WritesInside
  <1>18. FreshLines'
    <2>1. SUFFICES ASSUME strayed' \cap {"start", "far", "back"} = {}, NEW l \in ink'
                   PROVE  l < top + HIGHT
      BY <1>13 DEF FreshLines
    <2>2. s.strayed \cap {"start", "far", "back"} = {} /\ ~(c < screen)
      BY <1>7, <1>8, <2>1
    <2>3. ink' = s.ink => l < Top + HIGHT \/ (l = Top + HIGHT /\ Below(c))
      BY <1>2, <2>1, <2>2 DEF Reached, c
    <2>4. l \in Nat
      BY <1>10, <2>1, Sizes DEF TtyTypeOK, LastLine
    <2> QED BY <1>9, <1>11, <2>1, <2>2, <2>3, <2>4, Sizes
  <1> QED BY <1>15, <1>16, <1>17, <1>18 DEF IInv

LEMMA WriteIInv ==
  ASSUME IInv, NEW S, NEW buf \in Seq(S), tty_write(buf)
  PROVE  IInv'
PROOF
  <1>1. TtyTypeOK /\ ScreenInside /\ Steady /\ FreshLines
    BY DEF IInv, CursorOnScreen, TtyTypeOK, ScreenInside, Positions
  <1>2. Reached(Characters(buf)[Len(buf)], Len(buf)) /\ Len(buf) \in Nat
    BY <1>1, ReachedAll
  <1>3. Left(Characters(buf)[Len(buf)], Len(buf))
    BY WriteIs
  <1> QED BY <1>2, <1>3, LeftIInv

LEMMA NextIInv == IInv /\ [\E buf \in Seq(STRING) : tty_write(buf)]_tty => IInv'
PROOF
  <1> SUFFICES ASSUME IInv, [\E buf \in Seq(STRING) : tty_write(buf)]_tty
               PROVE  IInv'
    OBVIOUS
  <1>1. CASE \E buf \in Seq(STRING) : tty_write(buf)
    BY <1>1, WriteIInv
  <1>2. CASE UNCHANGED tty
    BY <1>2 DEF tty, IInv, CursorOnScreen, TtyTypeOK, OnScreen, Below, WritesInside, FreshLines, Steady
  <1> QED BY <1>1, <1>2

(* The screen never shows anything but video memory, and starts with a line *)
(* of it, whatever is written (tty.c:157 and 169): the sums with WIDTH do   *)
(* not wrap.  The cursor stays on it through writes of any length, as long  *)
(* as none ends more than a line from where it began.                       *)
THEOREM CursorStaysOnScreen == TtySpec => []CursorOnScreen
PROOF
  <1>1. IInv => CursorOnScreen
    BY DEF IInv
  <1> QED BY <1>1, InitIInv, NextIInv, PTL DEF TtySpec

(* No character is set outside of video memory (tty.c:102), unless a write  *)
(* deletes before its first cell, goes more than a line down, or has more   *)
(* characters than the cells below the lowest screen and one: those must do *)
(* for a write that starts in the last cell of the screen.                  *)
THEOREM WritesStayInside == TtySpec => []WritesInside
PROOF
  <1>1. IInv => WritesInside
    BY DEF IInv
  <1> QED BY <1>1, InitIInv, NextIInv, PTL DEF TtySpec

(* The lines that scroll in are blank (tty.c:159 clears all of them when    *)
(* the screen goes back to the top), unless writes went more than a line    *)
(* down, before the first cell, or back up from below the screen.           *)
THEOREM FreshLinesScrollIn == TtySpec => []FreshLines
PROOF
  <1>1. IInv => FreshLines
    BY DEF IInv
  <1> QED BY <1>1, InitIInv, NextIInv, PTL DEF TtySpec

-----------------------------------------------------------------------------
(***************************************************************************)
(* 2. The long division.                                                   *)
(*                                                                         *)
(* Halfway is its loop invariant: after k bits, quotient and remainder of  *)
(* the number that these bits make.                                        *)
(***************************************************************************)
LEMMA TwoTo ==
  /\ 2 ^ 0 = 1
  /\ \A n \in Nat : 2 ^ n \in Nat /\ 2 ^ n > 0 /\ 2 ^ (n + 1) = 2 * 2 ^ n
PROOF
  <1>1. ASSUME NEW n \in Nat
        PROVE  /\ IsFiniteSet(SUBSET (1 .. n)) /\ Cardinality(SUBSET (1 .. n)) = 2 ^ n
               /\ 2 ^ n \in Nat /\ 2 ^ n > 0
    <2>1. IsFiniteSet(1 .. n) /\ Cardinality(1 .. n) = n
      BY FS_Interval
    <2>2. IsFiniteSet(SUBSET (1 .. n)) /\ Cardinality(SUBSET (1 .. n)) = 2 ^ n
      BY <2>1, FS_SUBSET
    <2>3. 2 ^ n \in Nat
      BY <2>2, FS_CardinalityType
    <2>4. Cardinality(SUBSET (1 .. n)) # 0
      <3>1. SUBSET (1 .. n) # {}
        OBVIOUS
      <3> QED BY <2>2, <3>1, FS_EmptySet
    <2> QED BY <2>2, <2>3, <2>4
  <1>2. 2 ^ 0 = 1
    <2>1. SUBSET (1 .. 0) = {{}}
      OBVIOUS
    <2> QED BY <1>1, <2>1, FS_Singleton
  <1>3. ASSUME NEW n \in Nat PROVE 2 ^ (n + 1) = 2 * 2 ^ n
    <2> DEFINE A == SUBSET (1 .. n)
               C == SUBSET (1 .. n + 1)
               f == [s \in A |-> s \cup {n + 1}]
               B == {f[s] : s \in A}
    <2>1. n + 1 \notin 1 .. n /\ 1 .. n + 1 = (1 .. n) \cup {n + 1}
      OBVIOUS
    <2>2. C = A \cup B
      <3>1. ASSUME NEW s \in C, n + 1 \in s PROVE s \in B
        <4>1. s \ {n + 1} \in A /\ s = (s \ {n + 1}) \cup {n + 1}
          BY <2>1, <3>1
        <4>2. s = f[s \ {n + 1}]
          BY <4>1
        <4> QED BY <4>1, <4>2
      <3>2. ASSUME NEW s \in C, n + 1 \notin s PROVE s \in A
        BY <2>1, <3>2
      <3>3. A \subseteq C
        BY <2>1
      <3>4. B \subseteq C
        BY <2>1
      <3> QED BY <3>1, <3>2, <3>3, <3>4
    <2>3. A \cap B = {}
      BY <2>1
    <2>4. f \in Bijection(A, B)
      <3>1. f \in [A -> B]
        OBVIOUS
      <3>2. \A s, t \in A : f[s] = f[t] => s = t
        BY <2>1
      <3>3. \A t \in B : \E s \in A : f[s] = t
        OBVIOUS
      <3> HIDE DEF f, A, B
      <3> QED BY <3>1, <3>2, <3>3 DEF Bijection, Injection, Surjection, IsInjective
    <2>5. IsFiniteSet(A) /\ Cardinality(A) = 2 ^ n /\ 2 ^ n \in Nat
      BY <1>1
    <2> HIDE DEF A, B, f, C
    <2>6. IsFiniteSet(B) /\ Cardinality(B) = 2 ^ n
      BY <2>4, <2>5, FS_Bijection DEF ExistsBijection
    <2>7. A \cap B = {} => Cardinality(A \cup B) = 2 ^ n + 2 ^ n
      BY <2>5, <2>6, FS_Union, FS_EmptySet
    <2>8. Cardinality(C) = 2 ^ (n + 1)
      BY <1>1 DEF C
    <2> QED BY <2>2, <2>3, <2>5, <2>7, <2>8
  <1> QED BY <1>1, <1>2, <1>3

(* Bit i of a number is the last one of what is left of it above.           *)
LEMMA NextBit ==
  ASSUME NEW n \in Nat, NEW p \in Nat, p > 0
  PROVE  n \div p = 2 * (n \div (2 * p)) + ((n \div p) % 2)
PROOF
  <1>1. PICK w \in Nat : w = 2 * p
    OBVIOUS
  <1>2. PICK q \in Nat, r \in Nat : q = n \div w /\ r < w /\ n = w * q + r
    <2>1. w > 0
      BY <1>1
    <2> QED BY <1>1, <2>1, DivMod
  <1>3. w * q = p * (2 * q)
    BY <1>1, <1>2
  <1>4. PICK b \in Nat : b \in {0, 1} /\ p * b <= r /\ r < p * b + p
    <2>1. CASE r < p
      BY <2>1, <1>2
    <2>2. CASE r >= p
      BY <2>2, <1>1, <1>2
    <2> QED BY <1>2, <2>1, <2>2
  <1>5. PICK c \in Nat : c = 2 * q + b /\ c % 2 = b
    <2>1. PICK c \in Nat : c = 2 * q + b
      BY <1>2, <1>4
    <2>2. b \in 0 .. 2 - 1 /\ 2 \in Nat /\ 2 > 0
      BY <1>4
    <2>3. c % 2 = b
      BY <1>2, <2>1, <2>2, DivIs
    <2> QED BY <2>1, <2>3
  <1>6. PICK e \in Nat : e = r - p * b /\ e \in 0 .. p - 1
    <2>1. p * b \in Nat
      BY <1>4
    <2> QED BY <1>2, <1>4, <2>1
  <1>7. n = p * c + e
    <2>1. p * c = p * (2 * q) + p * b
      <3>1. \A x, y \in Nat : p * (x + y) = p * x + p * y
        OBVIOUS
      <3>2. 2 * q \in Nat
        BY <1>2
      <3> QED BY <1>4, <1>5, <3>1, <3>2
    <2>2. p * (2 * q) \in Nat /\ p * b \in Nat
      BY <1>2, <1>4
    <2> QED BY <1>2, <1>3, <1>6, <2>1, <2>2
  <1>8. n \div p = c
    BY <1>5, <1>6, <1>7, DivIs
  <1> QED BY <1>1, <1>2, <1>5, <1>8

(* After k bits: the quotient, moved to its place, and the remainder of the *)
(* number that the k bits make                                              *)
Halfway(n, base, k, s) ==
  \E q \in Nat : /\ s = [remain |-> s.remain, result |-> q * 2 ^ (BITS - k)]
                 /\ s.remain \in 0 .. base - 1
                 /\ n \div 2 ^ (BITS - k) = base * q + s.remain

LEMMA StepHalfway ==
  ASSUME NEW n \in 0 .. UINT64 - 1, NEW base \in Nat \ {0}, NEW k \in 0 .. BITS - 1,
         NEW s, Halfway(n, base, k, s)
  PROVE  Halfway(n, base, k + 1, DivStep(n, base, s, BITS - (k + 1)))
PROOF
  <1>1. PICK i \in Nat : i = BITS - (k + 1) /\ BITS - k = i + 1
    <2>1. PICK d \in Nat : d = BITS
      BY BitsAssumption
    <2>2. k \in 0 .. d - 1
      BY <2>1
    <2>3. d - (k + 1) \in Nat /\ d - k = (d - (k + 1)) + 1
      BY <2>1, <2>2
    <2> QED BY <2>1, <2>3
  <1>2. PICK p \in Nat : p = 2 ^ i /\ p > 0 /\ 2 ^ (i + 1) = 2 * p
    BY <1>1, TwoTo
  <1>3. PICK q \in Nat : /\ s = [remain |-> s.remain, result |-> q * (2 * p)]
                         /\ s.remain \in 0 .. base - 1
                         /\ n \div (2 * p) = base * q + s.remain
    BY <1>1, <1>2 DEF Halfway
  <1>4. PICK r \in Nat : r = s.remain /\ r < base
    BY <1>3
  <1>5. n \in Nat /\ UINT64 \in Nat /\ n < UINT64
    BY TwoTo, BitsAssumption DEF UINT64
  <1>6. PICK h \in Nat, b \in Nat : /\ h = n \div p /\ b = (n \div p) % 2 /\ b \in {0, 1}
                                    /\ h = 2 * (n \div (2 * p)) + b /\ h <= n
    <2>1. n \div p \in Nat /\ n \div p <= n
      <3>1. PICK c \in Nat, e \in Nat : c = n \div p /\ n = p * c + e
        BY <1>2, <1>5, DivMod
      <3>2. p * c = c + (p - 1) * c /\ (p - 1) * c \in Nat
        BY <1>2, <3>1
      <3> QED BY <1>2, <3>1, <3>2
    <2>2. (n \div p) % 2 \in {0, 1}
      BY <2>1
    <2> QED BY <1>2, <1>5, <2>1, <2>2, NextBit
  <1>7. PICK d \in Nat : d = base * q
    BY <1>3
  <1>8. h = 2 * d + (2 * r + b) /\ 2 * r + b <= n
    BY <1>3, <1>4, <1>6, <1>7
  <1>9. (2 * r) % UINT64 = 2 * r
    <2>1. 2 * r < UINT64
      BY <1>4, <1>5, <1>6, <1>8
    <2> QED BY <1>4, <1>5, <2>1
  <1>10. PICK e \in Nat : e = 2 * r + b /\ e = Extended(n, s.remain, i) /\ e < 2 * base
    BY <1>2, <1>4, <1>6, <1>9 DEF Extended
  <1>11. DivStep(n, base, s, i) =
           IF e >= base THEN [remain |-> e - base, result |-> q * (2 * p) + p]
           ELSE [remain |-> e, result |-> q * (2 * p)]
    <2>1. s = [remain |-> r, result |-> q * (2 * p)]
      BY <1>3, <1>4
    <2> QED BY <1>2, <1>10, <2>1 DEF DivStep
  <1>12. base * (2 * q) = 2 * d /\ base * (2 * q + 1) = 2 * d + base
    BY <1>3, <1>7
  <1>13. q * (2 * p) = (2 * q) * p /\ (2 * q) * p + p = (2 * q + 1) * p
    BY <1>2, <1>3
  <1>14. PICK t : t = DivStep(n, base, s, i)
    OBVIOUS
  <1>15. \E c \in Nat : /\ t = [remain |-> t.remain, result |-> c * p]
                        /\ t.remain \in 0 .. base - 1
                        /\ h = base * c + t.remain
    <2>1. CASE e >= base
      <3>1. t.remain = e - base /\ t = [remain |-> t.remain, result |-> (2 * q + 1) * p]
        BY <1>11, <1>13, <1>14, <2>1
      <3>2. e - base \in 0 .. base - 1
        BY <1>10, <2>1
      <3>3. h = (2 * d + base) + (e - base)
        BY <1>7, <1>8, <1>10
      <3>4. 2 * q + 1 \in Nat
        BY <1>3
      <3> QED BY <1>12, <3>1, <3>2, <3>3, <3>4
    <2>2. CASE e < base
      <3>1. t.remain = e /\ t = [remain |-> t.remain, result |-> (2 * q) * p]
        BY <1>10, <1>11, <1>13, <1>14, <2>2
      <3>2. e \in 0 .. base - 1
        BY <1>10, <2>2
      <3>3. h = 2 * d + e
        BY <1>7, <1>8, <1>10
      <3>4. 2 * q \in Nat
        BY <1>3
      <3> QED BY <1>12, <3>1, <3>2, <3>3, <3>4
    <2> QED BY <1>10, <2>1, <2>2
  <1>16. BITS - (k + 1) = i
    BY <1>1
  <1> QED BY <1>2, <1>6, <1>14, <1>15, <1>16 DEF Halfway

LEMMA DivisionIs ==
  ASSUME NEW n \in 0 .. UINT64 - 1, NEW base \in Nat \ {0}
  PROVE  LongDivision(n, base) = [remain |-> n % base, result |-> n \div base]
PROOF
  <1> DEFINE first == [remain |-> 0, result |-> 0]
             State == [remain : Nat, result : Nat]
             Steps(f) == [k \in 0 .. BITS |-> IF k = 0 THEN first ELSE DivStep(n, base, f[k - 1], BITS - k)]
             step == [k \in 1 .. BITS |-> [s \in State |-> DivStep(n, base, s, BITS - k)]]
  <1>1. BITS \in Nat /\ BITS > 0 /\ UINT64 \in Nat /\ UINT64 > 0 /\ n \in Nat /\ n < UINT64
    BY TwoTo, BitsAssumption DEF UINT64
  <1>2. first \in State
    OBVIOUS
  <1>3. ASSUME NEW k \in 1 .. BITS, NEW s \in State
        PROVE  DivStep(n, base, s, BITS - k) \in State
    <2>1. BITS - k \in Nat
      BY <1>1, <1>3
    <2>2. PICK p \in Nat : p = 2 ^ (BITS - k) /\ p > 0
      BY <2>1, TwoTo
    <2>3. PICK e \in Nat : e = Extended(n, s.remain, BITS - k)
      <3>1. n \div p \in Nat
        BY <1>1, <2>2, DivMod
      <3>2. (n \div p) % 2 \in Nat
        BY <3>1
      <3>3. (2 * s.remain) % UINT64 \in Nat
        BY <1>1
      <3> QED BY <2>2, <3>2, <3>3 DEF Extended
    <2>4. /\ e >= base => DivStep(n, base, s, BITS - k) = [remain |-> e - base, result |-> s.result + p]
          /\ e < base => DivStep(n, base, s, BITS - k) = [remain |-> e, result |-> s.result]
      BY <2>2, <2>3 DEF DivStep
    <2>5. CASE e >= base
      BY <2>2, <2>3, <2>4, <2>5
    <2>6. CASE e < base
      BY <2>2, <2>3, <2>4, <2>6
    <2> QED BY <2>3, <2>5, <2>6
  <1> HIDE DEF State, first
  <1>4. PICK at : Follows(at, BITS, State, first, step)
    <2>1. Stepping(step, BITS, State)
      BY <1>3 DEF Stepping
    <2> HIDE DEF step
    <2> QED BY <1>1, <1>2, <2>1, StepsExist
  <1>5. /\ at \in [0 .. BITS -> State] /\ at[0] = first
        /\ \A k \in 1 .. BITS : at[k] = DivStep(n, base, at[k - 1], BITS - k)
    <2>1. /\ at \in [0 .. BITS -> State] /\ at[0] = first
          /\ \A k \in 1 .. BITS : at[k] = step[k][at[k - 1]]
      BY <1>4 DEF Follows
    <2>2. ASSUME NEW k \in 1 .. BITS PROVE at[k] = DivStep(n, base, at[k - 1], BITS - k)
      <3>1. k - 1 \in 0 .. BITS
        BY <1>1, <2>2
      <3> QED BY <2>1, <3>1
    <2> HIDE DEF step
    <2> QED BY <2>1, <2>2
  <1>6. at = Steps(at)
    BY <1>1, <1>5
  <1> DEFINE w == CHOOSE f : f = Steps(f)
  <1>7. w = Steps(w)
    <2> HIDE DEF Steps
    <2> QED BY <1>6, Zenon
  <1>8. LongDivision(n, base) = w[BITS]
    BY DEF LongDivision, first
  <1> HIDE DEF w
  <1> DEFINE T == {k \in 0 .. BITS : Halfway(n, base, k, w[k])}
  <1>9. 0 \in T
    <2>1. w[0] = first
      BY <1>1, <1>7
    <2>2. BITS - 0 = BITS /\ n \div UINT64 = 0 /\ UINT64 = 2 ^ BITS
      BY <1>1, DivLess DEF UINT64
    <2>3. w[0] = [remain |-> 0, result |-> 0 * 2 ^ (BITS - 0)]
      BY <1>1, <2>1, <2>2 DEF first
    <2>4. 0 \in 0 .. base - 1 /\ 0 = base * 0 + 0
      OBVIOUS
    <2>5. w[0].remain = 0
      BY <2>3
    <2>6. Halfway(n, base, 0, w[0])
      <3>1. PICK s : s = w[0]
        OBVIOUS
      <3>2. /\ s = [remain |-> s.remain, result |-> 0 * 2 ^ (BITS - 0)]
            /\ s.remain \in 0 .. base - 1
            /\ n \div 2 ^ (BITS - 0) = base * 0 + s.remain
        BY <2>2, <2>3, <2>4, <2>5, <3>1
      <3>3. 0 \in Nat
        OBVIOUS
      <3>4. Halfway(n, base, 0, s)
        BY <3>2, <3>3, Zenon DEF Halfway
      <3> QED BY <3>1, <3>4
    <2> QED BY <1>1, <2>6
  <1>10. ASSUME NEW k \in 0 .. BITS, k # BITS, k \in T PROVE k + 1 \in T
    <2>1. k \in 0 .. BITS - 1 /\ k + 1 \in 0 .. BITS /\ (k + 1) - 1 = k /\ k + 1 # 0
      BY <1>1, <1>10
    <2>2. w[k + 1] = DivStep(n, base, w[k], BITS - (k + 1))
      BY <1>7, <2>1
    <2>3. Halfway(n, base, k + 1, DivStep(n, base, w[k], BITS - (k + 1)))
      BY <1>10, <2>1, StepHalfway
    <2> QED BY <2>1, <2>2, <2>3
  <1>11. BITS \in T
    <2> HIDE DEF T
    <2>1. BITS \in 0 .. BITS
      BY <1>1
    <2> QED BY <1>1, <1>9, <1>10, <2>1, Upwards
  <1>12. BITS - BITS = 0 /\ n \div 1 = n
    BY <1>1
  <1>13. Halfway(n, base, BITS, w[BITS])
    BY <1>11
  <1>14. PICK q \in Nat, r \in Nat : /\ w[BITS] = [remain |-> r, result |-> q * 1]
                                     /\ r \in 0 .. base - 1 /\ n = base * q + r
    <2>1. PICK q \in Nat : /\ w[BITS] = [remain |-> w[BITS].remain, result |-> q * 1]
                           /\ w[BITS].remain \in 0 .. base - 1
                           /\ n = base * q + w[BITS].remain
      BY <1>12, <1>13, TwoTo DEF Halfway
    <2>2. w[BITS].remain \in Nat
      BY <2>1
    <2> QED BY <2>1, <2>2
  <1>15. n \div base = q /\ n % base = r
    BY <1>1, <1>14, DivIs
  <1>16. q * 1 = q
    OBVIOUS
  <1> QED BY <1>8, <1>14, <1>15, <1>16

(* The long division of math.c:14-84, which keeps the remainder in as many  *)
(* bits as the numbers have, never loses one of it: for every width, number *)
(* and divisor other than 0 it computes the quotient and the remainder.     *)
THEOREM DivisionIsRight ==
  \A n \in 0 .. UINT64 - 1 : \A base \in Nat \ {0} :
    udivdi3(n, base) = n \div base /\ umoddi3(n, base) = n % base
PROOF
  <1> SUFFICES ASSUME NEW n \in 0 .. UINT64 - 1, NEW base \in Nat \ {0}
               PROVE  udivdi3(n, base) = n \div base /\ umoddi3(n, base) = n % base
    OBVIOUS
  <1>1. UINT64 \in Nat /\ n \in Nat
    BY TwoTo, BitsAssumption DEF UINT64
  <1>2. CASE n < base
    <2>1. n \div base = 0 /\ n % base = n
      BY <1>1, <1>2, DivLess
    <2> QED BY <1>2, <2>1 DEF udivdi3, umoddi3
  <1>3. CASE ~(n < base)
    BY <1>3, DivisionIs DEF udivdi3, umoddi3
  <1> QED BY <1>2, <1>3

-----------------------------------------------------------------------------
(***************************************************************************)
(* 3. Numerals.                                                            *)
(*                                                                         *)
(* After t rounds of reverse_uint x Spells the t last digits of the number *)
(* backwards, as long as a uint64_t holds them; there are as many rounds as *)
(* digits in any case.                                                     *)
(***************************************************************************)
(* Powers                                                                   *)
LEMMA PowerIs ==
  ASSUME NEW base \in Nat
  PROVE  /\ Power(base)[0] = 1
         /\ \A d \in Nat : Power(base)[d] \in Nat /\ Power(base)[d + 1] = base * Power(base)[d]
PROOF
  <1> DEFINE Is(f) == f = [d \in Nat |-> IF d = 0 THEN 1 ELSE base * f[d - 1]]
             times == [x \in Nat |-> base * x]
             at    == Orbit(1, times)
             f     == [d \in Nat |-> at[d]]
             p     == Power(base)
  <1>1. /\ at[0] = 1
        /\ \A d \in Nat : at[d + 1] = times[at[d]]
    BY OrbitSteps
  <1> HIDE DEF at
  <1>2. ASSUME NEW N \in Nat PROVE at[N] \in Nat
    <2> DEFINE T == {k \in 0 .. N : at[k] \in Nat}
    <2>1. 0 \in T
      BY <1>1
    <2>2. ASSUME NEW k \in 0 .. N, k # N, k \in T PROVE k + 1 \in T
      <3>1. at[k + 1] = times[at[k]] /\ at[k] \in Nat
        BY <1>1, <2>2
      <3>2. times[at[k]] \in Nat
        BY <3>1
      <3> QED BY <2>2, <3>1, <3>2
    <2>3. N \in T
      <3> HIDE DEF T
      <3>1. N \in 0 .. N
        OBVIOUS
      <3> QED BY <2>1, <2>2, <3>1, Upwards
    <2> QED BY <2>3
  <1>3. Is(f)
    <2>1. ASSUME NEW d \in Nat PROVE f[d] = IF d = 0 THEN 1 ELSE base * f[d - 1]
      <3>1. CASE d = 0
        BY <1>1, <3>1
      <3>2. CASE d # 0
        <4>1. d - 1 \in Nat /\ (d - 1) + 1 = d
          BY <3>2
        <4>2. at[d] = times[at[d - 1]] /\ at[d - 1] \in Nat
          BY <1>1, <1>2, <4>1
        <4> QED BY <3>2, <4>1, <4>2
      <3> QED BY <3>1, <3>2
    <2>2. f = [d \in Nat |-> f[d]]
      OBVIOUS
    <2> HIDE DEF f
    <2> QED BY <2>1, <2>2
  <1>4. Is(p)
    <2>1. p = CHOOSE g : Is(g)
      BY DEF Power
    <2> HIDE DEF Is, f, p
    <2> QED BY <1>3, <2>1, Zenon
  <1> HIDE DEF p
  <1>5. p[0] = 1 /\ \A d \in Nat : p[d + 1] = base * p[d]
    <2>1. p[0] = 1
      BY <1>4
    <2>2. ASSUME NEW d \in Nat PROVE p[d + 1] = base * p[d]
      <3>1. d + 1 \in Nat /\ d + 1 # 0 /\ (d + 1) - 1 = d
        OBVIOUS
      <3> QED BY <1>4, <3>1
    <2> QED BY <2>1, <2>2
  <1>6. ASSUME NEW N \in Nat PROVE p[N] \in Nat
    <2> DEFINE T == {k \in 0 .. N : p[k] \in Nat}
    <2>1. 0 \in T
      BY <1>5
    <2>2. ASSUME NEW k \in 0 .. N, k # N, k \in T PROVE k + 1 \in T
      BY <1>5, <2>2
    <2>3. N \in T
      <3> HIDE DEF T
      <3>1. N \in 0 .. N
        OBVIOUS
      <3> QED BY <2>1, <2>2, <3>1, Upwards
    <2> QED BY <2>3
  <1> QED BY <1>5, <1>6 DEF p

LEMMA PowerGrows ==
  ASSUME NEW base \in Nat, base >= 2, NEW N \in Nat
  PROVE  Power(base)[N] >= 2 ^ N /\ Power(base)[N] > 0
PROOF
  <1> DEFINE T == {k \in 0 .. N : Power(base)[k] >= 2 ^ k}
  <1>1. 0 \in T
    BY PowerIs, TwoTo
  <1>2. ASSUME NEW k \in 0 .. N, k # N, k \in T PROVE k + 1 \in T
    <2>1. PICK x \in Nat, y \in Nat : x = Power(base)[k] /\ y = 2 ^ k /\ x >= y
      BY <1>2, PowerIs, TwoTo
    <2>2. Power(base)[k + 1] = base * x /\ 2 ^ (k + 1) = 2 * y
      BY <2>1, PowerIs, TwoTo
    <2>3. base * x = 2 * x + (base - 2) * x /\ (base - 2) * x \in Nat
      BY <2>1
    <2>4. base * x >= 2 * y
      BY <2>1, <2>3
    <2> QED BY <1>2, <2>2, <2>4
  <1>3. N \in T
    <2> HIDE DEF T
    <2>1. N \in 0 .. N
      OBVIOUS
    <2> QED BY <1>1, <1>2, <2>1, Upwards
  <1>4. Power(base)[N] >= 2 ^ N /\ 2 ^ N > 0 /\ 2 ^ N \in Nat /\ Power(base)[N] \in Nat
    BY <1>3, PowerIs, TwoTo
  <1> QED BY <1>4

LEMMA PowerOrder ==
  ASSUME NEW base \in Nat, base >= 2, NEW j \in Nat, NEW i \in 0 .. j
  PROVE  Power(base)[i] <= Power(base)[j]
PROOF
  <1> DEFINE T == {k \in 0 .. j - i : Power(base)[i] <= Power(base)[i + k]}
  <1>1. j - i \in Nat /\ 0 \in 0 .. j - i /\ i + 0 = i /\ i + (j - i) = j /\ j - i \in 0 .. j - i
    OBVIOUS
  <1>2. 0 \in T
    BY <1>1, PowerIs
  <1>3. ASSUME NEW k \in 0 .. j - i, k # j - i, k \in T PROVE k + 1 \in T
    <2>1. PICK x \in Nat, y \in Nat : x = Power(base)[i] /\ y = Power(base)[i + k] /\ x <= y
      <3>1. i + k \in Nat /\ i \in Nat
        BY <1>3
      <3>2. Power(base)[i] \in Nat /\ Power(base)[i + k] \in Nat
        BY <3>1, PowerIs
      <3> QED BY <1>3, <3>2
    <2>2. Power(base)[i + (k + 1)] = base * y
      <3>1. i + k \in Nat /\ (i + k) + 1 = i + (k + 1)
        BY <1>3
      <3> QED BY <2>1, <3>1, PowerIs
    <2>3. base * y = y + (base - 1) * y /\ (base - 1) * y \in Nat
      BY <2>1
    <2>4. x <= base * y
      BY <2>1, <2>3
    <2>5. k + 1 \in 0 .. j - i
      BY <1>3
    <2> QED BY <2>1, <2>2, <2>4, <2>5
  <1>4. j - i \in T
    <2> HIDE DEF T
    <2> QED BY <1>1, <1>2, <1>3, Upwards
  <1> QED BY <1>1, <1>4

(* Two divisions, one after the other                                       *)
LEMMA DivDiv ==
  ASSUME NEW n \in Nat, NEW p \in Nat, p > 0, NEW b \in Nat, b > 0
  PROVE  (n \div p) \div b = n \div (b * p)
PROOF
  <1>1. PICK c \in Nat, e \in Nat : c = n \div p /\ e < p /\ n = p * c + e
    BY DivMod
  <1>2. PICK q \in Nat, r \in Nat : q = c \div b /\ r < b /\ c = b * q + r
    BY <1>1, DivMod
  <1>3. PICK w \in Nat : w = b * p /\ w > 0
    <2>1. b * p \in Nat /\ b * p > 0
      OBVIOUS
    <2> QED BY <2>1
  <1>4. PICK g \in Nat : g = p * r + e
    <2>1. p * r + e \in Nat
      BY <1>1, <1>2
    <2> QED BY <2>1
  <1>5. g < w
    <2>1. p * r + p <= p * b
      <3>1. PICK z \in Nat : z = b - (r + 1) /\ b = r + 1 + z
        <4>1. b - (r + 1) \in Nat /\ b = r + 1 + (b - (r + 1))
          BY <1>2
        <4> QED BY <4>1
      <3>2. p * b = p * r + p + p * z /\ p * z \in Nat
        BY <1>2, <3>1
      <3>3. p * r \in Nat
        BY <1>2
      <3> QED BY <3>2, <3>3
    <2>2. p * b = w /\ p * r \in Nat
      BY <1>2, <1>3
    <2> QED BY <1>1, <1>3, <1>4, <2>1, <2>2
  <1>6. n = w * q + g
    <2>1. \A x, y \in Nat : p * (x + y) = p * x + p * y
      OBVIOUS
    <2>2. b * q \in Nat
      BY <1>2
    <2>3. p * c = p * (b * q) + p * r
      BY <1>2, <2>1, <2>2
    <2>4. p * (b * q) = w * q
      BY <1>2, <1>3
    <2>5. w * q \in Nat /\ p * r \in Nat
      BY <1>2, <1>3
    <2> QED BY <1>1, <1>4, <2>3, <2>4, <2>5
  <1>7. n \div w = q
    <2>1. g \in 0 .. w - 1
      BY <1>3, <1>4, <1>5
    <2> QED BY <1>2, <1>3, <1>6, <2>1, DivIs
  <1> QED BY <1>1, <1>2, <1>3, <1>7

(* The number of digits                                                     *)
LEMMA FiguresAre ==
  ASSUME NEW n \in 0 .. UINT64 - 1, NEW base \in Nat, base >= 2
  PROVE  /\ Figures(n, base) \in 1 .. BITS /\ n < Power(base)[Figures(n, base)]
         /\ Figures(n, base) = 1 \/ n >= Power(base)[Figures(n, base) - 1]
         /\ \A d \in Nat : d >= 1 /\ n < Power(base)[d] /\ (d = 1 \/ n >= Power(base)[d - 1])
              => d = Figures(n, base)
PROOF
  <1> DEFINE Is(d) == n < Power(base)[d] /\ (d = 1 \/ n >= Power(base)[d - 1])
             S == {d \in 1 .. BITS : n < Power(base)[d]}
             e == Figures(n, base)
  <1>1. BITS \in Nat /\ BITS >= 1 /\ UINT64 \in Nat /\ n \in Nat /\ n < UINT64
    BY BitsAssumption, TwoTo DEF UINT64
  <1>2. BITS \in S
    <2>1. PICK p \in Nat : p = Power(base)[BITS] /\ p >= UINT64
      BY <1>1, PowerIs, PowerGrows DEF UINT64
    <2> QED BY <1>1, <2>1
  <1>3. PICK d \in S : \A k \in S : d <= k
    <2>1. S \subseteq Nat /\ S # {}
      BY <1>1, <1>2
    <2> HIDE DEF S
    <2> QED BY <2>1, LeastOf
  <1>4. d \in 1 .. BITS /\ Is(d)
    <2>1. d \in 1 .. BITS /\ n < Power(base)[d]
      BY <1>3
    <2>2. ASSUME d # 1 PROVE n >= Power(base)[d - 1]
      <3>1. d - 1 \in 1 .. BITS /\ d - 1 \in Nat /\ ~(d <= d - 1)
        BY <1>1, <2>1, <2>2
      <3>2. ~(n < Power(base)[d - 1])
        BY <1>3, <3>1
      <3>3. Power(base)[d - 1] \in Nat
        BY <3>1, PowerIs
      <3> QED BY <1>1, <3>2, <3>3
    <2> QED BY <2>1, <2>2
  <1>5. e \in 1 .. BITS /\ Is(e)
    <2>1. e = CHOOSE k \in 1 .. BITS : Is(k)
      BY DEF Figures
    <2> HIDE DEF Is, e
    <2> QED BY <1>4, <2>1, Zenon
  <1>6. ASSUME NEW a \in Nat, NEW b \in Nat, a >= 1, a < b, Is(a), Is(b) PROVE FALSE
    <2>1. b - 1 \in Nat /\ a \in 0 .. b - 1 /\ b # 1
      BY <1>6
    <2>2. Power(base)[a] <= Power(base)[b - 1] /\ Power(base)[a] \in Nat /\ Power(base)[b - 1] \in Nat
      BY <2>1, PowerOrder, PowerIs
    <2>3. n < Power(base)[a] /\ n >= Power(base)[b - 1]
      BY <1>6, <2>1
    <2> QED BY <1>1, <2>2, <2>3
  <1> HIDE DEF e
  <1>7. ASSUME NEW k \in Nat, k >= 1, Is(k) PROVE k = e
    <2>1. e \in Nat /\ e >= 1
      BY <1>5
    <2>2. ~(k < e) /\ ~(e < k)
      <3> HIDE DEF Is
      <3> QED BY <1>5, <1>6, <1>7, <2>1
    <2> QED BY <1>7, <2>1, <2>2
  <1> QED BY <1>5, <1>7 DEF e

-----------------------------------------------------------------------------
(* x has the last t digits of n, the last first.                            *)
Spells(n, base, x, t) ==
  /\ x < Power(base)[t]
  /\ \A i \in 0 .. t - 1 :
       (x \div Power(base)[i]) % base = (n \div Power(base)[t - 1 - i]) % base

LEMMA SpellsOne ==
  ASSUME NEW n \in Nat, NEW base \in Nat, base >= 2, NEW t \in Nat, NEW x \in Nat,
         Spells(n, base, x, t),
         NEW y, y = x * base + ((n \div Power(base)[t]) % base)
  PROVE  y \in Nat /\ Spells(n, base, y, t + 1)
PROOF
  <1>1. PICK p \in Nat : p = Power(base)[t] /\ p > 0 /\ Power(base)[t + 1] = base * p /\ x < p
    BY PowerIs, PowerGrows DEF Spells
  <1>2. PICK e \in Nat : e = (n \div p) % base /\ e < base
    <2>1. n \div p \in Nat
      BY <1>1, DivMod
    <2>2. (n \div p) % base \in 0 .. base - 1
      BY <2>1, DivMod
    <2> QED BY <2>2
  <1>3. y = base * x + e /\ y \in Nat
    BY <1>1, <1>2
  <1>4. y \div base = x /\ y % base = e
    <2>1. e \in 0 .. base - 1 /\ base > 0
      BY <1>2
    <2> QED BY <1>3, <2>1, DivIs
  <1>5. y < base * p
    <2>1. PICK z \in Nat : p = x + 1 + z
      <3>1. p - (x + 1) \in Nat /\ p = x + 1 + (p - (x + 1))
        BY <1>1
      <3> QED BY <3>1
    <2>2. base * p = base * x + base + base * z /\ base * x \in Nat /\ base * z \in Nat
      BY <1>1, <2>1
    <2> QED BY <1>2, <1>3, <2>2
  <1>6. ASSUME NEW i \in 0 .. t
        PROVE  (y \div Power(base)[i]) % base = (n \div Power(base)[t - i]) % base
    <2>1. CASE i = 0
      <3>1. Power(base)[i] = 1 /\ t - i = t
        BY <2>1, PowerIs
      <3>2. y \div 1 = y
        BY <1>3
      <3> QED BY <1>1, <1>2, <1>4, <3>1, <3>2
    <2>2. CASE i # 0
      <3>1. i - 1 \in Nat /\ i - 1 \in 0 .. t - 1 /\ (i - 1) + 1 = i /\ t - 1 - (i - 1) = t - i
        BY <1>6, <2>2
      <3>2. PICK q \in Nat : q = Power(base)[i - 1] /\ q > 0 /\ Power(base)[i] = base * q
        <4>1. Power(base)[i - 1] \in Nat /\ Power(base)[(i - 1) + 1] = base * Power(base)[i - 1]
          BY <3>1, PowerIs
        <4>2. Power(base)[i - 1] > 0
          BY <3>1, PowerGrows
        <4> QED BY <3>1, <4>1, <4>2
      <3>3. (y \div base) \div q = y \div (q * base) /\ q * base = base * q
        BY <1>3, <3>2, DivDiv
      <3>4. y \div Power(base)[i] = x \div q
        BY <1>4, <3>2, <3>3
      <3>5. (x \div q) % base = (n \div Power(base)[t - 1 - (i - 1)]) % base
        BY <3>1, <3>2 DEF Spells
      <3> QED BY <3>1, <3>4, <3>5
    <2> QED BY <2>1, <2>2
  <1>7. ASSUME NEW i \in 0 .. t + 1 - 1
        PROVE  (y \div Power(base)[i]) % base = (n \div Power(base)[t + 1 - 1 - i]) % base
    <2>1. i \in 0 .. t /\ t + 1 - 1 - i = t - i
      OBVIOUS
    <2> QED BY <1>6, <2>1
  <1> QED BY <1>1, <1>3, <1>5, <1>7 DEF Spells

(* One round of reverse_uint, after t of them                               *)
Rest == [num : 0 .. UINT64 - 1, t : Nat, x : 0 .. UINT64 - 1]

LEMMA RoundRest ==
  ASSUME NEW base \in Nat, base >= 2, NEW s \in Rest
  PROVE  /\ Round(s, base) \in Rest
         /\ Round(s, base) = [num |-> s.num \div base, t |-> s.t + 1,
                              x |-> (s.x * base + (s.num % base)) % UINT64]
PROOF
  <1>1. UINT64 \in Nat /\ UINT64 > 0
    BY BitsAssumption, TwoTo DEF UINT64
  <1>2. PICK num \in Nat, t \in Nat, x \in Nat :
          s = [num |-> num, t |-> t, x |-> x] /\ num < UINT64 /\ x < UINT64
            /\ num = s.num /\ t = s.t /\ x = s.x
    BY <1>1 DEF Rest
  <1>3. udivdi3(num, base) = num \div base /\ umoddi3(num, base) = num % base
    <2>1. num \in 0 .. UINT64 - 1 /\ base \in Nat \ {0}
      BY <1>1, <1>2
    <2> QED BY <2>1, DivisionIsRight
  <1>4. PICK c \in Nat, e \in Nat : c = num \div base /\ e = num % base /\ c <= num
    <2>1. PICK c \in Nat, e \in Nat : c = num \div base /\ e = num % base /\ num = base * c + e
      BY <1>2, DivMod
    <2>2. PICK b \in Nat : base = b + 1
      <3>1. base - 1 \in Nat /\ base = (base - 1) + 1
        OBVIOUS
      <3> QED BY <3>1
    <2>3. base * c = c + b * c /\ b * c \in Nat
      <3>1. \A p, q \in Nat : (p + 1) * q = q + p * q /\ p * q \in Nat
        OBVIOUS
      <3> QED BY <2>1, <2>2, <3>1
    <2>4. c <= num
      BY <1>2, <2>1, <2>3
    <2> QED BY <2>1, <2>4
  <1>5. PICK y \in Nat : y = x * base + e
    <2>1. x * base + e \in Nat
      BY <1>2, <1>4
    <2> QED BY <2>1
  <1>6. Round(s, base) = [num |-> c, t |-> t + 1, x |-> y % UINT64]
    BY <1>2, <1>3, <1>4, <1>5 DEF Round
  <1>7. Round(s, base) \in Rest
    <2>1. y % UINT64 \in 0 .. UINT64 - 1
      BY <1>1, <1>5, DivMod
    <2>2. c \in 0 .. UINT64 - 1
      BY <1>1, <1>2, <1>4
    <2> QED BY <1>2, <1>6, <2>1, <2>2 DEF Rest
  <1> QED BY <1>2, <1>4, <1>5, <1>6, <1>7

LEMMA RoundIs ==
  ASSUME NEW n \in 0 .. UINT64 - 1, NEW base \in Nat, base >= 2, NEW s \in Rest,
         s.num = n \div Power(base)[s.t],
         Power(base)[s.t] <= UINT64 => Spells(n, base, s.x, s.t)
  PROVE  /\ Round(s, base) \in Rest /\ Round(s, base).t = s.t + 1
         /\ Round(s, base).num = n \div Power(base)[s.t + 1]
         /\ Power(base)[s.t + 1] <= UINT64 => Spells(n, base, Round(s, base).x, s.t + 1)
PROOF
  <1>1. UINT64 \in Nat /\ UINT64 > 0 /\ n \in Nat
    BY BitsAssumption, TwoTo DEF UINT64
  <1>2. PICK num \in Nat, t \in Nat, x \in Nat : num = s.num /\ t = s.t /\ x = s.x
    BY <1>1 DEF Rest
  <1>3. PICK c \in Nat, e \in Nat : c = num \div base /\ e = num % base
    BY <1>2, DivMod
  <1>4. PICK y \in Nat : y = x * base + e
    <2>1. x * base + e \in Nat
      BY <1>2, <1>3
    <2> QED BY <2>1
  <1>5. Round(s, base) \in Rest /\ Round(s, base) = [num |-> c, t |-> t + 1, x |-> y % UINT64]
    BY <1>2, <1>3, <1>4, RoundRest
  <1>8. PICK p \in Nat : p = Power(base)[t] /\ p > 0 /\ Power(base)[t + 1] = base * p /\ num = n \div p
    BY <1>2, PowerIs, PowerGrows
  <1>9. c = n \div Power(base)[t + 1]
    <2>1. (n \div p) \div base = n \div (base * p)
      BY <1>1, <1>8, DivDiv
    <2> QED BY <1>3, <1>8, <2>1
  <1>10. ASSUME Power(base)[t + 1] <= UINT64
         PROVE  Spells(n, base, y % UINT64, t + 1)
    <2>1. p <= base * p
      <3>1. base * p = p + (base - 1) * p /\ (base - 1) * p \in Nat
        BY <1>8
      <3> QED BY <1>8, <3>1
    <2>2. base * p \in Nat /\ p <= UINT64
      BY <1>1, <1>8, <1>10, <2>1
    <2>3. Spells(n, base, x, t)
      BY <1>2, <1>8, <2>2
    <2>4. y = x * base + ((n \div Power(base)[t]) % base)
      BY <1>3, <1>4, <1>8
    <2>5. Spells(n, base, y, t + 1)
      BY <1>1, <1>2, <2>3, <2>4, SpellsOne
    <2>6. y < UINT64
      BY <1>1, <1>4, <1>8, <1>10, <2>2, <2>5 DEF Spells
    <2>7. y % UINT64 = y
      BY <1>1, <1>4, <2>6, DivLess
    <2> QED BY <2>5, <2>7
  <1> QED BY <1>2, <1>5, <1>9, <1>10

(* After k passes of its loop                                              *)
Reversed(n, base, k, s) ==
  /\ s \in Rest /\ s.t \in 1 .. k /\ (s.num # 0 => s.t = k)
  /\ s.num = n \div Power(base)[s.t]
  /\ s.t = 1 \/ n \div Power(base)[s.t - 1] # 0
  /\ Power(base)[s.t] <= UINT64 => Spells(n, base, s.x, s.t)

LEMMA ReverseIs ==
  ASSUME NEW n \in 0 .. UINT64 - 1, NEW base \in Nat, base >= 2
  PROVE  Reversed(n, base, BITS, reverse_uint(n, base))
PROOF
  <1> DEFINE first == [num |-> n, t |-> 0, x |-> 0]
             Loop(f) == [k \in 1 .. BITS |->
                           IF k = 1 THEN Round(first, base)
                           ELSE LET s == f[k - 1] IN IF s.num = 0 THEN s ELSE Round(s, base)]
             step == [k \in 1 .. BITS |->
                        [s \in Rest |-> IF k # 1 /\ s.num = 0 THEN s ELSE Round(s, base)]]
  <1>1. UINT64 \in Nat /\ UINT64 > 0 /\ n \in Nat /\ n < UINT64 /\ BITS \in Nat /\ BITS >= 1
    BY BitsAssumption, TwoTo DEF UINT64
  <1>2. first \in Rest /\ first.num = n /\ first.t = 0 /\ first.x = 0
    BY <1>1 DEF Rest
  <1> HIDE DEF first
  <1>3. PICK at : Follows(at, BITS, Rest, first, step)
    <2>1. Stepping(step, BITS, Rest)
      <3>1. \A s \in Rest : Round(s, base) \in Rest
        BY RoundRest
      <3> QED BY <3>1 DEF Stepping
    <2> HIDE DEF step
    <2> QED BY <1>1, <1>2, <2>1, StepsExist
  <1>4. /\ at \in [0 .. BITS -> Rest] /\ at[0] = first
        /\ \A k \in 1 .. BITS : at[k] = IF k # 1 /\ at[k - 1].num = 0 THEN at[k - 1] ELSE Round(at[k - 1], base)
    <2>1. /\ at \in [0 .. BITS -> Rest] /\ at[0] = first
          /\ \A k \in 1 .. BITS : at[k] = step[k][at[k - 1]]
      BY <1>3 DEF Follows
    <2>2. ASSUME NEW k \in 1 .. BITS
          PROVE  at[k] = IF k # 1 /\ at[k - 1].num = 0 THEN at[k - 1] ELSE Round(at[k - 1], base)
      <3>1. k - 1 \in 0 .. BITS
        BY <1>1, <2>2
      <3>2. at[k - 1] \in Rest
        BY <2>1, <3>1
      <3> QED BY <2>1, <3>2
    <2> HIDE DEF step
    <2> QED BY <2>1, <2>2
  <1> DEFINE f == [k \in 1 .. BITS |-> at[k]]
             w == CHOOSE g : g = Loop(g)
  <1>5. f = Loop(f)
    <2>1. ASSUME NEW k \in 1 .. BITS PROVE f[k] = Loop(f)[k]
      <3>1. CASE k = 1
        <4>1. f[k] = Round(at[0], base)
          BY <1>1, <1>4, <3>1
        <4> QED BY <1>4, <3>1, <4>1
      <3>2. CASE k # 1
        <4>1. k - 1 \in 1 .. BITS
          BY <1>1, <2>1, <3>2
        <4>2. f[k - 1] = at[k - 1]
          BY <4>1
        <4> QED BY <1>4, <3>2, <4>2
      <3> QED BY <3>1, <3>2
    <2> QED BY <2>1
  <1>6. w = Loop(w)
    <2> HIDE DEF Loop, f
    <2> QED BY <1>5, Zenon
  <1>7. reverse_uint(n, base) = w[BITS]
    BY DEF reverse_uint, first
  <1> HIDE DEF w
  <1>8. w[1] = Round(first, base)
    BY <1>1, <1>6
  <1>9. ASSUME NEW k \in 1 .. BITS, k # 1
        PROVE  w[k] = IF w[k - 1].num = 0 THEN w[k - 1] ELSE Round(w[k - 1], base)
    BY <1>6, <1>9
  <1> HIDE DEF Loop
  <1>10. Reversed(n, base, 1, w[1])
    <2>1. Power(base)[0] = 1 /\ n \div 1 = n
      BY <1>1, PowerIs
    <2>2. Spells(n, base, 0, 0)
      BY <2>1 DEF Spells
    <2>3. PICK s : s = w[1]
      OBVIOUS
    <2>4. /\ s \in Rest /\ s.t = 0 + 1 /\ s.num = n \div Power(base)[0 + 1]
          /\ Power(base)[0 + 1] <= UINT64 => Spells(n, base, s.x, 0 + 1)
      BY <1>2, <1>8, <2>1, <2>2, <2>3, RoundIs
    <2>5. s.t = 1 /\ 0 + 1 = 1 /\ s.t \in 1 .. 1
      BY <2>4
    <2> QED BY <2>3, <2>4, <2>5 DEF Reversed
  <1>11. ASSUME NEW k \in 1 .. BITS, k # BITS, Reversed(n, base, k, w[k])
         PROVE  Reversed(n, base, k + 1, w[k + 1])
    <2>1. k \in Nat /\ k >= 1 /\ k + 1 \in 1 .. BITS /\ k + 1 # 1 /\ (k + 1) - 1 = k
      BY <1>1, <1>11
    <2>2. PICK s, u : s = w[k] /\ u = w[k + 1] /\ u = IF s.num = 0 THEN s ELSE Round(s, base)
      BY <1>9, <2>1
    <2>3. /\ s \in Rest /\ s.t \in 1 .. k /\ (s.num # 0 => s.t = k)
          /\ s.num = n \div Power(base)[s.t]
          /\ s.t = 1 \/ n \div Power(base)[s.t - 1] # 0
          /\ Power(base)[s.t] <= UINT64 => Spells(n, base, s.x, s.t)
      BY <1>11, <2>2 DEF Reversed
    <2>4. CASE s.num = 0
      <3>1. u = s /\ s.t \in 1 .. k + 1
        BY <2>1, <2>2, <2>3, <2>4
      <3> QED BY <2>2, <2>3, <2>4, <3>1 DEF Reversed
    <2>5. CASE s.num # 0
      <3>1. u = Round(s, base) /\ s.t = k
        BY <2>2, <2>3, <2>5
      <3>2. /\ u \in Rest /\ u.t = k + 1 /\ u.num = n \div Power(base)[k + 1]
            /\ Power(base)[k + 1] <= UINT64 => Spells(n, base, u.x, k + 1)
        BY <2>3, <3>1, RoundIs
      <3>3. u.t \in 1 .. k + 1 /\ u.t - 1 = k /\ n \div Power(base)[u.t - 1] # 0
        BY <2>1, <2>3, <2>5, <3>1, <3>2
      <3> QED BY <2>2, <3>2, <3>3 DEF Reversed
    <2> QED BY <2>4, <2>5
  <1> DEFINE T == {k \in 0 .. BITS - 1 : Reversed(n, base, k + 1, w[k + 1])}
  <1>12. BITS - 1 \in T
    <2>1. 0 \in T
      BY <1>1, <1>10
    <2>2. ASSUME NEW k \in 0 .. BITS - 1, k # BITS - 1, k \in T PROVE k + 1 \in T
      <3>1. k + 1 \in 1 .. BITS /\ k + 1 # BITS /\ k + 1 \in 0 .. BITS - 1
        BY <1>1, <2>2
      <3> QED BY <1>11, <2>2, <3>1
    <2>3. BITS - 1 \in Nat /\ BITS - 1 \in 0 .. BITS - 1
      BY <1>1
    <2> HIDE DEF T
    <2> QED BY <2>1, <2>2, <2>3, Upwards
  <1>13. (BITS - 1) + 1 = BITS
    BY <1>1
  <1> QED BY <1>7, <1>12, <1>13

(* What reverse_uint delivers: as many digits as the numeral has, and these *)
(* from the last to the first if the reversed number does not overflow      *)
LEMMA ReverseRight ==
  ASSUME NEW n \in 0 .. UINT64 - 1, NEW base \in Nat, base >= 2
  PROVE  /\ reverse_uint(n, base) \in Rest /\ reverse_uint(n, base).t = Figures(n, base)
         /\ Power(base)[Figures(n, base)] <= UINT64 =>
              Spells(n, base, reverse_uint(n, base).x, Figures(n, base))
PROOF
  <1>1. UINT64 \in Nat /\ UINT64 > 0 /\ n \in Nat /\ n < UINT64 /\ BITS \in Nat /\ BITS >= 1
    BY BitsAssumption, TwoTo DEF UINT64
  <1>2. PICK s : s = reverse_uint(n, base)
    OBVIOUS
  <1>3. PICK t \in Nat :
        /\ t = s.t /\ s \in Rest /\ t \in 1 .. BITS /\ (s.num # 0 => t = BITS)
        /\ s.num = n \div Power(base)[t]
        /\ t = 1 \/ n \div Power(base)[t - 1] # 0
        /\ Power(base)[t] <= UINT64 => Spells(n, base, s.x, t)
    <2>1. Reversed(n, base, BITS, s)
      BY <1>2, ReverseIs
    <2>2. s.t \in Nat
      BY <2>1 DEF Reversed, Rest
    <2> QED BY <2>1, <2>2 DEF Reversed
  <1>4. PICK p \in Nat : p = Power(base)[t] /\ p > 0 /\ (t = BITS => p >= UINT64)
    BY <1>1, <1>3, PowerIs, PowerGrows DEF UINT64
  <1>5. s.num = 0
    <2>1. CASE t = BITS
      BY <1>1, <1>3, <1>4, <2>1, DivLess
    <2> QED BY <1>3, <2>1
  <1>6. n < p
    <2>1. n \div p = 0 /\ n % p \in 0 .. p - 1 /\ n = p * (n \div p) + (n % p)
      BY <1>1, <1>3, <1>4, <1>5, DivMod
    <2>2. p * 0 = 0
      BY <1>4
    <2> QED BY <1>1, <1>4, <2>1, <2>2
  <1>7. t = 1 \/ n >= Power(base)[t - 1]
    <2> SUFFICES ASSUME t # 1 PROVE n >= Power(base)[t - 1]
      OBVIOUS
    <2>1. t - 1 \in Nat
      BY <1>1, <1>3
    <2>2. PICK q \in Nat : q = Power(base)[t - 1] /\ q > 0 /\ n \div q # 0
      BY <1>3, <2>1, PowerIs, PowerGrows
    <2>3. ~(n < q)
      BY <1>1, <2>2, DivLess
    <2> QED BY <1>1, <2>2, <2>3
  <1>8. t = Figures(n, base)
    BY <1>1, <1>3, <1>4, <1>6, <1>7, FiguresAre
  <1> QED BY <1>2, <1>3, <1>8

LEMMA QuotientIn ==
  ASSUME NEW x \in 0 .. UINT64 - 1, NEW base \in Nat, base >= 2, NEW i \in Nat
  PROVE  x \div Power(base)[i] \in 0 .. UINT64 - 1
PROOF
  <1>1. UINT64 \in Nat /\ x \in Nat /\ x < UINT64
    BY BitsAssumption, TwoTo DEF UINT64
  <1>2. PICK p \in Nat : p = Power(base)[i] /\ p > 0
    <2>1. Power(base)[i] \in Nat
      BY PowerIs
    <2>2. Power(base)[i] > 0
      BY PowerGrows
    <2> QED BY <2>1, <2>2
  <1>3. PICK c \in Nat, e \in Nat : c = x \div p /\ x = p * c + e
    <2>1. x \div p \in Nat /\ x % p \in Nat /\ x = p * (x \div p) + (x % p)
      BY <1>1, <1>2, DivMod
    <2> QED BY <2>1
  <1>4. PICK b \in Nat : p = b + 1
    <2>1. p - 1 \in Nat /\ p = (p - 1) + 1
      BY <1>2
    <2> QED BY <2>1
  <1>5. p * c = c + b * c /\ b * c \in Nat
    <2>1. \A u, v \in Nat : (u + 1) * v = v + u * v /\ u * v \in Nat
      OBVIOUS
    <2> QED BY <1>3, <1>4, <2>1
  <1>6. c < UINT64
    BY <1>1, <1>3, <1>5
  <1> QED BY <1>1, <1>2, <1>3, <1>6

(* The last digits of any number are printed one after the other.           *)
LEMMA DigitsQuotients ==
  ASSUME NEW x \in 0 .. UINT64 - 1, NEW base \in 2 .. 16, NEW d \in Nat, d >= 1
  PROVE  Digits(x, base, d) = [k \in 1 .. d |-> DIGITS[((x \div Power(base)[k - 1]) % base) + 1]]
PROOF
  <1> DEFINE Rests(f) == [k \in 1 .. d |-> IF k = 1 THEN x ELSE udivdi3(f[k - 1], base)]
             f == [k \in 1 .. d |-> x \div Power(base)[k - 1]]
             w == CHOOSE g : g = Rests(g)
  <1>1. UINT64 \in Nat /\ UINT64 > 0 /\ x \in Nat /\ x < UINT64 /\ base \in Nat /\ base >= 2
    BY BitsAssumption, TwoTo DEF UINT64
  <1>2. d \in Nat /\ d >= 1
    OBVIOUS
  <1>4. ASSUME NEW k \in 1 .. d, k # 1
        PROVE  udivdi3(x \div Power(base)[k - 2], base) = x \div Power(base)[k - 1]
    <2>1. k - 2 \in Nat /\ k - 1 \in Nat /\ (k - 2) + 1 = k - 1
      BY <1>2, <1>4
    <2>2. PICK p \in Nat : p = Power(base)[k - 2] /\ p > 0 /\ Power(base)[k - 1] = base * p
      <3>1. Power(base)[k - 2] \in Nat /\ Power(base)[(k - 2) + 1] = base * Power(base)[k - 2]
        BY <1>1, <2>1, PowerIs
      <3>2. Power(base)[k - 2] > 0
        BY <1>1, <2>1, PowerGrows
      <3> QED BY <2>1, <3>1, <3>2
    <2>3. (x \div p) \div base = x \div (base * p)
      BY <1>1, <2>2, DivDiv
    <2>4. x \div p \in 0 .. UINT64 - 1
      BY <1>1, <2>1, <2>2, QuotientIn
    <2>5. udivdi3(x \div p, base) = (x \div p) \div base
      <3>1. base \in Nat \ {0}
        BY <1>1
      <3> QED BY <2>4, <3>1, DivisionIsRight
    <2> QED BY <2>2, <2>3, <2>5
  <1>5. f = Rests(f)
    <2>1. ASSUME NEW k \in 1 .. d PROVE f[k] = Rests(f)[k]
      <3>1. CASE k = 1
        <4>1. Power(base)[k - 1] = 1 /\ x \div 1 = x
          BY <1>1, <3>1, PowerIs
        <4> QED BY <3>1, <4>1
      <3>2. CASE k # 1
        <4>1. k - 1 \in 1 .. d /\ (k - 1) - 1 = k - 2
          BY <1>2, <3>2
        <4>2. f[k - 1] = x \div Power(base)[k - 2]
          BY <4>1
        <4> QED BY <1>4, <3>2, <4>2
      <3> QED BY <3>1, <3>2
    <2> QED BY <2>1
  <1>6. w = Rests(w)
    <2> HIDE DEF Rests, f
    <2> QED BY <1>5, Zenon
  <1>7. Digits(x, base, d) = [k \in 1 .. d |-> DIGITS[umoddi3(w[k], base) + 1]]
    BY DEF Digits
  <1> HIDE DEF w
  <1>8. w[1] = x /\ \A k \in 1 .. d : k # 1 => w[k] = udivdi3(w[k - 1], base)
    BY <1>2, <1>6
  <1>9. ASSUME NEW N \in 0 .. d - 1 PROVE w[N + 1] = x \div Power(base)[N]
    <2> DEFINE V == {k \in 0 .. N : w[k + 1] = x \div Power(base)[k]}
    <2>1. 0 \in V
      <3>1. Power(base)[0] = 1 /\ x \div 1 = x
        BY <1>1, PowerIs
      <3> QED BY <1>8, <3>1
    <2>2. ASSUME NEW k \in 0 .. N, k # N, k \in V PROVE k + 1 \in V
      <3>1. /\ k \in Nat /\ k + 2 \in 1 .. d /\ k + 2 # 1 /\ (k + 2) - 2 = k
            /\ (k + 2) - 1 = k + 1 /\ k + 1 \in 0 .. N /\ (k + 1) + 1 = k + 2
        BY <1>2, <1>9, <2>2
      <3>2. w[k + 2] = udivdi3(w[k + 1], base)
        BY <1>8, <3>1
      <3>3. udivdi3(x \div Power(base)[k], base) = x \div Power(base)[k + 1]
        BY <1>4, <3>1
      <3> QED BY <2>2, <3>1, <3>2, <3>3
    <2>3. N \in V
      <3>1. N \in Nat /\ N \in 0 .. N
        BY <1>9
      <3> HIDE DEF V
      <3> QED BY <2>1, <2>2, <3>1, Upwards
    <2> QED BY <2>3
  <1>10. ASSUME NEW k \in 1 .. d
         PROVE  umoddi3(w[k], base) = (x \div Power(base)[k - 1]) % base
    <2>1. k - 1 \in 0 .. d - 1 /\ (k - 1) + 1 = k /\ k - 1 \in Nat
      BY <1>2
    <2>2. w[k] = x \div Power(base)[k - 1]
      BY <1>9, <2>1
    <2>3. w[k] \in 0 .. UINT64 - 1
      BY <1>1, <2>1, <2>2, QuotientIn
    <2>4. base \in Nat \ {0}
      BY <1>1
    <2>5. umoddi3(w[k], base) = w[k] % base
      BY <2>3, <2>4, DivisionIsRight
    <2> QED BY <2>2, <2>5
  <1> QED BY <1>7, <1>10

(* The numeral is printed from the reversed number.                         *)
LEMMA DigitsAre ==
  ASSUME NEW n \in 0 .. UINT64 - 1, NEW base \in 2 .. 16,
         NEW x \in 0 .. UINT64 - 1, Spells(n, base, x, Figures(n, base))
  PROVE  Digits(x, base, Figures(n, base)) = Numeral(n, base)
PROOF
  <1> DEFINE d == Figures(n, base)
  <1>1. UINT64 \in Nat /\ base \in Nat /\ base >= 2
    BY BitsAssumption, TwoTo DEF UINT64
  <1>2. d \in Nat /\ d >= 1
    BY <1>1, FiguresAre, BitsAssumption
  <1>3. Spells(n, base, x, d)
    OBVIOUS
  <1> HIDE DEF d
  <1>4. Digits(x, base, d) = [k \in 1 .. d |-> DIGITS[((x \div Power(base)[k - 1]) % base) + 1]]
    BY <1>2, DigitsQuotients
  <1>5. ASSUME NEW k \in 1 .. d
        PROVE  (x \div Power(base)[k - 1]) % base = (n \div Power(base)[d - k]) % base
    <2>1. k - 1 \in 0 .. d - 1 /\ d - 1 - (k - 1) = d - k
      BY <1>2
    <2> QED BY <1>3, <2>1 DEF Spells
  <1>6. Numeral(n, base) = [k \in 1 .. d |-> DIGITS[((n \div Power(base)[d - k]) % base) + 1]]
    BY DEF Numeral, d
  <1>7. Digits(x, base, d) = Numeral(n, base)
    BY <1>4, <1>5, <1>6
  <1> QED BY <1>7 DEF d

(* The numeral of a number, as number makes it: reverse_uint gives the      *)
(* digits in the other order and counts them (vsprintf.c:66-79), and the    *)
(* loop of 131-135 prints them from there.  The count is right for every    *)
(* uint64_t; the digits are, as long as the reversal fits in one, which a   *)
(* power of the base that is at most 2^64 ensures.                          *)
THEOREM NumeralsAreRight ==
  \A n \in 0 .. UINT64 - 1 : \A base \in 2 .. 16 :
    LET r == reverse_uint(n, base) IN
    /\ r.t = Figures(n, base)
    /\ Power(base)[r.t] <= UINT64 => Digits(r.x, base, r.t) = Numeral(n, base)
PROOF
  <1> SUFFICES ASSUME NEW n \in 0 .. UINT64 - 1, NEW base \in 2 .. 16
               PROVE  LET r == reverse_uint(n, base) IN
                      /\ r.t = Figures(n, base)
                      /\ Power(base)[r.t] <= UINT64 => Digits(r.x, base, r.t) = Numeral(n, base)
    OBVIOUS
  <1> DEFINE r == reverse_uint(n, base)
  <1>1. base \in Nat /\ base >= 2 /\ UINT64 \in Nat
    BY BitsAssumption, TwoTo DEF UINT64
  <1>2. /\ r \in Rest /\ r.t = Figures(n, base)
        /\ Power(base)[Figures(n, base)] <= UINT64 => Spells(n, base, r.x, Figures(n, base))
    BY <1>1, ReverseRight
  <1> HIDE DEF r
  <1>3. r.x \in 0 .. UINT64 - 1
    BY <1>2 DEF Rest
  <1>4. Power(base)[r.t] <= UINT64 => Digits(r.x, base, r.t) = Numeral(n, base)
    BY <1>2, <1>3, DigitsAre
  <1> QED BY <1>2, <1>4 DEF r

-----------------------------------------------------------------------------
(***************************************************************************)
(* 4. Reading a conversion.                                                *)
(*                                                                         *)
(* A piece Stands in a format, or in the arguments, from a place on.  The  *)
(* lemmas follow vsprintf from one part of a Spelling to the next: flags,  *)
(* width and precision, size, type, and to the words passed for them.      *)
(***************************************************************************)
(* Sequences in sequences, and the pieces of a flattened sequence           *)
Stands(q, i, s) ==
  /\ i \in Nat \ {0} /\ Len(q) \in Nat /\ i + Len(s) <= Len(q) + 1
  /\ \A k \in 1 .. Len(s) : q[i + k - 1] = s[k]

LEMMA JoinedIs ==
  ASSUME NEW S, NEW s \in Seq(S), NEW t \in Seq(S)
  PROVE  /\ s \o t \in Seq(S) /\ Len(s \o t) = Len(s) + Len(t) /\ Len(s) \in Nat /\ Len(t) \in Nat
         /\ \A i \in 1 .. Len(s) : (s \o t)[i] = s[i]
         /\ \A i \in 1 .. Len(t) : (s \o t)[Len(s) + i] = t[i]
PROOF
  <1>1. s \o t \in Seq(S) /\ Len(s \o t) = Len(s) + Len(t) /\ Len(s) \in Nat /\ Len(t) \in Nat
    OBVIOUS
  <1>2. \A i \in 1 .. Len(s) + Len(t) : (s \o t)[i] = IF i <= Len(s) THEN s[i] ELSE t[i - Len(s)]
    OBVIOUS
  <1>3. ASSUME NEW i \in 1 .. Len(t) PROVE (s \o t)[Len(s) + i] = t[i]
    <2>1. Len(s) + i \in 1 .. Len(s) + Len(t) /\ ~(Len(s) + i <= Len(s)) /\ (Len(s) + i) - Len(s) = i
      BY <1>1
    <2> QED BY <1>2, <2>1
  <1>4. \A i \in 1 .. Len(s) : i \in 1 .. Len(s) + Len(t) /\ i <= Len(s)
    BY <1>1
  <1> QED BY <1>1, <1>2, <1>3, <1>4

LEMMA StandsJoined ==
  ASSUME NEW S, NEW s \in Seq(S), NEW t \in Seq(S), NEW q, NEW i, Stands(q, i, s \o t)
  PROVE  Stands(q, i, s) /\ Stands(q, i + Len(s), t)
PROOF
  <1> DEFINE r == s \o t
             m == Len(s)
             n == Len(t)
  <1>1. /\ m \in Nat /\ n \in Nat /\ Len(r) = m + n
        /\ \A k \in 1 .. m + n : r[k] = IF k <= m THEN s[k] ELSE t[k - m]
    OBVIOUS
  <1>2. Stands(q, i, r)
    OBVIOUS
  <1> HIDE DEF r
  <1>3. i \in Nat \ {0} /\ Len(q) \in Nat /\ i + (m + n) <= Len(q) + 1
    BY <1>1, <1>2 DEF Stands
  <1>4. ASSUME NEW k \in 1 .. m PROVE q[i + k - 1] = s[k]
    <2>1. k \in 1 .. Len(r)
      BY <1>1
    <2> QED BY <1>1, <1>2, <2>1 DEF Stands
  <1>5. ASSUME NEW k \in 1 .. n PROVE q[(i + m) + k - 1] = t[k]
    <2>1. m + k \in 1 .. Len(r) /\ ~(m + k <= m) /\ (m + k) - m = k /\ (i + m) + k - 1 = i + (m + k) - 1
      BY <1>1, <1>3
    <2> QED BY <1>1, <1>2, <2>1 DEF Stands
  <1>6. i + m \in Nat \ {0} /\ i + m <= Len(q) + 1 /\ (i + m) + n <= Len(q) + 1
    BY <1>1, <1>3
  <1> HIDE DEF m, n
  <1>7. Stands(q, i, s)
    BY <1>3, <1>4, <1>6 DEF Stands, m
  <1>8. Stands(q, i + m, t)
    BY <1>3, <1>5, <1>6 DEF Stands, n
  <1> QED BY <1>7, <1>8 DEF m

LEMMA StandsOne ==
  ASSUME NEW c, NEW q, NEW i, Stands(q, i, <<c>>)
  PROVE  i \in 1 .. Len(q) /\ q[i] = c /\ Len(q) \in Nat
PROOF
  <1>1. Len(<<c>>) = 1 /\ <<c>>[1] = c /\ 1 \in 1 .. Len(<<c>>)
    OBVIOUS
  <1>2. i \in Nat \ {0} /\ Len(q) \in Nat /\ i + 1 <= Len(q) + 1 /\ q[i + 1 - 1] = c
    BY <1>1 DEF Stands
  <1> QED BY <1>2

Pieces(at, N, piece) == at = [k \in 0 .. N |-> IF k = 0 THEN << >> ELSE at[k - 1] \o piece[k]]

LEMMA PiecesSteps ==
  ASSUME NEW N \in Nat, NEW piece, NEW at, Pieces(at, N, piece)
  PROVE  at[0] = << >> /\ \A k \in 1 .. N : at[k] = at[k - 1] \o piece[k]
PROOF
  <1>1. 0 \in 0 .. N /\ \A k \in 1 .. N : k \in 0 .. N /\ k # 0
    OBVIOUS
  <1>2. \A k \in 0 .. N : at[k] = IF k = 0 THEN << >> ELSE at[k - 1] \o piece[k]
    <2>1. at = [k \in 0 .. N |-> IF k = 0 THEN << >> ELSE at[k - 1] \o piece[k]]
      BY DEF Pieces
    <2> QED BY <2>1, Zenon
  <1> QED BY <1>1, <1>2, Zenon

LEMMA FlattenIs ==
  ASSUME NEW N \in Nat, NEW S, NEW piece \in [1 .. N -> Seq(S)]
  PROVE  \E at : Pieces(at, N, piece) /\ FlattenSeq(piece) = at[N]
PROOF
  <1> DEFINE Is(g) == g = [i \in 1 .. N |-> IF i = 1 THEN piece[i] ELSE g[i - 1] \o piece[i]]
             w == CHOOSE g : Is(g)
  <1>1. PICK at : Pieces(at, N, piece)
    BY PiecesExist DEF Pieces
  <1>2. at[0] = << >> /\ \A k \in 1 .. N : at[k] = at[k - 1] \o piece[k]
    BY <1>1, PiecesSteps
  <1>3. Len(piece) = N
    OBVIOUS
  <1>4. CASE N = 0
    <2>1. piece = << >>
      BY <1>4
    <2>2. FlattenSeq(piece) = piece
      BY <1>3, <1>4 DEF FlattenSeq
    <2> QED BY <1>1, <1>2, <1>4, <2>1, <2>2
  <1>5. CASE N # 0
    <2> DEFINE f == [k \in 1 .. N |-> at[k]]
    <2>1. ASSUME NEW k \in 1 .. N
          PROVE  f[k] = IF k = 1 THEN piece[k] ELSE f[k - 1] \o piece[k]
      <3>1. CASE k = 1
        <4>1. piece[k] \in Seq(S) /\ k - 1 = 0
          BY <3>1
        <4>2. << >> \o piece[k] = piece[k]
          BY <4>1
        <4> QED BY <1>2, <3>1, <4>1, <4>2
      <3>2. CASE k # 1
        <4>1. k - 1 \in 1 .. N
          BY <3>2
        <4> QED BY <1>2, <3>2, <4>1
      <3> QED BY <3>1, <3>2
    <2>2. Is(f)
      BY <2>1
    <2>3. Is(w)
      <3> HIDE DEF Is
      <3> QED BY <2>2, Zenon
    <2>4. FlattenSeq(piece) = w[N]
      BY <1>3, <1>5 DEF FlattenSeq
    <2> HIDE DEF w, f
    <2> DEFINE T == {k \in 0 .. N : k # 0 => w[k] = at[k]}
    <2>5. 0 \in T
      OBVIOUS
    <2>6. ASSUME NEW k \in 0 .. N, k # N, k \in T
          PROVE  k + 1 \in T
      <3>1. k + 1 \in 1 .. N /\ k + 1 \in 0 .. N /\ (k + 1) - 1 = k
        BY <2>6
      <3>2. w[k + 1] = IF k + 1 = 1 THEN piece[k + 1] ELSE w[k] \o piece[k + 1]
        BY <2>3, <3>1
      <3>3. at[k + 1] = at[k] \o piece[k + 1]
        BY <1>2, <3>1
      <3>4. CASE k = 0
        <4>1. piece[k + 1] \in Seq(S) /\ k + 1 = 1
          BY <3>1, <3>4
        <4>2. << >> \o piece[k + 1] = piece[k + 1]
          BY <4>1
        <4>3. at[k + 1] = piece[k + 1]
          BY <1>2, <3>3, <3>4, <4>2
        <4>4. w[k + 1] = piece[k + 1]
          BY <3>2, <4>1
        <4> QED BY <3>1, <4>3, <4>4
      <3>5. CASE k # 0
        <4>1. k + 1 # 1 /\ w[k] = at[k]
          BY <2>6, <3>5
        <4>2. w[k + 1] = at[k + 1]
          BY <3>2, <3>3, <4>1
        <4> QED BY <3>1, <4>2
      <3> QED BY <3>4, <3>5
    <2>7. N \in T
      <3>1. N \in 0 .. N
        OBVIOUS
      <3> HIDE DEF T
      <3> QED BY <2>5, <2>6, <3>1, Upwards
    <2>8. w[N] = at[N]
      BY <1>5, <2>7
    <2> QED BY <1>1, <2>4, <2>8
  <1> QED BY <1>4, <1>5

LEMMA PiecesStand ==
  ASSUME NEW N \in Nat, NEW S, NEW piece \in [1 .. N -> Seq(S)], NEW at, Pieces(at, N, piece)
  PROVE  /\ at[0] = << >> /\ \A k \in 0 .. N : at[k] \in Seq(S)
         /\ \A k \in 1 .. N : /\ at[k] = at[k - 1] \o piece[k]
                              /\ Len(at[k]) = Len(at[k - 1]) + Len(piece[k])
                              /\ Stands(at[N], Len(at[k - 1]) + 1, piece[k])
PROOF
  <1>1. at[0] = << >> /\ \A k \in 1 .. N : at[k] = at[k - 1] \o piece[k]
    BY PiecesSteps
  <1> DEFINE Here(j, k) == Stands(at[j], Len(at[k - 1]) + 1, piece[k])
             T == {j \in 0 .. N : /\ at[j] \in Seq(S)
                                  /\ \A k \in 1 .. j : at[k - 1] \in Seq(S) /\ Here(j, k)}
  <1>2. 0 \in T
    <2>1. << >> \in Seq(S) /\ 0 \in 0 .. N /\ \A k \in 1 .. 0 : FALSE
      OBVIOUS
    <2> HIDE DEF Here
    <2> QED BY <1>1, <2>1
  <1>3. ASSUME NEW j \in 0 .. N, j # N, j \in T
        PROVE  j + 1 \in T
    <2>1. j + 1 \in 1 .. N /\ j + 1 \in 0 .. N /\ (j + 1) - 1 = j
      BY <1>3
    <2> DEFINE p == at[j]
               q == piece[j + 1]
               r == at[j + 1]
    <2>2. p \in Seq(S) /\ q \in Seq(S) /\ r = p \o q
      BY <1>1, <1>3, <2>1
    <2> HIDE DEF p, q
    <2>3. /\ r \in Seq(S) /\ Len(r) = Len(p) + Len(q) /\ Len(p) \in Nat /\ Len(q) \in Nat
          /\ \A i \in 1 .. Len(p) : r[i] = p[i]
          /\ \A i \in 1 .. Len(q) : r[Len(p) + i] = q[i]
      BY <2>2, JoinedIs
    <2> HIDE DEF r
    <2>4. ASSUME NEW k \in 1 .. j PROVE Here(j + 1, k)
      <3>1. at[k - 1] \in Seq(S) /\ Here(j, k)
        BY <1>3
      <3>2. k \in 1 .. N /\ piece[k] \in Seq(S)
        BY <2>1
      <3> DEFINE b == Len(at[k - 1]) + 1
                 s == piece[k]
      <3>3. b \in Nat \ {0} /\ Len(s) \in Nat /\ b + Len(s) <= Len(p) + 1
            /\ \A l \in 1 .. Len(s) : p[b + l - 1] = s[l]
        <4>1. Stands(p, b, s) /\ s \in Seq(S) /\ at[k - 1] \in Seq(S)
          BY <3>1, <3>2 DEF p
        <4> HIDE DEF s
        <4>2. Len(s) \in Nat
          BY <4>1
        <4>3. /\ b \in Nat \ {0} /\ b + Len(s) <= Len(p) + 1
              /\ \A l \in 1 .. Len(s) : p[b + l - 1] = s[l]
          BY <4>1, Zenon DEF Stands
        <4> QED BY <4>2, <4>3
      <3> HIDE DEF b, s
      <3>4. ASSUME NEW l \in 1 .. Len(s) PROVE r[b + l - 1] = s[l]
        <4>1. b + l - 1 \in 1 .. Len(p)
          BY <2>3, <3>3
        <4> QED BY <2>3, <3>3, <4>1
      <3>5. Stands(r, b, s)
        BY <2>3, <3>3, <3>4 DEF Stands
      <3> QED BY <3>5 DEF r, b, s
    <2>5. Here(j + 1, j + 1)
      <3>1. Len(p) + 1 \in Nat \ {0} /\ (Len(p) + 1) + Len(q) <= Len(r) + 1 /\ Len(r) \in Nat
        BY <2>3
      <3>2. ASSUME NEW l \in 1 .. Len(q) PROVE r[(Len(p) + 1) + l - 1] = q[l]
        <4>1. (Len(p) + 1) + l - 1 = Len(p) + l
          BY <2>3
        <4> QED BY <2>3, <4>1
      <3>3. Stands(r, Len(p) + 1, q)
        BY <3>1, <3>2 DEF Stands
      <3> QED BY <2>1, <3>3 DEF r, p, q
    <2>6. \A k \in 1 .. j + 1 : k \in 1 .. j \/ k = j + 1
      BY <2>1
    <2>7. r \in Seq(S) /\ \A k \in 1 .. j + 1 : at[k - 1] \in Seq(S)
      BY <1>3, <2>1, <2>2, <2>3, <2>6 DEF p
    <2> HIDE DEF Here
    <2>8. \A k \in 1 .. j + 1 : Here(j + 1, k)
      BY <2>4, <2>5, <2>6
    <2> QED BY <2>1, <2>7, <2>8 DEF r
  <1>4. \A j \in 0 .. N : j \in T
    <2> HIDE DEF T
    <2> QED BY <1>2, <1>3, Upwards
  <1>5. ASSUME NEW k \in 0 .. N PROVE at[k] \in Seq(S)
    BY <1>4
  <1>6. ASSUME NEW k \in 1 .. N PROVE Here(N, k)
    <2>1. N \in 0 .. N
      OBVIOUS
    <2> HIDE DEF Here
    <2> QED BY <1>4, <2>1
  <1>7. ASSUME NEW k \in 1 .. N PROVE Len(at[k]) = Len(at[k - 1]) + Len(piece[k])
    <2>1. k - 1 \in 0 .. N /\ piece[k] \in Seq(S) /\ at[k] = at[k - 1] \o piece[k]
      BY <1>1
    <2>2. at[k - 1] \in Seq(S)
      BY <1>5, <2>1
    <2> QED BY <2>1, <2>2
  <1> QED BY <1>1, <1>5, <1>6, <1>7

-----------------------------------------------------------------------------
(* Characters                                                               *)
Marks  == {"0", "1", "2", "3", "4", "5", "6", "7", "8", "9", "A", "B", "C", "D", "E", "F",
           "%", "-", "+", " ", "#", "*", ".", "l", "h", "c", "s", "d", "u", "o", "x", "p"}
Glyphs == STRING \cup Marks

LEMMA DigitsDiffer ==
  /\ \A k \in 1 .. 16 : DIGITS[k] \in Glyphs
  /\ \A k \in 1 .. 10 : DIGITS[k] \in IsDigit
  /\ \A k \in 1 .. 10 : DIGITS[k] = "0" => k = 1
  /\ \A k, l \in 1 .. 10 : DIGITS[k] = DIGITS[l] => k = l
PROOF
  <1>1. /\ DIGITS[1] = "0" /\ DIGITS[2] = "1" /\ DIGITS[3] = "2" /\ DIGITS[4] = "3"
        /\ DIGITS[5] = "4" /\ DIGITS[6] = "5" /\ DIGITS[7] = "6" /\ DIGITS[8] = "7"
        /\ DIGITS[9] = "8" /\ DIGITS[10] = "9" /\ DIGITS[11] = "A" /\ DIGITS[12] = "B"
        /\ DIGITS[13] = "C" /\ DIGITS[14] = "D" /\ DIGITS[15] = "E" /\ DIGITS[16] = "F"
    BY DEF DIGITS
  <1>2. \A k \in 1 .. 16 : DIGITS[k] \in Glyphs
    <2>1. \A k \in 1 .. 16 : \/ k = 1 \/ k = 2 \/ k = 3 \/ k = 4 \/ k = 5 \/ k = 6 \/ k = 7 \/ k = 8
                            \/ k = 9 \/ k = 10 \/ k = 11 \/ k = 12 \/ k = 13 \/ k = 14 \/ k = 15
                            \/ k = 16
      OBVIOUS
    <2>2. /\ "0" \in Glyphs /\ "1" \in Glyphs /\ "2" \in Glyphs /\ "3" \in Glyphs
          /\ "4" \in Glyphs /\ "5" \in Glyphs /\ "6" \in Glyphs /\ "7" \in Glyphs
          /\ "8" \in Glyphs /\ "9" \in Glyphs /\ "A" \in Glyphs /\ "B" \in Glyphs
          /\ "C" \in Glyphs /\ "D" \in Glyphs /\ "E" \in Glyphs /\ "F" \in Glyphs
      BY DEF Glyphs, Marks
    <2> QED BY <1>1, <2>1, <2>2, ZenonT(60)
  <1>3. \A k \in 1 .. 10 : DIGITS[k] \in IsDigit
    BY DEF IsDigit
  <1>4. \A k \in 1 .. 10 : DIGITS[k] = "0" => k = 1
    BY <1>1
  <1>5. \A k, l \in 1 .. 10 : DIGITS[k] = DIGITS[l] => k = l
    BY <1>1
  <1> QED BY <1>1, <1>2, <1>3, <1>4, <1>5

LEMMA NoDigits ==
  /\ \A c \in IsDigit : c # "*" /\ c # "." /\ c # "%" /\ c # "NUL" /\ c # "l" /\ c # "h"
  /\ \A c \in {"*", ".", "%", "NUL", "l", "h", "-", "+", " ", "#", "c", "s"} \cup Numbers : c \notin IsDigit
  /\ \A c \in IsDigit : c \notin FlagChars \/ c = "0"
PROOF
  <1>1. \A k \in 1 .. 10 : DIGITS[k] \in {"0", "1", "2", "3", "4", "5", "6", "7", "8", "9"}
    BY DEF DIGITS
  <1>2. \A c \in IsDigit : c \in {"0", "1", "2", "3", "4", "5", "6", "7", "8", "9"}
    BY <1>1 DEF IsDigit
  <1> QED BY <1>2 DEF Numbers, FlagChars

LEMMA NumeralIs ==
  ASSUME NEW n \in 0 .. UINT64 - 1, NEW base \in 2 .. 16
  PROVE  /\ Len(Numeral(n, base)) = Figures(n, base) /\ Figures(n, base) \in 1 .. BITS
         /\ Numeral(n, base) \in Seq(Glyphs)
         /\ \A k \in 1 .. Figures(n, base) :
              /\ (n \div Power(base)[Figures(n, base) - k]) % base \in 0 .. base - 1
              /\ Numeral(n, base)[k] = DIGITS[((n \div Power(base)[Figures(n, base) - k]) % base) + 1]
         /\ n > 0 => (n \div Power(base)[Figures(n, base) - 1]) % base > 0
PROOF
  <1> DEFINE d == Figures(n, base)
  <1>1. UINT64 \in Nat /\ n \in Nat /\ BITS \in Nat /\ base \in Nat /\ base >= 2 /\ base <= 16
    BY BitsAssumption, TwoTo DEF UINT64
  <1>2. d \in 1 .. BITS /\ n < Power(base)[d] /\ (d = 1 \/ n >= Power(base)[d - 1])
    BY <1>1, FiguresAre
  <1>3. ASSUME NEW k \in 1 .. d
        PROVE  (n \div Power(base)[d - k]) % base \in 0 .. base - 1
    <2>1. d - k \in Nat
      BY <1>1, <1>2
    <2>2. Power(base)[d - k] \in Nat /\ Power(base)[d - k] > 0
      BY <1>1, <2>1, PowerIs, PowerGrows
    <2>3. n \div Power(base)[d - k] \in Nat
      BY <1>1, <2>2, DivMod
    <2> QED BY <1>1, <2>3, DivMod
  <1>4. Numeral(n, base) = [k \in 1 .. d |-> DIGITS[((n \div Power(base)[d - k]) % base) + 1]]
    BY DEF Numeral
  <1>5. ASSUME NEW k \in 1 .. d
        PROVE  Numeral(n, base)[k] = DIGITS[((n \div Power(base)[d - k]) % base) + 1]
    BY <1>4
  <1>6. ASSUME NEW k \in 1 .. d
        PROVE  DIGITS[((n \div Power(base)[d - k]) % base) + 1] \in Glyphs
    <2>1. ((n \div Power(base)[d - k]) % base) + 1 \in 1 .. 16
      BY <1>1, <1>3
    <2> QED BY <2>1, DigitsDiffer
  <1>7. Numeral(n, base) \in Seq(Glyphs) /\ Len(Numeral(n, base)) = d
    BY <1>1, <1>2, <1>4, <1>6
  <1>8. ASSUME n > 0
        PROVE  (n \div Power(base)[d - 1]) % base > 0
    <2>1. d - 1 \in Nat /\ (d - 1) + 1 = d
      BY <1>1, <1>2
    <2> DEFINE p == Power(base)[d - 1]
    <2>2. p \in Nat /\ p > 0 /\ Power(base)[d] = base * p
      BY <1>1, <2>1, PowerIs, PowerGrows
    <2> HIDE DEF p
    <2>3. n >= p
      <3>1. CASE d = 1
        <4>1. p = 1
          BY <1>1, <3>1, PowerIs DEF p
        <4> QED BY <1>1, <1>8, <4>1
      <3> QED BY <1>2, <3>1 DEF p
    <2>4. n < base * p
      BY <1>2, <2>2
    <2> DEFINE q == n \div p
               r == n % p
    <2>5. q \in Nat /\ r \in Nat /\ r < p /\ n = p * q + r
      BY <1>1, <2>2, DivMod
    <2> HIDE DEF q, r
    <2>6. q > 0
      <3>1. q = 0 => n = r
        BY <2>2, <2>5
      <3> QED BY <1>1, <2>2, <2>3, <2>5, <3>1
    <2>7. q < base
      <3>1. SUFFICES ASSUME q >= base PROVE FALSE
        BY <1>1, <2>5
      <3>2. p * base <= p * q
        BY <1>1, <2>2, <2>5, <3>1, Products
      <3>3. p * base = base * p /\ p * base \in Nat /\ p * q \in Nat
        BY <1>1, <2>2, <2>5
      <3> QED BY <1>1, <2>4, <2>5, <3>2, <3>3
    <2>8. q % base = q
      BY <1>1, <2>5, <2>7, DivLess
    <2> QED BY <2>6, <2>8 DEF p, q
  <1> HIDE DEF d
  <1> QED BY <1>2, <1>3, <1>5, <1>7, <1>8 DEF d

-----------------------------------------------------------------------------
(* Runs of characters                                                       *)
LEMMA PastIs ==
  ASSUME NEW fmt, Len(fmt) \in Nat, NEW chars, NEW i \in Nat, NEW j \in i .. Len(fmt) + 1,
         \A k \in i .. j - 1 : At(fmt, k) \in chars, At(fmt, j) \notin chars
  PROVE  Past(fmt, i, chars) = j
PROOF
  <1> DEFINE Ends(x) == At(fmt, x) \notin chars /\ \A k \in i .. x - 1 : At(fmt, k) \in chars
             w == CHOOSE x \in i .. Len(fmt) + 1 : Ends(x)
  <1>1. Ends(j)
    OBVIOUS
  <1>2. w \in i .. Len(fmt) + 1 /\ Ends(w)
    <2> HIDE DEF Ends
    <2> QED BY <1>1
  <1>3. w = j
    <2>1. ~(w < j)
      BY <1>2
    <2>2. ~(j < w)
      <3>1. j < w => j \in i .. w - 1
        BY <1>2
      <3> QED BY <1>2, <3>1
    <2> QED BY <1>2, <2>1, <2>2
  <1> QED BY <1>3 DEF Past

LEMMA StandsAt ==
  ASSUME NEW S, NEW fmt \in Seq(S), NEW R, NEW s \in Seq(R), NEW i, Stands(fmt, i, s)
  PROVE  \A k \in 1 .. Len(s) : At(fmt, i + k - 1) = s[k] /\ fmt[i + k - 1] = s[k]
PROOF
  <1>1. SUFFICES ASSUME NEW k \in 1 .. Len(s)
                 PROVE  At(fmt, i + k - 1) = s[k] /\ fmt[i + k - 1] = s[k]
    OBVIOUS
  <1>2. i \in Nat \ {0} /\ Len(fmt) \in Nat /\ i + Len(s) <= Len(fmt) + 1 /\ fmt[i + k - 1] = s[k]
    BY DEF Stands
  <1>3. i + k - 1 \in DOMAIN fmt
    BY <1>2
  <1> QED BY <1>2, <1>3 DEF At

LEMMA PastRun ==
  ASSUME NEW S, NEW fmt \in Seq(S), NEW chars, NEW s \in Seq(chars), NEW i, Stands(fmt, i, s),
         At(fmt, i + Len(s)) \notin chars
  PROVE  Past(fmt, i, chars) = i + Len(s)
PROOF
  <1> DEFINE j == i + Len(s)
  <1>1. i \in Nat /\ j \in i .. Len(fmt) + 1 /\ Len(fmt) \in Nat /\ Len(s) \in Nat
    BY DEF Stands
  <1>2. ASSUME NEW k \in i .. j - 1 PROVE At(fmt, k) \in chars
    <2>1. (k - i) + 1 \in 1 .. Len(s) /\ i + ((k - i) + 1) - 1 = k
      BY <1>1
    <2>2. At(fmt, k) = s[(k - i) + 1]
      BY <2>1, StandsAt
    <2> QED BY <2>1, <2>2
  <1> HIDE DEF j
  <1>3. At(fmt, j) \notin chars
    BY DEF j
  <1>4. Past(fmt, i, chars) = j
    BY <1>1, <1>2, <1>3, PastIs
  <1> QED BY <1>4 DEF j

-----------------------------------------------------------------------------
(* Widths, precisions, sizes and flags                                      *)
LEMMA FieldNumber ==
  ASSUME NEW fmt \in Seq(Glyphs), NEW n \in 0 .. UINT64 - 1, NEW i, Stands(fmt, i, Numeral(n, 10)),
         At(fmt, i + Figures(n, 10)) \notin IsDigit, NEW args, NEW a
  PROVE  Field(fmt, i, args, a) = [n |-> n, i |-> i + Figures(n, 10), a |-> a]
PROOF
  <1> DEFINE s == Numeral(n, 10)
             d == Figures(n, 10)
             j == i + d
             x(t) == (n \div Power(10)[t]) % 10
             digit(c) == (CHOOSE k \in 1 .. 10 : DIGITS[k] = c) - 1
  <1>1. 10 \in 2 .. 16 /\ BITS \in Nat
    BY BitsAssumption
  <1>2. /\ Len(s) = d /\ d \in 1 .. BITS /\ s \in Seq(Glyphs)
        /\ \A k \in 1 .. d : x(d - k) \in 0 .. 9 /\ s[k] = DIGITS[x(d - k) + 1]
    <2>1. \A k : k \in 0 .. 10 - 1 => k \in 0 .. 9
      OBVIOUS
    <2> QED BY <1>1, <2>1, NumeralIs
  <1>3. i \in Nat \ {0} /\ Len(fmt) \in Nat /\ j \in Nat /\ i <= j /\ j <= Len(fmt) + 1
    BY <1>1, <1>2 DEF Stands
  <1> HIDE DEF s, x
  <1>4. s \in Seq(IsDigit)
    <2>1. \A k \in 1 .. d : s[k] \in IsDigit
      <3>1. SUFFICES ASSUME NEW k \in 1 .. d PROVE s[k] \in IsDigit
        OBVIOUS
      <3>2. x(d - k) + 1 \in 1 .. 10
        <4>1. x(d - k) \in 0 .. 9
          BY <1>2
        <4>2. PICK y : y = x(d - k)
          OBVIOUS
        <4> QED BY <4>1, <4>2
      <3>3. \A l \in 1 .. 10 : DIGITS[l] \in IsDigit
        BY DigitsDiffer
      <3>4. PICK l \in 1 .. 10 : l = x(d - k) + 1
        BY <3>2
      <3>5. s[k] = DIGITS[x(d - k) + 1]
        BY <1>2
      <3> QED BY <3>3, <3>4, <3>5
    <2>2. s = [k \in 1 .. d |-> s[k]] /\ d \in Nat
      BY <1>2
    <2> QED BY <2>1, <2>2
  <1>5. Past(fmt, i, IsDigit) = j
    BY <1>2, <1>4, PastRun DEF s
  <1>6. ASSUME NEW k \in i + 1 .. j PROVE fmt[k - 1] = DIGITS[x(j - k) + 1] /\ x(j - k) \in 0 .. 9
    <2>1. k - i \in 1 .. d /\ i + (k - i) - 1 = k - 1 /\ d - (k - i) = j - k
      BY <1>1, <1>2, <1>3
    <2>2. fmt[i + (k - i) - 1] = s[k - i]
      BY <1>2, <2>1, StandsAt DEF s
    <2> QED BY <1>2, <2>1, <2>2
  <1>7. ASSUME NEW y \in 0 .. 9 PROVE digit(DIGITS[y + 1]) = y
    <2>1. y + 1 \in 1 .. 10
      OBVIOUS
    <2>2. \A k \in 1 .. 10 : DIGITS[k] = DIGITS[y + 1] => k = y + 1
      BY <2>1, DigitsDiffer
    <2> DEFINE e == CHOOSE k \in 1 .. 10 : DIGITS[k] = DIGITS[y + 1]
    <2>3. e \in 1 .. 10 /\ DIGITS[e] = DIGITS[y + 1]
      BY <2>1
    <2>4. digit(DIGITS[y + 1]) = e - 1
      OBVIOUS
    <2> HIDE DEF e, digit
    <2>5. e = y + 1
      BY <2>2, <2>3
    <2> QED BY <2>4, <2>5
  <1> DEFINE v == [k \in i .. j |-> n \div Power(10)[j - k]]
             Is(g) == g = [k \in i .. j |-> IF k = i THEN 0 ELSE g[k - 1] * 10 + digit(fmt[k - 1])]
             w == CHOOSE g : Is(g)
  <1>8. n \in Nat /\ n < Power(10)[d] /\ UINT64 \in Nat
    BY <1>1, TwoTo, FiguresAre DEF UINT64
  <1>9. ASSUME NEW k \in i .. j
        PROVE  v[k] = IF k = i THEN 0 ELSE v[k - 1] * 10 + digit(fmt[k - 1])
    <2> DEFINE t == j - k
    <2>1. t \in Nat /\ v[k] = n \div Power(10)[t]
      BY <1>3
    <2>2. CASE k = i
      <3>1. t = d
        BY <1>2, <1>3, <2>2
      <3> HIDE DEF t
      <3>2. Power(10)[d] \in Nat
        BY <2>1, <3>1, PowerIs
      <3>3. n \div Power(10)[d] = 0
        BY <1>8, <3>2, DivLess
      <3> QED BY <2>1, <2>2, <3>1, <3>3
    <2>3. CASE k # i
      <3>1. k \in i + 1 .. j /\ k - 1 \in i .. j /\ j - (k - 1) = t + 1
        BY <1>3, <2>3
      <3>2. v[k - 1] = n \div Power(10)[t + 1]
        BY <3>1
      <3>3. digit(fmt[k - 1]) = x(t)
        <4>1. fmt[k - 1] = DIGITS[x(t) + 1] /\ x(t) \in 0 .. 9
          BY <1>6, <3>1
        <4> HIDE DEF digit, t
        <4> QED BY <1>7, <4>1
      <3> HIDE DEF t, v, digit
      <3>4. Power(10)[t] \in Nat /\ Power(10)[t + 1] = 10 * Power(10)[t]
        BY <2>1, PowerIs
      <3>5. Power(10)[t] > 0
        <4>1. 10 \in Nat /\ 10 >= 2
          OBVIOUS
        <4> QED BY <2>1, <4>1, PowerGrows
      <3>6. (n \div Power(10)[t]) \div 10 = n \div (10 * Power(10)[t])
        BY <1>8, <3>4, <3>5, DivDiv
      <3> DEFINE q == n \div Power(10)[t]
      <3>7. q \in Nat
        BY <1>8, <3>4, <3>5, DivMod
      <3>8. x(t) = q % 10 /\ v[k - 1] = q \div 10 /\ v[k] = q
        BY <2>1, <3>2, <3>4, <3>6 DEF x
      <3> HIDE DEF q
      <3>9. q = (q \div 10) * 10 + (q % 10)
        BY <3>7
      <3> QED BY <2>3, <3>3, <3>8, <3>9
    <2> QED BY <2>2, <2>3
  <1>v. ASSUME NEW k \in i .. j PROVE v[k] = n \div Power(10)[j - k]
    OBVIOUS
  <1> HIDE DEF digit
  <1>10. Is(v)
    BY <1>9
  <1>11. w = [k \in i .. j |-> IF k = i THEN 0 ELSE w[k - 1] * 10 + digit(fmt[k - 1])]
    <2>1. Is(w)
      <3> HIDE DEF Is, v
      <3> QED BY <1>10, Zenon
    <2> QED BY <2>1
  <1> HIDE DEF w, v
  <1> DEFINE T == {k \in 0 .. d : w[i + k] = v[i + k]}
  <1> HIDE DEF d
  <1>12. 0 \in T
    <2>1. i + 0 = i /\ i \in i .. j /\ 0 \in 0 .. d
      BY <1>1, <1>2, <1>3
    <2> QED BY <1>9, <1>11, <2>1
  <1>13. ASSUME NEW k \in 0 .. d, k # d, k \in T
         PROVE  k + 1 \in T
    <2>1. i + (k + 1) \in i .. j /\ i + (k + 1) # i /\ (i + (k + 1)) - 1 = i + k /\ k + 1 \in 0 .. d
      BY <1>1, <1>2, <1>3, <1>13
    <2>2. w[i + k] = v[i + k]
      BY <1>13
    <2> DEFINE e == i + (k + 1)
    <2> HIDE DEF e
    <2>3. e \in i .. j /\ e # i /\ e - 1 = i + k
      BY <2>1 DEF e
    <2>4. v[e] = v[e - 1] * 10 + digit(fmt[e - 1])
      BY <1>9, <2>3
    <2>5. w[e] = w[e - 1] * 10 + digit(fmt[e - 1])
      BY <1>11, <2>3
    <2>6. w[e] = v[e]
      BY <2>2, <2>3, <2>4, <2>5
    <2> QED BY <2>1, <2>6 DEF e
  <1>14. w[j] = v[j]
    <2>1. d \in 0 .. d /\ d \in Nat
      BY <1>1, <1>2
    <2>2. d \in T
      <3> HIDE DEF T
      <3> QED BY <1>12, <1>13, <2>1, Upwards
    <2> QED BY <2>2
  <1>15. v[j] = n
    <2>1. j \in i .. j /\ j - j = 0
      BY <1>3
    <2>2. n \div 1 = n
      BY <1>8
    <2>3. Power(10)[0] = 1
      BY PowerIs
    <2> QED BY <1>v, <2>1, <2>2, <2>3
  <1>16. skip_atoi(fmt, i, j) = n
    BY <1>14, <1>15 DEF skip_atoi, w, digit
  <1>17. At(fmt, i) \in IsDigit
    <2>1. 1 \in 1 .. d /\ i + 1 - 1 = i
      BY <1>1, <1>2, <1>3
    <2>2. At(fmt, i + 1 - 1) = s[1]
      BY <1>2, <2>1, StandsAt DEF s
    <2> QED BY <1>2, <1>4, <2>1, <2>2
  <1> HIDE DEF j
  <1> QED BY <1>5, <1>16, <1>17 DEF Field, j, d

LEMMA CountIs ==
  ASSUME NEW fmt, NEW i \in Nat, NEW j \in Nat, i <= j, NEW c, NEW b \in {0, 1},
         \A k \in i .. j - 1 : b = IF fmt[k] = c THEN 1 ELSE 0
  PROVE  Count(fmt, i, j, c) = IF b = 1 THEN j - i ELSE 0
PROOF
  <1> DEFINE v == [k \in i .. j |-> IF b = 1 THEN k - i ELSE 0]
             Is(g) == g = [k \in i .. j |-> IF k = i THEN 0 ELSE g[k - 1] + (IF fmt[k - 1] = c THEN 1 ELSE 0)]
             w == CHOOSE g : Is(g)
  <1>1. ASSUME NEW k \in i .. j
        PROVE  v[k] = IF k = i THEN 0 ELSE v[k - 1] + (IF fmt[k - 1] = c THEN 1 ELSE 0)
    <2>1. CASE k = i
      BY <2>1
    <2>2. CASE k # i
      <3>1. k - 1 \in i .. j - 1 /\ k - 1 \in i .. j
        BY <2>2
      <3>2. b = IF fmt[k - 1] = c THEN 1 ELSE 0
        BY <3>1
      <3> QED BY <2>2, <3>1, <3>2
    <2> QED BY <2>1, <2>2
  <1>2. w = [k \in i .. j |-> IF k = i THEN 0 ELSE w[k - 1] + (IF fmt[k - 1] = c THEN 1 ELSE 0)]
    <2>1. Is(v)
      BY <1>1
    <2>2. Is(w)
      <3> HIDE DEF Is, v
      <3> QED BY <2>1, Zenon
    <2> QED BY <2>2
  <1> HIDE DEF w
  <1> DEFINE T == {k \in 0 .. j - i : w[i + k] = v[i + k]}
  <1>3. 0 \in T
    <2>1. i + 0 = i /\ i \in i .. j /\ 0 \in 0 .. j - i
      OBVIOUS
    <2> HIDE DEF v
    <2> QED BY <1>1, <1>2, <2>1
  <1>4. ASSUME NEW k \in 0 .. j - i, k # j - i, k \in T
        PROVE  k + 1 \in T
    <2>1. i + (k + 1) \in i .. j /\ i + (k + 1) # i /\ (i + (k + 1)) - 1 = i + k /\ k + 1 \in 0 .. j - i
      BY <1>4
    <2> HIDE DEF v
    <2>2. w[i + k] = v[i + k]
      BY <1>4
    <2> QED BY <1>1, <1>2, <2>1, <2>2
  <1>5. w[j] = v[j]
    <2>1. j - i \in 0 .. j - i /\ j - i \in Nat /\ i + (j - i) = j
      OBVIOUS
    <2>2. j - i \in T
      <3> HIDE DEF T
      <3> QED BY <1>3, <1>4, <2>1, Upwards
    <2> QED BY <2>1, <2>2
  <1>6. Count(fmt, i, j, c) = w[j]
    BY DEF Count, w
  <1> QED BY <1>5, <1>6

AllFlags == {"LEFT", "PLUS", "SPACE", "SPEC", "ZEROPAD"}

LEMMA FlagsAre ==
  /\ {FlagOf(c) : c \in FlagChars} = AllFlags
  /\ \A f \in AllFlags : CharOf(f) \in FlagChars /\ FlagOf(CharOf(f)) = f
PROOF
  <1>1. FlagOf("-") = "LEFT" /\ FlagOf("+") = "PLUS" /\ FlagOf(" ") = "SPACE" /\ FlagOf("#") = "SPEC"
        /\ FlagOf("0") = "ZEROPAD"
    BY DEF FlagOf
  <1>2. {FlagOf(c) : c \in FlagChars} = AllFlags
    BY <1>1 DEF FlagChars, AllFlags
  <1>3. ASSUME NEW f \in AllFlags PROVE CharOf(f) \in FlagChars /\ FlagOf(CharOf(f)) = f
    <2>1. \E c \in FlagChars : FlagOf(c) = f
      BY <1>1 DEF FlagChars, AllFlags
    <2> QED BY <2>1 DEF CharOf
  <1> QED BY <1>2, <1>3

LEMMA FlagsSpelled ==
  ASSUME NEW flags, flags \subseteq AllFlags,
         NEW s, s = SetToSeq({CharOf(f) : f \in flags})
  PROVE  /\ s \in Seq(FlagChars) /\ \A k \in 1 .. Len(s) : FlagOf(s[k]) \in flags
         /\ \A f \in flags : \E k \in 1 .. Len(s) : FlagOf(s[k]) = f
PROOF
  <1> DEFINE C == {CharOf(f) : f \in flags}
             n == Cardinality(C)
  <1>1. C \subseteq FlagChars /\ IsFiniteSet(C) /\ n \in Nat
    <2>1. C \subseteq FlagChars
      BY FlagsAre
    <2>2. IsFiniteSet(FlagChars)
      <3>1. FlagChars = (({"-"} \cup {"+"}) \cup ({" "} \cup {"#"})) \cup {"0"}
        BY DEF FlagChars
      <3> QED BY <3>1, FS_Singleton, FS_Union
    <2> HIDE DEF C
    <2>3. IsFiniteSet(C)
      BY <2>1, <2>2, FS_Subset
    <2> QED BY <2>1, <2>3, FS_CardinalityType
  <1> HIDE DEF C
  <1>2. \E f \in [1 .. n -> C] : IsInjective(f)
    <2>1. ExistsBijection(1 .. n, C)
      BY <1>1, FS_CardinalityType
    <2> QED BY <2>1 DEF ExistsBijection, Bijection, Injection
  <1>3. s \in [1 .. n -> C] /\ IsInjective(s)
    BY <1>2 DEF SetToSeq, C
  <1>4. s \in Surjection(1 .. n, C)
    <2>1. s \in Injection(1 .. n, C)
      BY <1>3 DEF Injection
    <2>2. Cardinality(1 .. n) = n
      BY <1>1, FS_Interval
    <2> QED BY <1>1, <2>1, <2>2, FS_Injection
  <1>5. \A c \in C : \E k \in 1 .. n : s[k] = c
    BY <1>4 DEF Surjection
  <1>6. s \in Seq(FlagChars) /\ Len(s) = n
    BY <1>1, <1>3
  <1>7. ASSUME NEW k \in 1 .. n PROVE FlagOf(s[k]) \in flags
    <2>2. PICK f \in flags : s[k] = CharOf(f)
      BY <1>3 DEF C
    <2> QED BY <2>2, FlagsAre
  <1>8. ASSUME NEW f \in flags PROVE \E k \in 1 .. n : FlagOf(s[k]) = f
    <2>1. CharOf(f) \in C /\ FlagOf(CharOf(f)) = f
      BY FlagsAre DEF C
    <2>2. PICK k \in 1 .. n : s[k] = CharOf(f)
      BY <1>5, <2>1
    <2> QED BY <2>1, <2>2
  <1> QED BY <1>6, <1>7, <1>8

-----------------------------------------------------------------------------
(* Powers of two and words                                                  *)
LEMMA TwoSum ==
  ASSUME NEW a \in Nat, NEW b \in Nat
  PROVE  2 ^ (a + b) = 2 ^ a * 2 ^ b
PROOF
  <1> DEFINE T == {k \in 0 .. b : 2 ^ (a + k) = 2 ^ a * 2 ^ k}
  <1>0. 2 ^ 0 = 1 /\ \A n \in Nat : 2 ^ n \in Nat /\ 2 ^ n > 0 /\ 2 ^ (n + 1) = 2 * 2 ^ n
    BY TwoTo
  <1>1. 0 \in T
    <2>1. a + 0 = a /\ 0 \in 0 .. b /\ 2 ^ a \in Nat
      BY <1>0
    <2>2. 2 ^ a * 1 = 2 ^ a
      BY <2>1
    <2>3. 2 ^ (a + 0) = 2 ^ a * 2 ^ 0
      BY <1>0, <2>1, <2>2
    <2> QED BY <2>1, <2>3
  <1>2. ASSUME NEW k \in 0 .. b, k # b, k \in T
        PROVE  k + 1 \in T
    <2>1. k \in Nat /\ a + k \in Nat /\ a + (k + 1) = (a + k) + 1 /\ k + 1 \in 0 .. b
      BY <1>2
    <2>2. 2 ^ (a + (k + 1)) = 2 * 2 ^ (a + k) /\ 2 ^ (k + 1) = 2 * 2 ^ k
      BY <1>0, <2>1
    <2>3. 2 ^ (a + k) = 2 ^ a * 2 ^ k /\ 2 ^ a \in Nat /\ 2 ^ k \in Nat
      BY <1>0, <1>2, <2>1
    <2>4. \A u, v \in Nat : u * (2 * v) = 2 * (u * v)
      OBVIOUS
    <2>5. 2 ^ a * (2 * 2 ^ k) = 2 * (2 ^ a * 2 ^ k)
      BY <2>3, <2>4
    <2>6. 2 ^ (a + (k + 1)) = 2 ^ a * 2 ^ (k + 1)
      BY <2>2, <2>3, <2>5
    <2> QED BY <2>1, <2>6
  <1>3. b \in T
    <2>1. b \in 0 .. b
      OBVIOUS
    <2> HIDE DEF T
    <2> QED BY <1>1, <1>2, <2>1, Upwards
  <1> QED BY <1>3

LEMMA TwoOrder ==
  ASSUME NEW b \in Nat, NEW a \in 0 .. b
  PROVE  2 ^ a <= 2 ^ b
PROOF
  <1> DEFINE T == {k \in 0 .. b - a : 2 ^ a <= 2 ^ (a + k)}
  <1>1. 0 \in T
    <2>1. a + 0 = a /\ 0 \in 0 .. b - a /\ a \in Nat
      OBVIOUS
    <2> QED BY <2>1, TwoTo
  <1>2. ASSUME NEW k \in 0 .. b - a, k # b - a, k \in T
        PROVE  k + 1 \in T
    <2>1. a + k \in Nat /\ a + (k + 1) = (a + k) + 1 /\ k + 1 \in 0 .. b - a /\ a \in Nat
      BY <1>2
    <2>2. 2 ^ (a + (k + 1)) = 2 * 2 ^ (a + k) /\ 2 ^ (a + k) \in Nat /\ 2 ^ a \in Nat
      BY <2>1, TwoTo
    <2>3. 2 ^ a <= 2 ^ (a + k)
      BY <1>2
    <2>4. 2 ^ a <= 2 ^ (a + (k + 1))
      BY <2>2, <2>3
    <2> QED BY <2>1, <2>4
  <1>3. b - a \in T
    <2>1. b - a \in 0 .. b - a /\ b - a \in Nat
      OBVIOUS
    <2> HIDE DEF T
    <2> QED BY <1>1, <1>2, <2>1, Upwards
  <1>4. a + (b - a) = b
    OBVIOUS
  <1> QED BY <1>3, <1>4

LEMMA WordsAre ==
  /\ WORD \in Nat /\ SHORT \in Nat /\ CHAR \in Nat /\ BITS \in Nat
  /\ CHAR >= 1 /\ SHORT >= 2 /\ WORD >= 3 /\ BITS = 2 * WORD /\ SHORT < WORD /\ CHAR < SHORT
  /\ 2 ^ (WORD - 1) \in Nat /\ 2 ^ WORD = 2 * 2 ^ (WORD - 1) /\ 2 ^ (WORD - 1) >= 4
  /\ UINT64 \in Nat /\ UINT64 = 2 ^ WORD * 2 ^ WORD /\ UINT64 >= 8 * 2 ^ WORD
  /\ BITS \div 2 = WORD
PROOF
  <1>1. /\ WORD \in Nat /\ SHORT \in Nat /\ CHAR \in Nat /\ BITS \in Nat
        /\ CHAR >= 1 /\ SHORT >= 2 /\ WORD >= 3 /\ BITS = 2 * WORD /\ SHORT < WORD /\ CHAR < SHORT
    BY WidthAssumption
  <1>2. WORD - 1 \in Nat /\ (WORD - 1) + 1 = WORD /\ 2 \in 0 .. WORD - 1 /\ WORD + WORD = BITS
    BY <1>1
  <1>3. 2 ^ (WORD - 1) \in Nat /\ 2 ^ WORD = 2 * 2 ^ (WORD - 1) /\ 2 ^ WORD \in Nat
    <2>1. 2 ^ ((WORD - 1) + 1) = 2 * 2 ^ (WORD - 1) /\ 2 ^ (WORD - 1) \in Nat
      BY <1>2, TwoTo
    <2> QED BY <1>2, <2>1
  <1>4. 2 ^ 2 = 4
    <2>1. 2 ^ (0 + 1) = 2 * 2 ^ 0 /\ 2 ^ (1 + 1) = 2 * 2 ^ 1 /\ 0 + 1 = 1 /\ 1 + 1 = 2 /\ 2 ^ 0 = 1
      BY TwoTo
    <2> QED BY <2>1
  <1>5. 2 ^ (WORD - 1) >= 4
    BY <1>2, <1>3, <1>4, TwoOrder
  <1>6. UINT64 = 2 ^ WORD * 2 ^ WORD
    BY <1>1, <1>2, TwoSum DEF UINT64
  <1>7. UINT64 \in Nat
    BY <1>1, TwoTo DEF UINT64
  <1>8. UINT64 >= 8 * 2 ^ WORD
    <2>1. 2 ^ WORD >= 8
      BY <1>3, <1>5
    <2>2. 2 ^ WORD * 8 <= 2 ^ WORD * 2 ^ WORD
      BY <1>3, <2>1, Products
    <2>3. 2 ^ WORD * 8 = 8 * 2 ^ WORD
      BY <1>3
    <2> QED BY <1>6, <2>2, <2>3
  <1>9. BITS \div 2 = WORD
    BY <1>1
  <1> QED BY <1>1, <1>3, <1>5, <1>6, <1>7, <1>8, <1>9

LEMMA AsIntIs ==
  ASSUME NEW v \in 1 - 2 ^ (WORD - 1) .. 2 ^ (WORD - 1) - 1
  PROVE  AsInt(v % 2 ^ WORD) = v
PROOF
  <1> DEFINE h == 2 ^ (WORD - 1)
  <1>1. h \in Nat /\ 2 ^ WORD = 2 * h /\ h >= 4
    BY WordsAre
  <1>2. v \in Int /\ v < h /\ v > -h
    BY <1>1
  <1> HIDE DEF h
  <1>3. CASE v >= 0
    <2>1. v % (2 * h) = v
      BY <1>1, <1>2, <1>3
    <2> QED BY <1>1, <1>2, <2>1 DEF AsInt, h
  <1>4. CASE v < 0
    <2>1. v % (2 * h) = v + 2 * h
      BY <1>1, <1>2, <1>4
    <2> QED BY <1>1, <1>2, <1>4, <2>1 DEF AsInt, h
  <1> QED BY <1>2, <1>3, <1>4

-----------------------------------------------------------------------------
(* How a number is written                                                  *)
Flagged(m) == SetToSeq({CharOf(f) : f \in m.flags})
WidthText(m) == IF m.field_width = 0 THEN << >> ELSE Numeral(m.field_width, 10)
PrecisionText(m) == IF m.precision = 0 THEN << >> ELSE <<".">> \o Numeral(m.precision, 10)
Fields(m) == IF m.star THEN <<"*", ".", "*">> ELSE WidthText(m) \o PrecisionText(m)
AllSizes == {<< >>, <<"l">>, <<"h">>, <<"h", "h">>, <<"l", "l">>}

LEMMA NumberIs ==
  ASSUME NEW m, m.type \in Numbers, Legal(m)
  PROVE  /\ m.flags \subseteq AllFlags /\ m.star \in BOOLEAN /\ m.size \in AllSizes
         /\ m.field_width \in 1 - 2 ^ (WORD - 1) .. 2 ^ (WORD - 1) - 1
         /\ ~m.star => m.field_width \in 0 .. UINT64 - 1
         /\ m.precision \in 0 .. 2 ^ (WORD - 1) - 1 /\ m.precision \in 0 .. UINT64 - 1
         /\ m.type = "p" => m.size = << >>
         /\ m.value \in (IF m.type = "d" THEN - (2 ^ (Bits(m.size) - 1)) .. 2 ^ (Bits(m.size) - 1) - 1
                         ELSE 0 .. 2 * 2 ^ (Bits(m.size) - 1) - 1)
PROOF
  <1> DEFINE int == 2 ^ (WORD - 1)
             top == 2 ^ (Bits(m.size) - 1)
  <1>1. m.type \notin {"text", "c", "s"}
    BY DEF Numbers
  <1>2. /\ m.flags \subseteq {FlagOf(c) : c \in FlagChars} /\ m.star \in BOOLEAN
        /\ m.field_width \in (IF m.star THEN 1 - int ELSE 0) .. int - 1
        /\ m.precision \in 0 .. int - 1
        /\ m.size \in {<< >>, <<"l">>, <<"h">>, <<"h", "h">>, <<"l", "l">>}
        /\ m.type = "p" => m.size = << >>
        /\ m.value \in (IF m.type = "d" THEN - top .. top - 1 ELSE 0 .. 2 * top - 1)
    <2> HIDE DEF int, top
    <2> QED BY <1>1, Zenon DEF Legal, int, top
  <1> HIDE DEF top
  <1>3. int \in Nat /\ int >= 4 /\ int <= UINT64 /\ UINT64 \in Nat
    BY WordsAre
  <1> HIDE DEF int
  <1>4. m.flags \subseteq AllFlags
    BY <1>2, FlagsAre
  <1>5. /\ m.field_width \in 1 - int .. int - 1
        /\ ~m.star => m.field_width \in 0 .. UINT64 - 1
        /\ m.precision \in 0 .. UINT64 - 1
    BY <1>2, <1>3
  <1> QED BY <1>2, <1>4, <1>5 DEF int, top, AllSizes

LEMMA SizesAre ==
  \A s \in AllSizes : s \in Seq({"l", "h"}) /\ Len(s) \in Nat
PROOF
  <1>1. << >> \in Seq({"l", "h"}) /\ <<"l">> \in Seq({"l", "h"}) /\ <<"h">> \in Seq({"l", "h"})
    OBVIOUS
  <1>2. <<"h", "h">> \in Seq({"l", "h"}) /\ <<"l", "l">> \in Seq({"l", "h"})
    OBVIOUS
  <1>3. \A s \in AllSizes : s \in Seq({"l", "h"})
    BY <1>1, <1>2 DEF AllSizes
  <1> QED BY <1>3

LEMMA GlyphsAre ==
  /\ FlagChars \subseteq Glyphs /\ Numbers \subseteq Glyphs /\ {"l", "h"} \subseteq Glyphs
  /\ IsDigit \subseteq Glyphs /\ {"%", "*", ".", "c", "s"} \subseteq Glyphs
PROOF
  <1>1. IsDigit \subseteq Glyphs
    BY DigitsDiffer DEF IsDigit
  <1> QED BY <1>1 DEF FlagChars, Numbers, Glyphs, Marks

LEMMA SeqWider ==
  ASSUME NEW S, NEW R, S \subseteq R, NEW s \in Seq(S)
  PROVE  s \in Seq(R)
OBVIOUS

(* The parts of the spelling of a number, one after the other              *)
LEMMA SpellingParts ==
  ASSUME NEW m, m.type \in Numbers, Legal(m)
  PROVE  /\ Spelling(m) \in Seq(Glyphs)
         /\ Len(Spelling(m)) = 1 + Len(Flagged(m)) + Len(Fields(m)) + Len(m.size) + 1
         /\ Flagged(m) \in Seq(FlagChars) /\ Fields(m) \in Seq(Glyphs)
         /\ ~m.star => WidthText(m) \in Seq(Glyphs) /\ PrecisionText(m) \in Seq(Glyphs)
         /\ \A q, i : Stands(q, i, Spelling(m)) =>
              LET f == i + 1
                  w == f + Len(Flagged(m))
                  l == w + Len(Fields(m))
              IN  /\ Stands(q, i, <<"%">>) /\ Stands(q, f, Flagged(m)) /\ Stands(q, w, Fields(m))
                  /\ Stands(q, l, m.size) /\ Stands(q, l + Len(m.size), <<m.type>>)
PROOF
  <1> DEFINE A == <<"%">>
             B == Flagged(m)
             C == Fields(m)
             D == m.size
             E == <<m.type>>
  <1>1. Spelling(m) = (((A \o B) \o C) \o D) \o E
    <2>1. m.type \notin {"text", "c", "s"}
      BY DEF Numbers
    <2> QED BY <2>1, Zenon DEF Spelling, Flagged, Fields, WidthText, PrecisionText
  <1>2. B \in Seq(FlagChars)
    BY NumberIs, FlagsSpelled DEF Flagged
  <1>3. ~m.star => WidthText(m) \in Seq(Glyphs) /\ PrecisionText(m) \in Seq(Glyphs)
    <2>1. SUFFICES ASSUME ~m.star PROVE WidthText(m) \in Seq(Glyphs) /\ PrecisionText(m) \in Seq(Glyphs)
      OBVIOUS
    <2>2. m.field_width \in 0 .. UINT64 - 1 /\ m.precision \in 0 .. UINT64 - 1 /\ 10 \in 2 .. 16
      BY <2>1, NumberIs
    <2>3. Numeral(m.field_width, 10) \in Seq(Glyphs) /\ Numeral(m.precision, 10) \in Seq(Glyphs)
      BY <2>2, NumeralIs
    <2>4. << >> \in Seq(Glyphs) /\ <<".">> \in Seq(Glyphs)
      BY GlyphsAre
    <2>5. \A s \in Seq(Glyphs), t \in Seq(Glyphs) : s \o t \in Seq(Glyphs)
      OBVIOUS
    <2> QED BY <2>3, <2>4, <2>5 DEF WidthText, PrecisionText
  <1>4. C \in Seq(Glyphs)
    <2>1. <<"*", ".", "*">> \in Seq(Glyphs)
      BY GlyphsAre
    <2>2. \A s \in Seq(Glyphs), t \in Seq(Glyphs) : s \o t \in Seq(Glyphs)
      OBVIOUS
    <2> QED BY <1>3, <2>1, <2>2 DEF Fields
  <1>5. A \in Seq(Glyphs) /\ E \in Seq(Glyphs) /\ B \in Seq(Glyphs) /\ D \in Seq(Glyphs)
    <2>1. "%" \in Glyphs /\ m.type \in Glyphs
      BY GlyphsAre
    <2>2. A \in Seq(Glyphs) /\ E \in Seq(Glyphs)
      BY <2>1
    <2>3. B \in Seq(Glyphs)
      BY <1>2, GlyphsAre, SeqWider
    <2>4. m.size \in Seq({"l", "h"})
      BY NumberIs, SizesAre
    <2>5. D \in Seq(Glyphs)
      BY <2>4, GlyphsAre, SeqWider
    <2> QED BY <2>2, <2>3, <2>5
  <1>6. Len(A) = 1 /\ Len(E) = 1
    OBVIOUS
  <1> HIDE DEF A, B, C, D, E
  <1> DEFINE AB == A \o B
             ABC == AB \o C
             ABCD == ABC \o D
  <1>7. AB \in Seq(Glyphs) /\ Len(AB) = Len(A) + Len(B)
    BY <1>5, JoinedIs
  <1> HIDE DEF AB
  <1>8. ABC \in Seq(Glyphs) /\ Len(ABC) = Len(AB) + Len(C)
    BY <1>4, <1>7, JoinedIs
  <1> HIDE DEF ABC
  <1>9. ABCD \in Seq(Glyphs) /\ Len(ABCD) = Len(ABC) + Len(D)
    BY <1>5, <1>8, JoinedIs
  <1> HIDE DEF ABCD
  <1>10. ABCD \o E \in Seq(Glyphs) /\ Len(ABCD \o E) = Len(ABCD) + Len(E)
    BY <1>5, <1>9, JoinedIs
  <1>11. Spelling(m) = ABCD \o E
    BY <1>1 DEF AB, ABC, ABCD
  <1>12. Len(A) \in Nat /\ Len(B) \in Nat /\ Len(C) \in Nat /\ Len(D) \in Nat
    BY <1>4, <1>5
  <1>13. ASSUME NEW q, NEW i, Stands(q, i, Spelling(m))
         PROVE  LET f == i + 1
                    w == f + Len(B)
                    l == w + Len(C)
                IN  /\ Stands(q, i, A) /\ Stands(q, f, B) /\ Stands(q, w, C)
                    /\ Stands(q, l, D) /\ Stands(q, l + Len(D), E)
    <2>0. i \in Nat
      BY <1>13 DEF Stands
    <2>1. Stands(q, i, ABCD) /\ Stands(q, i + Len(ABCD), E)
      BY <1>5, <1>9, <1>11, <1>13, StandsJoined
    <2>2. Stands(q, i, ABC) /\ Stands(q, i + Len(ABC), D)
      BY <1>5, <1>8, <2>1, StandsJoined DEF ABCD
    <2>3. Stands(q, i, AB) /\ Stands(q, i + Len(AB), C)
      BY <1>4, <1>7, <2>2, StandsJoined DEF ABC
    <2>4. Stands(q, i, A) /\ Stands(q, i + Len(A), B)
      BY <1>5, <2>3, StandsJoined DEF AB
    <2>5. /\ i + Len(A) = i + 1 /\ i + Len(AB) = (i + 1) + Len(B)
          /\ i + Len(ABC) = ((i + 1) + Len(B)) + Len(C)
          /\ i + Len(ABCD) = (((i + 1) + Len(B)) + Len(C)) + Len(D)
      BY <1>6, <1>7, <1>8, <1>9, <1>12, <2>0
    <2> QED BY <2>1, <2>2, <2>3, <2>4, <2>5
  <1>14. Len(Spelling(m)) = 1 + Len(B) + Len(C) + Len(D) + 1
    BY <1>6, <1>7, <1>8, <1>9, <1>10, <1>11, <1>12
  <1>15. Spelling(m) \in Seq(Glyphs)
    BY <1>10, <1>11
  <1> QED BY <1>2, <1>3, <1>4, <1>13, <1>14, <1>15 DEF A, B, C, D, E

Rear == {"l", "h"} \cup Numbers

LEMMA RearIs ==
  ASSUME NEW m, m.type \in Numbers, Legal(m), NEW fmt \in Seq(Glyphs), NEW e,
         Stands(fmt, e, m.size), Stands(fmt, e + Len(m.size), <<m.type>>)
  PROVE  /\ At(fmt, e) \in Rear /\ At(fmt, e + Len(m.size)) = m.type
         /\ Past(fmt, e, {"l", "h"}) = e + Len(m.size)
         /\ Count(fmt, e, e + Len(m.size), "l") = (IF m.size = <<"l", "l">> THEN 2 ELSE IF m.size = <<"l">> THEN 1 ELSE 0)
         /\ Count(fmt, e, e + Len(m.size), "h") = (IF m.size = <<"h", "h">> THEN 2 ELSE IF m.size = <<"h">> THEN 1 ELSE 0)
PROOF
  <1> DEFINE s == m.size
             n == Len(s)
  <1>1. s \in Seq({"l", "h"}) /\ s \in AllSizes /\ n \in Nat /\ e \in Nat \ {0}
    BY NumberIs, SizesAre DEF Stands
  <1>2. /\ n = 0 => s = << >>
        /\ n # 0 => s[1] \in {"l", "h"}
        /\ \A k \in 1 .. n : s[k] = s[1]
        /\ s = (IF n = 0 THEN << >> ELSE IF n = 1 THEN <<s[1]>> ELSE <<s[1], s[1]>>) /\ n \in {0, 1, 2}
    <2>1. CASE s = << >>
      BY <2>1
    <2>2. CASE s = <<"l">>
      BY <2>2
    <2>3. CASE s = <<"h">>
      BY <2>3
    <2>4. CASE s = <<"l", "l">>
      BY <2>4
    <2>5. CASE s = <<"h", "h">>
      BY <2>5
    <2> HIDE DEF s
    <2> QED BY <1>1, <2>1, <2>2, <2>3, <2>4, <2>5 DEF AllSizes
  <1>3. At(fmt, e + n) = m.type /\ m.type \in Numbers /\ m.type \notin {"l", "h"} /\ e + n \in 1 .. Len(fmt)
    <2>1. e + n \in 1 .. Len(fmt) /\ fmt[e + n] = m.type /\ Len(fmt) \in Nat
      BY StandsOne
    <2>2. e + n \in DOMAIN fmt
      BY <2>1
    <2> QED BY <2>1, <2>2 DEF At, Numbers
  <1> HIDE DEF s
  <1>4. Stands(fmt, e, s)
    BY DEF s
  <1>5. \A k \in 1 .. n : At(fmt, e + k - 1) = s[k] /\ fmt[e + k - 1] = s[k]
    BY <1>1, <1>4, StandsAt
  <1>6. At(fmt, e) \in Rear
    <2>1. CASE n = 0
      <3>1. e + n = e
        BY <1>1, <2>1
      <3> QED BY <1>3, <3>1 DEF Rear
    <2>2. CASE n # 0
      <3>1. 1 \in 1 .. n /\ e + 1 - 1 = e
        BY <1>1, <2>2
      <3>2. At(fmt, e + 1 - 1) = s[1]
        BY <1>5, <3>1
      <3> QED BY <1>2, <2>2, <3>1, <3>2 DEF Rear
    <2> QED BY <2>1, <2>2
  <1>7. Past(fmt, e, {"l", "h"}) = e + n
    BY <1>1, <1>3, <1>4, PastRun
  <1>8. ASSUME NEW k \in e .. (e + n) - 1 PROVE n # 0 /\ fmt[k] = s[1]
    <2>1. (k - e) + 1 \in 1 .. n /\ e + ((k - e) + 1) - 1 = k
      BY <1>1
    <2>2. fmt[e + ((k - e) + 1) - 1] = s[(k - e) + 1]
      BY <1>5, <2>1
    <2> QED BY <1>1, <1>2, <2>1, <2>2
  <1>9. ASSUME NEW c \in {"l", "h"}
        PROVE  Count(fmt, e, e + n, c) = IF n # 0 /\ s[1] = c THEN n ELSE 0
    <2> DEFINE b == IF n # 0 /\ s[1] = c THEN 1 ELSE 0
    <2>1. b \in {0, 1} /\ \A k \in e .. (e + n) - 1 : b = IF fmt[k] = c THEN 1 ELSE 0
      BY <1>8
    <2>2. e \in Nat /\ e + n \in Nat /\ e <= e + n /\ (e + n) - e = n
      BY <1>1
    <2> HIDE DEF b, n
    <2>3. Count(fmt, e, e + n, c) = IF b = 1 THEN (e + n) - e ELSE 0
      BY <2>1, <2>2, CountIs
    <2> QED BY <2>2, <2>3 DEF b
  <1>10. /\ (IF n # 0 /\ s[1] = "l" THEN n ELSE 0)
               = (IF s = <<"l", "l">> THEN 2 ELSE IF s = <<"l">> THEN 1 ELSE 0)
         /\ (IF n # 0 /\ s[1] = "h" THEN n ELSE 0)
               = (IF s = <<"h", "h">> THEN 2 ELSE IF s = <<"h">> THEN 1 ELSE 0)
    <2>1. CASE s = << >>
      BY <2>1
    <2>2. CASE s = <<"l">>
      BY <2>2
    <2>3. CASE s = <<"h">>
      BY <2>3
    <2>4. CASE s = <<"l", "l">>
      BY <2>4
    <2>5. CASE s = <<"h", "h">>
      BY <2>5
    <2> QED BY <1>1, <2>1, <2>2, <2>3, <2>4, <2>5 DEF AllSizes
  <1>11. /\ Count(fmt, e, e + n, "l") = (IF s = <<"l", "l">> THEN 2 ELSE IF s = <<"l">> THEN 1 ELSE 0)
         /\ Count(fmt, e, e + n, "h") = (IF s = <<"h", "h">> THEN 2 ELSE IF s = <<"h">> THEN 1 ELSE 0)
    BY <1>9, <1>10
  <1> QED BY <1>3, <1>6, <1>7, <1>11 DEF s

LEMMA RearOther ==
  \A c \in Rear : c \notin IsDigit /\ c # "*" /\ c # "." /\ c \notin FlagChars
PROOF
  <1>1. \A c \in Rear : c \notin IsDigit
    BY NoDigits DEF Rear
  <1> QED BY <1>1 DEF Rear, Numbers, FlagChars

(* A width and a precision that vsprintf reads from place w on, up to e     *)
FieldsGive(m, fmt, w, e, args, a) ==
  \E i, b : /\ Field(fmt, w, args, a) = [n |-> m.field_width, i |-> i, a |-> b]
            /\ (IF At(fmt, i) = "." THEN Field(fmt, i + 1, args, b) ELSE [n |-> 0, i |-> i, a |-> b])
                 = [n |-> m.precision, i |-> e, a |-> IF m.star THEN a + 2 ELSE a]

LEMMA FieldsRead ==
  ASSUME NEW m, m.type \in Numbers, Legal(m), NEW fmt \in Seq(Glyphs), NEW w,
         Stands(fmt, w, Fields(m)), At(fmt, w + Len(Fields(m))) \in Rear,
         NEW args, NEW a \in Nat,
         m.star => args[a] = m.field_width % 2 ^ WORD /\ args[a + 1] = m.precision
  PROVE  /\ At(fmt, w) \notin FlagChars
         /\ FieldsGive(m, fmt, w, w + Len(Fields(m)), args, a)
PROOF
  <1>1. w \in Nat \ {0} /\ Len(fmt) \in Nat
    BY DEF Stands
  <1> DEFINE next == At(fmt, w + Len(Fields(m)))
             end  == [n |-> m.precision, i |-> w + Len(Fields(m)), a |-> IF m.star THEN a + 2 ELSE a]
             prec(i, b) == IF At(fmt, i) = "." THEN Field(fmt, i + 1, args, b)
                           ELSE [n |-> 0, i |-> i, a |-> b]
  <1>2. ASSUME m.star
        PROVE  /\ At(fmt, w) \notin FlagChars
               /\ Field(fmt, w, args, a) = [n |-> m.field_width, i |-> w + 1, a |-> a + 1]
               /\ prec(w + 1, a + 1) = end
    <2> DEFINE s == <<"*", ".", "*">>
    <2>1. Fields(m) = s /\ Len(s) = 3
      BY <1>2 DEF Fields
    <2>2. s[1] = "*" /\ s[2] = "." /\ s[3] = "*" /\ s \in Seq(Glyphs)
      BY GlyphsAre
    <2>3. Stands(fmt, w, s)
      BY <2>1
    <2> HIDE DEF s
    <2>4. \A k \in 1 .. 3 : At(fmt, w + k - 1) = s[k]
      BY <2>1, <2>2, <2>3, StandsAt
    <2>5. w + 1 - 1 = w /\ w + 2 - 1 = w + 1 /\ w + 3 - 1 = w + 2 /\ 1 \in 1 .. 3 /\ 2 \in 1 .. 3 /\ 3 \in 1 .. 3
      BY <1>1
    <2>6. At(fmt, w) = "*" /\ At(fmt, w + 1) = "." /\ At(fmt, w + 2) = "*"
      <3>1. At(fmt, w + 1 - 1) = "*" /\ At(fmt, w + 2 - 1) = "." /\ At(fmt, w + 3 - 1) = "*"
        BY <2>2, <2>4, <2>5
      <3> QED BY <2>5, <3>1
    <2>7. AsInt(args[a]) = m.field_width
      BY <1>2, NumberIs, AsIntIs
    <2>8. AsInt(args[a + 1]) = m.precision
      <3>1. m.precision \in 0 .. 2 ^ (WORD - 1) - 1 /\ args[a + 1] = m.precision /\ 2 ^ (WORD - 1) \in Nat
        BY <1>2, NumberIs, WordsAre
      <3>2. ~(m.precision >= 2 ^ (WORD - 1))
        BY <3>1
      <3> QED BY <3>1, <3>2 DEF AsInt
    <2>9. "*" \notin IsDigit /\ "*" \notin FlagChars
      BY NoDigits DEF FlagChars
    <2>10. Field(fmt, w, args, a) = [n |-> m.field_width, i |-> w + 1, a |-> a + 1]
      BY <2>6, <2>7, <2>9 DEF Field
    <2>11. (w + 1) + 1 = w + 2 /\ (a + 1) + 1 = a + 2 /\ (w + 2) + 1 = w + 3
      BY <1>1
    <2>12. Field(fmt, w + 2, args, a + 1) = [n |-> m.precision, i |-> w + 3, a |-> a + 2]
      BY <2>6, <2>8, <2>9, <2>11 DEF Field
    <2>13. prec(w + 1, a + 1) = end
      BY <1>2, <2>1, <2>6, <2>11, <2>12
    <2> QED BY <2>6, <2>9, <2>10, <2>13
  <1>3. ASSUME ~m.star
        PROVE  /\ At(fmt, w) \notin FlagChars
               /\ Field(fmt, w, args, a) = [n |-> m.field_width, i |-> w + Len(WidthText(m)), a |-> a]
               /\ prec(w + Len(WidthText(m)), a) = end
    <2> DEFINE W == WidthText(m)
               P == PrecisionText(m)
               g == w + Len(W)
               e == w + Len(Fields(m))
    <2>1. /\ m.field_width \in 0 .. UINT64 - 1 /\ m.precision \in 0 .. UINT64 - 1 /\ 10 \in 2 .. 16
          /\ UINT64 \in Nat
      BY <1>3, NumberIs, WordsAre
    <2>2. W \in Seq(Glyphs) /\ P \in Seq(Glyphs) /\ Fields(m) = W \o P
      BY <1>3, SpellingParts DEF Fields
    <2>3. Len(Fields(m)) = Len(W) + Len(P) /\ Len(W) \in Nat /\ Len(P) \in Nat
      BY <2>2, JoinedIs
    <2>4. Stands(fmt, w, W) /\ Stands(fmt, g, P)
      <3> HIDE DEF W, P
      <3> QED BY <2>2, StandsJoined
    <2>5. g \in Nat \ {0} /\ e = g + Len(P) /\ At(fmt, e) \in Rear
      BY <1>1, <2>3
    <2>6. ASSUME m.precision # 0
          PROVE  /\ At(fmt, g) = "." /\ P \in Seq(Glyphs) /\ Len(P) = 1 + Figures(m.precision, 10)
                 /\ Stands(fmt, g + 1, Numeral(m.precision, 10))
      <3> DEFINE s == Numeral(m.precision, 10)
      <3>1. P = <<".">> \o s /\ <<".">> \in Seq(Glyphs) /\ Len(<<".">>) = 1
        BY <2>6, GlyphsAre DEF PrecisionText
      <3>2. s \in Seq(Glyphs) /\ Len(s) = Figures(m.precision, 10)
        BY <2>1, NumeralIs
      <3> HIDE DEF s
      <3>3. Stands(fmt, g, <<".">>) /\ Stands(fmt, g + Len(<<".">>), s)
        <4> HIDE DEF P, g
        <4> QED BY <2>4, <3>1, <3>2, StandsJoined
      <3>4. At(fmt, g) = "."
        <4>1. g \in 1 .. Len(fmt) /\ fmt[g] = "." /\ Len(fmt) \in Nat
          BY <3>3, StandsOne
        <4>2. g \in DOMAIN fmt
          BY <4>1
        <4> QED BY <4>1, <4>2 DEF At
      <3>5. Len(P) = 1 + Len(s)
        BY <3>1, <3>2, JoinedIs
      <3> QED BY <2>2, <3>1, <3>2, <3>3, <3>4, <3>5 DEF s
    <2>7. At(fmt, g) \in {"."} \cup Rear
      <3>1. CASE m.precision = 0
        <4>1. P = << >> /\ Len(P) = 0
          BY <3>1 DEF PrecisionText
        <4>2. g = e
          BY <1>1, <2>3, <2>5, <4>1
        <4> QED BY <2>5, <4>2
      <3> QED BY <2>6, <3>1
    <2>8. At(fmt, g) \notin IsDigit /\ At(fmt, g) # "*" /\ At(fmt, g) \notin FlagChars
      <3>1. "." \notin IsDigit /\ "." \notin FlagChars
        BY NoDigits DEF FlagChars
      <3> QED BY <2>7, <3>1, RearOther
    <2>9. /\ At(fmt, w) \notin FlagChars
          /\ Field(fmt, w, args, a) = [n |-> m.field_width, i |-> g, a |-> a]
      <3>1. CASE m.field_width = 0
        <4>1. W = << >> /\ Len(W) = 0
          BY <3>1 DEF WidthText
        <4>2. g = w
          BY <1>1, <4>1
        <4> QED BY <2>8, <3>1, <4>2 DEF Field
      <3>2. CASE m.field_width # 0
        <4> DEFINE n == m.field_width
                   d == Figures(n, 10)
        <4>1. W = Numeral(n, 10)
          BY <3>2 DEF WidthText
        <4>2. n \in 0 .. UINT64 - 1 /\ n > 0
          BY <2>1, <3>2
        <4> HIDE DEF n
        <4>3. /\ Len(W) = d /\ d \in 1 .. BITS
              /\ (n \div Power(10)[d - 1]) % 10 \in 0 .. 10 - 1
              /\ W[1] = DIGITS[((n \div Power(10)[d - 1]) % 10) + 1]
              /\ (n \div Power(10)[d - 1]) % 10 > 0
          <5>1. Len(W) = d /\ d \in 1 .. BITS /\ (n \div Power(10)[d - 1]) % 10 > 0
            BY <2>1, <4>1, <4>2, NumeralIs, ZenonT(60)
          <5>2. 1 \in 1 .. d
            BY <5>1, BitsAssumption
          <5>3. (n \div Power(10)[d - 1]) % 10 \in 0 .. 10 - 1
                /\ Numeral(n, 10)[1] = DIGITS[((n \div Power(10)[d - 1]) % 10) + 1]
            BY <2>1, <4>2, <5>2, NumeralIs
          <5> QED BY <4>1, <5>1, <5>3
        <4>4. W[1] \in IsDigit /\ W[1] # "0"
          <5> DEFINE y == (n \div Power(10)[d - 1]) % 10
          <5>1. y \in 0 .. 10 - 1 /\ W[1] = DIGITS[y + 1] /\ y > 0
            BY <4>3
          <5> HIDE DEF y
          <5>2. y + 1 \in 1 .. 10 /\ y + 1 # 1
            BY <5>1
          <5> QED BY <5>1, <5>2, DigitsDiffer
        <4>5. At(fmt, w) = W[1]
          <5>1. 1 \in 1 .. Len(W) /\ w + 1 - 1 = w
            BY <1>1, <4>3, BitsAssumption
          <5> HIDE DEF W
          <5>2. At(fmt, w + 1 - 1) = W[1]
            BY <2>2, <2>4, <5>1, StandsAt
          <5> QED BY <5>1, <5>2
        <4>6. At(fmt, w) \notin FlagChars
          BY <4>4, <4>5, NoDigits
        <4>7. g = w + d
          BY <4>3
        <4>8. Field(fmt, w, args, a) = [n |-> n, i |-> w + d, a |-> a]
          <5>1. Stands(fmt, w, Numeral(n, 10)) /\ At(fmt, w + d) \notin IsDigit
            BY <2>4, <2>8, <4>1, <4>7
          <5> HIDE DEF d
          <5> QED BY <4>2, <5>1, FieldNumber DEF d
        <4> QED BY <4>6, <4>7, <4>8 DEF n
      <3> QED BY <3>1, <3>2
    <2>10. prec(g, a) = end
      <3>1. CASE m.precision = 0
        <4>1. P = << >> /\ Len(P) = 0
          BY <3>1 DEF PrecisionText
        <4>2. g = e
          BY <1>1, <2>3, <2>5, <4>1
        <4>3. At(fmt, g) # "."
          BY <2>5, <4>2, RearOther
        <4> QED BY <1>3, <3>1, <4>2, <4>3
      <3>2. CASE m.precision # 0
        <4> DEFINE n == m.precision
                   d == Figures(n, 10)
        <4>1. At(fmt, g) = "." /\ Len(P) = 1 + d /\ Stands(fmt, g + 1, Numeral(n, 10))
          BY <2>6, <3>2
        <4>2. n \in 0 .. UINT64 - 1 /\ d \in Nat
          BY <2>1, NumeralIs
        <4>3. (g + 1) + d = e
          BY <1>1, <2>3, <2>5, <4>1, <4>2
        <4>4. At(fmt, (g + 1) + d) \notin IsDigit
          BY <2>5, <4>3, RearOther
        <4> HIDE DEF n, g
        <4>5. Field(fmt, g + 1, args, a) = [n |-> n, i |-> (g + 1) + d, a |-> a]
          BY <4>1, <4>2, <4>4, FieldNumber
        <4>6. prec(g, a) = [n |-> n, i |-> e, a |-> a]
          BY <4>1, <4>3, <4>5
        <4> QED BY <1>3, <4>6 DEF n, g
      <3> QED BY <3>1, <3>2
    <2> QED BY <2>9, <2>10
  <1> HIDE DEF prec, end
  <1>4. /\ At(fmt, w) \notin FlagChars
        /\ \E i, b : /\ Field(fmt, w, args, a) = [n |-> m.field_width, i |-> i, a |-> b]
                     /\ prec(i, b) = end
    <2>1. m.star \in BOOLEAN
      BY NumberIs
    <2> QED BY <1>2, <1>3, Zenon
  <1> QED BY <1>4 DEF prec, end, FieldsGive

FirstWord(m, a) == IF m.star THEN a + 2 ELSE a
Ls(size) == IF size = <<"l", "l">> THEN 2 ELSE IF size = <<"l">> THEN 1 ELSE 0
Hs(size) == IF size = <<"h", "h">> THEN 2 ELSE IF size = <<"h">> THEN 1 ELSE 0

LEMMA FlaggedIs ==
  ASSUME NEW m, m.type \in Numbers, Legal(m)
  PROVE  /\ \A k \in 1 .. Len(Flagged(m)) : FlagOf(Flagged(m)[k]) \in m.flags
         /\ \A f \in m.flags : \E k \in 1 .. Len(Flagged(m)) : FlagOf(Flagged(m)[k]) = f
PROOF
  <1> DEFINE s == Flagged(m)
  <1>1. m.flags \subseteq AllFlags
    BY NumberIs
  <1>2. s = SetToSeq({CharOf(f) : f \in m.flags})
    BY DEF Flagged
  <1> HIDE DEF s
  <1>3. /\ s \in Seq(FlagChars) /\ \A k \in 1 .. Len(s) : FlagOf(s[k]) \in m.flags
        /\ \A f \in m.flags : \E k \in 1 .. Len(s) : FlagOf(s[k]) = f
    BY <1>1, <1>2, FlagsSpelled, ZenonT(60)
  <1> QED BY <1>3 DEF s

(* vsprintf reads from a conversion what its spelling asks for              *)
LEMMA ConversionIs ==
  ASSUME NEW m, m.type \in Numbers, Legal(m), NEW fmt \in Seq(Glyphs), NEW i,
         Stands(fmt, i, Spelling(m)), NEW args, NEW a \in Nat,
         m.star => args[a] = m.field_width % 2 ^ WORD /\ args[a + 1] = m.precision
  PROVE  /\ Conversion(fmt, i, args, a) =
              [flags |-> m.flags \cup (IF m.field_width < 0 THEN {"LEFT"} ELSE {}),
               field_width |-> Abs(m.field_width), precision |-> m.precision,
               l |-> Ls(m.size), h |-> Hs(m.size), at |-> i + Len(Spelling(m)) - 1,
               a |-> FirstWord(m, a)]
         /\ fmt[i] = "%" /\ At(fmt, i) = "%" /\ At(fmt, i + Len(Spelling(m)) - 1) = m.type
PROOF
  <1> DEFINE f == i + 1
             w == f + Len(Flagged(m))
             e == w + Len(Fields(m))
             t == e + Len(m.size)
  <1>1. /\ Stands(fmt, i, <<"%">>) /\ Stands(fmt, f, Flagged(m)) /\ Stands(fmt, w, Fields(m))
        /\ Stands(fmt, e, m.size) /\ Stands(fmt, t, <<m.type>>)
    BY SpellingParts
  <1>2. i \in Nat \ {0} /\ Len(fmt) \in Nat /\ fmt[i] = "%" /\ At(fmt, i) = "%"
    <2>1. i \in 1 .. Len(fmt) /\ fmt[i] = "%" /\ Len(fmt) \in Nat
      BY <1>1, StandsOne
    <2>2. i \in DOMAIN fmt
      BY <2>1
    <2> QED BY <2>1, <2>2 DEF At
  <1>3. /\ Flagged(m) \in Seq(FlagChars) /\ Len(Flagged(m)) \in Nat
        /\ Len(Fields(m)) \in Nat /\ Len(m.size) \in Nat
        /\ Len(Spelling(m)) = 1 + Len(Flagged(m)) + Len(Fields(m)) + Len(m.size) + 1
    <2>1. Flagged(m) \in Seq(FlagChars) /\ Fields(m) \in Seq(Glyphs)
          /\ Len(Spelling(m)) = 1 + Len(Flagged(m)) + Len(Fields(m)) + Len(m.size) + 1
      BY SpellingParts
    <2>2. Len(m.size) \in Nat
      BY NumberIs, SizesAre
    <2>3. Len(Flagged(m)) \in Nat /\ Len(Fields(m)) \in Nat
      BY <2>1
    <2> QED BY <2>1, <2>2, <2>3
  <1>4. i + Len(Spelling(m)) - 1 = t
    <2> DEFINE B == Len(Flagged(m))
               C == Len(Fields(m))
               D == Len(m.size)
               L == Len(Spelling(m))
    <2>1. B \in Nat /\ C \in Nat /\ D \in Nat /\ L = 1 + B + C + D + 1
      BY <1>3
    <2>2. t = (((i + 1) + B) + C) + D
      OBVIOUS
    <2> HIDE DEF B, C, D, L, t
    <2>3. i + L - 1 = t
      BY <1>2, <2>1, <2>2
    <2> QED BY <2>3 DEF L
  <1> HIDE DEF e
  <1>5. /\ At(fmt, e) \in Rear /\ At(fmt, t) = m.type
        /\ Past(fmt, e, {"l", "h"}) = t
        /\ Count(fmt, e, t, "l") = Ls(m.size) /\ Count(fmt, e, t, "h") = Hs(m.size)
    BY <1>1, RearIs DEF Ls, Hs
  <1> HIDE DEF t, w, f
  <1> DEFINE width == Field(fmt, w, args, a)
             prec == IF At(fmt, width.i) = "." THEN Field(fmt, width.i + 1, args, width.a)
                     ELSE [width EXCEPT !.n = 0]
  <1>6. /\ At(fmt, w) \notin FlagChars
        /\ width.n = m.field_width
        /\ prec = [n |-> m.precision, i |-> e, a |-> FirstWord(m, a)]
    <2>1. Stands(fmt, w, Fields(m)) /\ At(fmt, w + Len(Fields(m))) \in Rear
      BY <1>1, <1>5 DEF e
    <2>2. At(fmt, w) \notin FlagChars
      BY <2>1, FieldsRead
    <2>0. FieldsGive(m, fmt, w, w + Len(Fields(m)), args, a)
      BY <2>1, FieldsRead
    <2>3. PICK j, b : /\ Field(fmt, w, args, a) = [n |-> m.field_width, i |-> j, a |-> b]
                      /\ (IF At(fmt, j) = "." THEN Field(fmt, j + 1, args, b)
                          ELSE [n |-> 0, i |-> j, a |-> b])
                         = [n |-> m.precision, i |-> w + Len(Fields(m)), a |-> IF m.star THEN a + 2 ELSE a]
      BY <2>0 DEF FieldsGive
    <2>4. width.n = m.field_width /\ width.i = j /\ width.a = b
          /\ [width EXCEPT !.n = 0] = [n |-> 0, i |-> j, a |-> b]
      BY <2>3
    <2>5. prec = [n |-> m.precision, i |-> w + Len(Fields(m)), a |-> IF m.star THEN a + 2 ELSE a]
      <3> HIDE DEF width
      <3> QED BY <2>3, <2>4
    <2> QED BY <2>2, <2>4, <2>5 DEF FirstWord, e
  <1>7. Past(fmt, f, FlagChars) = w
    <2>1. At(fmt, f + Len(Flagged(m))) \notin FlagChars
      BY <1>6 DEF w
    <2> QED BY <1>1, <1>3, <2>1, PastRun DEF w
  <1>8. {FlagOf(fmt[k]) : k \in i + 1 .. w - 1} = m.flags
    <2> DEFINE s == Flagged(m)
    <2>1. /\ \A k \in 1 .. Len(s) : FlagOf(s[k]) \in m.flags
          /\ \A x \in m.flags : \E k \in 1 .. Len(s) : FlagOf(s[k]) = x
      BY FlaggedIs
    <2>2. \A k \in 1 .. Len(s) : fmt[f + k - 1] = s[k]
      BY <1>1, <1>3, StandsAt
    <2>3. ASSUME NEW k \in i + 1 .. w - 1
          PROVE  k - i \in 1 .. Len(s) /\ fmt[k] = s[k - i]
      <3>1. k - i \in 1 .. Len(s) /\ f + (k - i) - 1 = k
        BY <1>2, <1>3 DEF w, f
      <3>2. fmt[f + (k - i) - 1] = s[k - i]
        BY <2>2, <3>1
      <3> QED BY <3>1, <3>2
    <2>4. ASSUME NEW k \in 1 .. Len(s)
          PROVE  k + i \in i + 1 .. w - 1 /\ fmt[k + i] = s[k]
      <3>1. k + i \in i + 1 .. w - 1 /\ f + k - 1 = k + i
        BY <1>2, <1>3 DEF w, f
      <3>2. fmt[f + k - 1] = s[k]
        BY <2>2
      <3> QED BY <3>1, <3>2
    <2> HIDE DEF s
    <2>5. \A x : x \in {FlagOf(fmt[k]) : k \in i + 1 .. w - 1} => x \in m.flags
      BY <2>1, <2>3
    <2>6. ASSUME NEW x \in m.flags PROVE x \in {FlagOf(fmt[k]) : k \in i + 1 .. w - 1}
      <3>1. PICK k \in 1 .. Len(s) : FlagOf(s[k]) = x
        BY <2>1
      <3>2. k + i \in i + 1 .. w - 1 /\ fmt[k + i] = s[k]
        BY <2>4
      <3> QED BY <3>1, <3>2
    <2> QED BY <2>5, <2>6
  <1>9. Larger(m.precision, 0) = m.precision
    BY NumberIs DEF Larger
  <1>10. Abs(m.field_width) = IF width.n < 0 THEN - width.n ELSE width.n
    BY <1>6 DEF Abs
  <1>11. Past(fmt, i + 1, FlagChars) = w
    BY <1>7 DEF f
  <1>12. Conversion(fmt, i, args, a) =
              [flags |-> m.flags \cup (IF width.n < 0 THEN {"LEFT"} ELSE {}),
               field_width |-> IF width.n < 0 THEN - width.n ELSE width.n,
               precision |-> Larger(prec.n, 0),
               l |-> Count(fmt, prec.i, Past(fmt, prec.i, {"l", "h"}), "l"),
               h |-> Count(fmt, prec.i, Past(fmt, prec.i, {"l", "h"}), "h"),
               at |-> Past(fmt, prec.i, {"l", "h"}), a |-> prec.a]
    <2> DEFINE W(x) == Field(fmt, x, args, a)
               Pr(r) == IF At(fmt, r.i) = "." THEN Field(fmt, r.i + 1, args, r.a) ELSE [r EXCEPT !.n = 0]
    <2>1. width = W(Past(fmt, i + 1, FlagChars))
      BY <1>11
    <2>2. {FlagOf(fmt[k]) : k \in i + 1 .. Past(fmt, i + 1, FlagChars) - 1} = m.flags
      BY <1>8, <1>11
    <2>3. prec = Pr(width)
      BY Zenon
    <2> QED BY <2>1, <2>2, <2>3, ZenonT(60) DEF Conversion
  <1> HIDE DEF width, prec
  <1>13. prec.n = m.precision /\ prec.i = e /\ prec.a = FirstWord(m, a)
    BY <1>6
  <1>14. Conversion(fmt, i, args, a) =
              [flags |-> m.flags \cup (IF m.field_width < 0 THEN {"LEFT"} ELSE {}),
               field_width |-> Abs(m.field_width), precision |-> m.precision,
               l |-> Ls(m.size), h |-> Hs(m.size), at |-> t, a |-> FirstWord(m, a)]
    BY <1>5, <1>6, <1>9, <1>10, <1>12, <1>13, Zenon
  <1> QED BY <1>2, <1>4, <1>5, <1>14

-----------------------------------------------------------------------------
(* What is passed for a number                                              *)
ValueText(m) ==
  <<m.value % 2 ^ WORD>>
    \o (IF m.size = <<"l", "l">> THEN <<(m.value \div 2 ^ WORD) % 2 ^ WORD>> ELSE << >>)
StarText(m) == IF m.star THEN <<m.field_width % 2 ^ WORD, m.precision>> ELSE << >>
Taken(m) == (IF m.star THEN 2 ELSE 0) + Words(Ls(m.size))

LEMMA PairIs ==
  ASSUME NEW x, NEW y
  PROVE  <<x>> \o <<y>> = <<x, y>> /\ <<x>> \o << >> = <<x>>
PROOF
  <1> DEFINE S == {x, y}
             a == <<x>>
             b == <<y>>
             r == a \o b
             q == a \o << >>
  <1>1. a \in Seq(S) /\ b \in Seq(S) /\ << >> \in Seq(S) /\ Len(a) = 1 /\ Len(b) = 1 /\ a[1] = x /\ b[1] = y
    OBVIOUS
  <1> HIDE DEF a, b
  <1>2. /\ r \in Seq(S) /\ Len(r) = 2 /\ r[1] = a[1] /\ r[2] = b[1]
        /\ q \in Seq(S) /\ Len(q) = 1 /\ q[1] = a[1]
    <2>1. r \in Seq(S) /\ Len(r) = 2 /\ r[1] = a[1] /\ r[1 + 1] = b[1]
      <3>1. 1 \in 1 .. Len(a) /\ 1 \in 1 .. Len(b)
        BY <1>1
      <3> HIDE DEF S
      <3> QED BY <1>1, <3>1, JoinedIs
    <2>2. 1 + 1 = 2
      OBVIOUS
    <2>3. q = a
      BY <1>1
    <2> QED BY <1>1, <2>1, <2>2, <2>3
  <1> HIDE DEF r, q
  <1>3. r = [i \in 1 .. 2 |-> r[i]] /\ q = [i \in 1 .. 1 |-> q[i]]
    BY <1>2
  <1>4. r = <<x, y>> /\ q = <<x>>
    BY <1>1, <1>2, <1>3
  <1> QED BY <1>4 DEF r, q, a, b

LEMMA ArgumentsParts ==
  ASSUME NEW m, m.type \in Numbers, Legal(m), NEW S, Nat \subseteq S
  PROVE  /\ Arguments(m) \in Seq(S) /\ Len(Arguments(m)) = Taken(m)
         /\ \A args, a : Stands(args, a, Arguments(m)) =>
              LET b == FirstWord(m, a) IN
              /\ a \in Nat
              /\ m.star => args[a] = m.field_width % 2 ^ WORD /\ args[a + 1] = m.precision
              /\ args[b] = m.value % 2 ^ WORD
              /\ m.size = <<"l", "l">> => args[b + 1] = (m.value \div 2 ^ WORD) % 2 ^ WORD
PROOF
  <1> DEFINE low  == m.value % 2 ^ WORD
             high == (m.value \div 2 ^ WORD) % 2 ^ WORD
             wide == m.field_width % 2 ^ WORD
  <1>1. /\ low \in Nat /\ high \in Nat /\ wide \in Nat /\ m.precision \in Nat
        /\ m.star \in BOOLEAN
    <2>1. 2 ^ WORD \in Nat /\ 2 ^ WORD > 0 /\ 2 ^ (WORD - 1) \in Nat
      BY WordsAre
    <2>2. m.field_width \in Int /\ m.precision \in Nat /\ m.star \in BOOLEAN /\ m.size \in AllSizes
      BY NumberIs, <2>1
    <2>3. m.value \in Int
      <3>1. Bits(m.size) - 1 \in Nat
        <4>1. \A s \in AllSizes : Bits(s) \in {BITS, SHORT, CHAR, WORD}
          BY DEF AllSizes, Bits
        <4> QED BY <2>2, <4>1, WordsAre
      <3>2. 2 ^ (Bits(m.size) - 1) \in Nat
        BY <3>1, TwoTo
      <3> QED BY <3>2, NumberIs
    <2> DEFINE M == 2 ^ WORD
    <2> HIDE DEF M
    <2>4. \A x \in Int : x % M \in Nat /\ x \div M \in Int
      BY <2>1 DEF M
    <2> QED BY <2>2, <2>3, <2>4 DEF M
  <1>2. Arguments(m) = StarText(m) \o ValueText(m)
    <2>1. m.type \notin {"text", "c", "s"}
      BY DEF Numbers
    <2>2. Arguments(m) = (StarText(m) \o <<low>>) \o (IF m.size = <<"l", "l">> THEN <<high>> ELSE << >>)
      BY <2>1, Zenon DEF Arguments, StarText
    <2>3. \A r, s, t \in Seq(S) : (r \o s) \o t = r \o (s \o t)
      OBVIOUS
    <2> HIDE DEF low, high, wide
    <2>4. StarText(m) \in Seq(S) /\ <<low>> \in Seq(S) /\ <<high>> \in Seq(S) /\ << >> \in Seq(S)
      <3>1. StarText(m) = IF m.star THEN <<wide, m.precision>> ELSE << >>
        BY DEF StarText, wide
      <3>2. wide \in S /\ m.precision \in S /\ low \in S /\ high \in S
        BY <1>1
      <3> QED BY <3>1, <3>2
    <2>5. ValueText(m) = <<low>> \o (IF m.size = <<"l", "l">> THEN <<high>> ELSE << >>)
      BY DEF ValueText, low, high
    <2> QED BY <2>2, <2>3, <2>4, <2>5
  <1> HIDE DEF low, high, wide
  <1>3. low \in S /\ high \in S /\ wide \in S /\ m.precision \in S
    BY <1>1
  <1>4. StarText(m) = (IF m.star THEN <<wide, m.precision>> ELSE << >>)
    BY DEF StarText, wide
  <1>5. StarText(m) \in Seq(S) /\ Len(StarText(m)) = IF m.star THEN 2 ELSE 0
    BY <1>3, <1>4
  <1>6. ValueText(m) = <<low>> \o (IF m.size = <<"l", "l">> THEN <<high>> ELSE << >>)
    BY DEF ValueText, low, high
  <1>7. ValueText(m) \in Seq(S) /\ Len(ValueText(m)) = (IF m.size = <<"l", "l">> THEN 2 ELSE 1)
        /\ ValueText(m) = (IF m.size = <<"l", "l">> THEN <<low, high>> ELSE <<low>>)
    <2>1. CASE m.size = <<"l", "l">>
      <3>1. ValueText(m) = <<low, high>>
        BY <1>6, <2>1, PairIs
      <3> QED BY <1>3, <2>1, <3>1
    <2>2. CASE m.size # <<"l", "l">>
      <3>1. ValueText(m) = <<low>>
        BY <1>6, <2>2, PairIs
      <3> QED BY <1>3, <2>2, <3>1
    <2> QED BY <2>1, <2>2
  <1>8. Words(Ls(m.size)) = (IF m.size = <<"l", "l">> THEN 2 ELSE 1)
    BY DEF Words, Ls
  <1>9. Arguments(m) \in Seq(S) /\ Len(Arguments(m)) = Taken(m)
    <2>1. Len(StarText(m) \o ValueText(m)) = Len(StarText(m)) + Len(ValueText(m))
          /\ StarText(m) \o ValueText(m) \in Seq(S)
      BY <1>5, <1>7, JoinedIs
    <2> QED BY <1>2, <1>5, <1>7, <1>8, <2>1 DEF Taken
  <1>10. ASSUME NEW args, NEW a, Stands(args, a, Arguments(m))
         PROVE  LET b == FirstWord(m, a) IN
              /\ a \in Nat
              /\ m.star => args[a] = wide /\ args[a + 1] = m.precision
              /\ args[b] = low
              /\ m.size = <<"l", "l">> => args[b + 1] = high
    <2> DEFINE s == StarText(m)
               v == ValueText(m)
               b == FirstWord(m, a)
    <2>1. s \in Seq(S) /\ v \in Seq(S) /\ Arguments(m) = s \o v
      BY <1>2, <1>5, <1>7
    <2>2. Stands(args, a, s) /\ Stands(args, a + Len(s), v)
      <3> HIDE DEF s, v
      <3> QED BY <1>10, <2>1, StandsJoined
    <2>3. a \in Nat \ {0}
      BY <2>2 DEF Stands
    <2>4. a + Len(s) = b
      BY <1>5, <2>3 DEF FirstWord
    <2>5. b \in Nat
      BY <2>3 DEF FirstWord
    <2>6. ASSUME m.star PROVE args[a] = wide /\ args[a + 1] = m.precision
      <3>1. Len(s) = 2 /\ s[1] = wide /\ s[2] = m.precision
        BY <1>4, <2>6
      <3>2. \A k \in 1 .. 2 : args[a + k - 1] = s[k]
        BY <2>2, <3>1 DEF Stands
      <3>3. a + 1 - 1 = a /\ a + 2 - 1 = a + 1 /\ 1 \in 1 .. 2 /\ 2 \in 1 .. 2
        BY <2>3
      <3>4. args[a + 1 - 1] = wide /\ args[a + 2 - 1] = m.precision
        BY <3>1, <3>2, <3>3
      <3> QED BY <3>3, <3>4
    <2>7. Stands(args, b, v)
      BY <2>2, <2>4
    <2> HIDE DEF s, b
    <2>8. args[b] = low
      <3>1. 1 \in 1 .. Len(v) /\ v[1] = low
        BY <1>7
      <3>2. args[b + 1 - 1] = v[1] /\ b + 1 - 1 = b
        BY <2>5, <2>7, <3>1 DEF Stands
      <3> QED BY <3>1, <3>2
    <2>9. ASSUME m.size = <<"l", "l">> PROVE args[b + 1] = high
      <3>1. 2 \in 1 .. Len(v) /\ v[2] = high
        BY <1>7, <2>9
      <3>2. args[b + 2 - 1] = v[2] /\ b + 2 - 1 = b + 1
        BY <2>5, <2>7, <3>1 DEF Stands
      <3> QED BY <3>1, <3>2
    <2> QED BY <2>3, <2>6, <2>8, <2>9 DEF b
  <1> QED BY <1>9, <1>10 DEF low, high, wide

-----------------------------------------------------------------------------
(* The value of the words                                                   *)
LEMMA IntDivMod ==
  ASSUME NEW a \in Int, NEW m \in Nat, m > 0
  PROVE  \E q \in Int : \E r \in Nat : a = m * q + r /\ r < m /\ a \div m = q /\ a % m = r
PROOF
  <1> DEFINE q == a \div m
             r == a % m
  <1>1. q \in Int /\ r \in Nat /\ r < m
    OBVIOUS
  <1>2. ASSUME NEW x, x = q, NEW y, y = r PROVE a = m * x + y
    BY <1>2
  <1>3. a = m * q + r
    BY <1>2
  <1> QED BY <1>1, <1>3

LEMMA IntDivIs ==
  ASSUME NEW a \in Int, NEW m \in Nat, m > 0, NEW q \in Int, NEW r \in 0 .. m - 1, a = m * q + r
  PROVE  a % m = r
OBVIOUS

LEMMA ModMod ==
  ASSUME NEW a \in Int, NEW m \in Nat, m > 0, NEW k \in Nat, k > 0
  PROVE  (a % (k * m)) % m = a % m
PROOF
  <1>1. PICK n \in Nat : n = k * m /\ n > 0
    <2>1. PICK j \in Nat : k = j + 1
      <3>1. k - 1 \in Nat /\ k = (k - 1) + 1
        OBVIOUS
      <3> QED BY <3>1
    <2>2. \A u, v \in Nat : (u + 1) * v = v + u * v /\ u * v \in Nat
      OBVIOUS
    <2>3. k * m = m + j * m /\ j * m \in Nat
      BY <2>1, <2>2
    <2> QED BY <2>3
  <1>2. PICK q \in Int : \E r \in Nat : a = n * q + r /\ r < n /\ a % n = r
    BY <1>1, IntDivMod
  <1>3. PICK r \in Nat : a = n * q + r /\ r < n /\ a % n = r
    BY <1>2
  <1>4. PICK p \in Int : \E s \in Nat : r = m * p + s /\ s < m /\ r % m = s
    BY IntDivMod
  <1>5. PICK s \in Nat : r = m * p + s /\ s < m /\ r % m = s
    BY <1>4
  <1>6. n * q = m * (k * q) /\ k * q \in Int
    BY <1>1
  <1>7. m * (k * q) + m * p = m * (k * q + p)
    BY <1>6
  <1>8. a = m * (k * q + p) + s
    BY <1>3, <1>5, <1>6, <1>7
  <1>9. a % m = s
    <2>1. PICK t \in Int : t = k * q + p
      BY <1>6
    <2>2. a = m * t + s /\ s \in 0 .. m - 1
      BY <1>5, <1>8, <2>1
    <2> QED BY <2>2, IntDivIs
  <1> QED BY <1>1, <1>3, <1>5, <1>9

LEMMA TwoWords ==
  ASSUME NEW a \in Int, NEW m \in Nat, m > 0
  PROVE  /\ (a % m) + ((a \div m) % m) * m = a % (m * m)
         /\ a % (m * m) \in Nat /\ a % (m * m) < m * m /\ m * m \in Nat /\ m * m > 0
PROOF
  <1>1. PICK q \in Int : \E r \in Nat : a = m * q + r /\ r < m /\ a \div m = q /\ a % m = r
    BY IntDivMod
  <1>2. PICK r \in Nat : a = m * q + r /\ r < m /\ a \div m = q /\ a % m = r
    BY <1>1
  <1>3. PICK p \in Int : \E s \in Nat : q = m * p + s /\ s < m /\ q % m = s
    BY IntDivMod
  <1>4. PICK s \in Nat : q = m * p + s /\ s < m /\ q % m = s
    BY <1>3
  <1>5. PICK n \in Nat : n = m * m
    OBVIOUS
  <1>6. m * (m * p + s) = n * p + m * s
    <2>1. m * (m * p + s) = m * (m * p) + m * s
      OBVIOUS
    <2>2. m * (m * p) = (m * m) * p
      OBVIOUS
    <2> QED BY <1>5, <2>1, <2>2
  <1>7. r + s * m \in Nat /\ r + s * m < n
    <2>1. PICK j \in Nat : m = s + 1 + j
      <3>1. m - s - 1 \in Nat /\ m = s + 1 + (m - s - 1)
        BY <1>4
      <3> QED BY <3>1
    <2>2. \A u, v, w \in Nat : (u + 1 + v) * w = u * w + w + v * w /\ u * w \in Nat /\ v * w \in Nat
      OBVIOUS
    <2>3. (s + 1 + j) * m = s * m + m + j * m /\ s * m \in Nat /\ j * m \in Nat
      BY <2>2
    <2>4. n = s * m + m + j * m
      BY <1>5, <2>1, <2>3
    <2> QED BY <1>2, <2>3, <2>4
  <1>8. a = n * p + (r + s * m)
    <2>1. m * s = s * m
      OBVIOUS
    <2> QED BY <1>2, <1>4, <1>6, <2>1
  <1>9. PICK t \in Nat : t = r + s * m
    BY <1>7
  <1>10. a % n = t
    <2>1. a = n * p + t /\ t \in 0 .. n - 1 /\ n > 0
      BY <1>7, <1>8, <1>9
    <2> QED BY <2>1, IntDivIs
  <1>11. n > 0
    BY <1>7
  <1> QED BY <1>2, <1>4, <1>5, <1>7, <1>9, <1>10, <1>11

LEMMA BitsAre ==
  ASSUME NEW s \in AllSizes
  PROVE  /\ Bits(s) \in Nat /\ Bits(s) >= 1 /\ Width(Ls(s), Hs(s)) = Bits(s)
         /\ Bits(s) <= IF s = <<"l", "l">> THEN BITS ELSE WORD
         /\ s = <<"l", "l">> => Bits(s) = BITS
         /\ Words(Ls(s)) = IF s = <<"l", "l">> THEN 2 ELSE 1
PROOF
  <1>1. /\ WORD \in Nat /\ SHORT \in Nat /\ CHAR \in Nat /\ BITS \in Nat
        /\ CHAR >= 1 /\ SHORT >= 2 /\ WORD >= 3 /\ BITS = 2 * WORD /\ SHORT < WORD /\ CHAR < SHORT
    BY WordsAre
  <1>2. CASE s = << >>
    BY <1>1, <1>2 DEF Bits, Width, Ls, Hs, Words
  <1>3. CASE s = <<"l">>
    BY <1>1, <1>3 DEF Bits, Width, Ls, Hs, Words
  <1>4. CASE s = <<"h">>
    BY <1>1, <1>4 DEF Bits, Width, Ls, Hs, Words
  <1>5. CASE s = <<"h", "h">>
    BY <1>1, <1>5 DEF Bits, Width, Ls, Hs, Words
  <1>6. CASE s = <<"l", "l">>
    BY <1>1, <1>6 DEF Bits, Width, Ls, Hs, Words
  <1> QED BY <1>2, <1>3, <1>4, <1>5, <1>6 DEF AllSizes

LEMMA UintIs ==
  ASSUME NEW s \in AllSizes, NEW v \in Int, NEW args, NEW b, args[b] = v % 2 ^ WORD,
         s = <<"l", "l">> => args[b + 1] = (v \div 2 ^ WORD) % 2 ^ WORD
  PROVE  get_uint(args, b, Ls(s), Hs(s)) = v % 2 ^ Bits(s)
PROOF
  <1> DEFINE M == 2 ^ WORD
  <1>1. M \in Nat /\ M > 0 /\ UINT64 = M * M
    BY WordsAre
  <1>2. /\ Bits(s) \in Nat /\ Bits(s) >= 1 /\ Width(Ls(s), Hs(s)) = Bits(s)
        /\ Bits(s) <= IF s = <<"l", "l">> THEN BITS ELSE WORD
        /\ s = <<"l", "l">> => Bits(s) = BITS
        /\ Words(Ls(s)) = IF s = <<"l", "l">> THEN 2 ELSE 1
    BY BitsAre
  <1>3. get_uint(args, b, Ls(s), Hs(s)) =
          (args[b] + (IF Words(Ls(s)) = 2 THEN args[b + 1] * M ELSE 0)) % 2 ^ Bits(s)
    BY <1>2 DEF get_uint
  <1> HIDE DEF M
  <1>4. CASE s = <<"l", "l">>
    <2>1. args[b] = v % M /\ args[b + 1] = (v \div M) % M
      BY <1>4 DEF M
    <2>2. PICK x \in Nat : x = v % (M * M)
      BY <1>1, TwoWords
    <2>3. args[b] + args[b + 1] * M = x /\ x < M * M
      BY <1>1, <2>1, <2>2, TwoWords
    <2>4. 2 ^ Bits(s) = M * M
      BY <1>1, <1>2, <1>4 DEF UINT64
    <2>5. get_uint(args, b, Ls(s), Hs(s)) = x % (M * M)
      BY <1>2, <1>3, <1>4, <2>3, <2>4
    <2>6. x % (M * M) = x
      <3>1. PICK n \in Nat : n = M * M /\ n > 0
        BY <1>1, TwoWords
      <3>2. x % n = x
        BY <2>3, <3>1
      <3> QED BY <3>1, <3>2
    <2> QED BY <2>2, <2>4, <2>5, <2>6
  <1>5. CASE s # <<"l", "l">>
    <2> DEFINE m == 2 ^ Bits(s)
               k == 2 ^ (WORD - Bits(s))
    <2>1. Bits(s) \in Nat /\ WORD - Bits(s) \in Nat /\ (WORD - Bits(s)) + Bits(s) = WORD
      BY <1>2, <1>5, WordsAre
    <2>2. m \in Nat /\ m > 0 /\ k \in Nat /\ k > 0 /\ M = k * m
      BY <2>1, TwoTo, TwoSum DEF M
    <2>3. args[b] = v % M /\ v % M \in Nat
      BY <1>1 DEF M
    <2>4. get_uint(args, b, Ls(s), Hs(s)) = (v % M) % m
      BY <1>2, <1>3, <1>5, <2>3
    <2> HIDE DEF m, k
    <2>5. (v % (k * m)) % m = v % m
      BY <2>2, ModMod
    <2> QED BY <2>2, <2>4, <2>5 DEF m
  <1> QED BY <1>4, <1>5

(* The uint64_t that number is called for                                  *)
Num(m) == IF m.value < 0 THEN m.value + UINT64 ELSE m.value

LEMMA ValueIs ==
  ASSUME NEW m, m.type \in Numbers, Legal(m)
  PROVE  /\ m.value \in Int
         /\ m.type # "d" => m.value >= 0
         /\ Num(m) \in 0 .. UINT64 - 1 /\ Abs(m.value) \in 0 .. UINT64 - 1
         /\ m.value < 0 => Num(m) >= UINT64 \div 2 /\ UINT64 - Num(m) = Abs(m.value)
         /\ m.type = "d" /\ m.value >= 0 => Num(m) < UINT64 \div 2
         /\ m.value >= 0 => Num(m) = Abs(m.value)
PROOF
  <1> DEFINE t == 2 ^ (Bits(m.size) - 1)
  <1>1. m.size \in AllSizes
    BY NumberIs
  <1>2. Bits(m.size) \in Nat /\ Bits(m.size) >= 1 /\ Bits(m.size) <= BITS /\ BITS \in Nat /\ BITS >= 1
    BY <1>1, BitsAre, WordsAre
  <1>3. Bits(m.size) - 1 \in 0 .. BITS - 1 /\ BITS - 1 \in Nat /\ (BITS - 1) + 1 = BITS
    BY <1>2
  <1>4. t \in Nat /\ t <= 2 ^ (BITS - 1) /\ 2 ^ (BITS - 1) \in Nat /\ t > 0
    BY <1>3, TwoTo, TwoOrder
  <1>5. PICK h \in Nat : h = 2 ^ (BITS - 1)
    BY <1>4
  <1>6. UINT64 = 2 * h
    BY <1>3, <1>5, TwoTo DEF UINT64
  <1>7. m.value \in (IF m.type = "d" THEN - t .. t - 1 ELSE 0 .. 2 * t - 1)
    BY NumberIs
  <1> HIDE DEF t
  <1>8. m.value \in Int /\ (m.type # "d" => m.value >= 0) /\ m.value >= - t
        /\ m.value < 2 * t /\ (m.type = "d" => m.value < t)
    BY <1>4, <1>7
  <1>9. UINT64 \div 2 = h
    BY <1>6
  <1> QED BY <1>4, <1>5, <1>6, <1>8, <1>9 DEF Num, Abs

LEMMA ReadValue ==
  ASSUME NEW m, m.type \in Numbers, Legal(m), NEW args, NEW b, args[b] = m.value % 2 ^ WORD,
         m.size = <<"l", "l">> => args[b + 1] = (m.value \div 2 ^ WORD) % 2 ^ WORD
  PROVE  /\ m.type \in {"u", "o", "x"} => get_uint(args, b, Ls(m.size), Hs(m.size)) = Num(m)
         /\ m.type = "d" => get_int(args, b, Ls(m.size), Hs(m.size)) = Num(m)
         /\ m.type = "p" => args[b] = Num(m)
PROOF
  <1> DEFINE w == Bits(m.size)
             t == 2 ^ (w - 1)
             v == m.value
             u == get_uint(args, b, Ls(m.size), Hs(m.size))
  <1>1. m.size \in AllSizes
    BY NumberIs
  <1>2. w \in Nat /\ w >= 1 /\ Width(Ls(m.size), Hs(m.size)) = w
    BY <1>1, BitsAre
  <1>3. t \in Nat /\ t > 0 /\ 2 ^ w = 2 * t
    <2>1. w - 1 \in Nat /\ (w - 1) + 1 = w
      BY <1>2
    <2> QED BY <2>1, TwoTo
  <1>4. v \in (IF m.type = "d" THEN - t .. t - 1 ELSE 0 .. 2 * t - 1)
    BY NumberIs
  <1>5. v \in Int
    BY <1>3, <1>4
  <1>6. u = v % 2 ^ w
    BY <1>1, <1>5, UintIs
  <1>7. get_int(args, b, Ls(m.size), Hs(m.size)) = SignExtended(u, w)
    BY <1>2 DEF get_int
  <1>8. SignExtended(u, w) = IF u >= t THEN u + (UINT64 - 2 * t) ELSE u
    BY <1>3 DEF SignExtended
  <1>9. u = v % (2 * t)
    BY <1>3, <1>6
  <1>10. m.type = "p" => args[b] = v
    <2>1. SUFFICES ASSUME m.type = "p" PROVE args[b] = v
      OBVIOUS
    <2>2. m.size = << >>
      BY <2>1, NumberIs
    <2>3. w = WORD
      BY <2>2 DEF Bits
    <2>4. args[b] = v % (2 * t)
      BY <1>3, <2>3
    <2> HIDE DEF t, v, w
    <2>5. v \in 0 .. 2 * t - 1
      BY <1>4, <2>1
    <2>6. v % (2 * t) = v
      BY <1>3, <2>5
    <2> QED BY <2>4, <2>6
  <1>11. UINT64 \in Nat
    BY WordsAre
  <1> HIDE DEF u, t, w
  <1>12. m.type # "d" => u = v
    <2> HIDE DEF v
    <2> QED BY <1>3, <1>4, <1>9
  <1>13. m.type = "d" => SignExtended(u, w) = IF v < 0 THEN v + UINT64 ELSE v
    <2>1. SUFFICES ASSUME m.type = "d" PROVE SignExtended(u, w) = IF v < 0 THEN v + UINT64 ELSE v
      OBVIOUS
    <2> HIDE DEF v
    <2>2. v \in - t .. t - 1
      BY <1>4, <2>1
    <2>3. CASE v < 0
      <3>1. v % (2 * t) = v + 2 * t
        BY <1>3, <2>2, <2>3
      <3>2. u = v + 2 * t /\ u >= t
        BY <1>3, <1>9, <2>2, <3>1
      <3> QED BY <1>3, <1>5, <1>8, <1>11, <2>3, <3>2
    <2>4. CASE ~(v < 0)
      <3>1. v % (2 * t) = v
        BY <1>3, <2>2, <2>4
      <3>2. u = v /\ ~(u >= t)
        BY <1>3, <1>9, <2>2, <3>1
      <3> QED BY <1>8, <2>4, <3>2
    <2> QED BY <2>3, <2>4
  <1>14. m.type # "d" => Num(m) = v
    <2>1. m.type # "d" => m.value >= 0
      BY ValueIs
    <2>2. m.value \in Int
      BY ValueIs
    <2>3. m.value >= 0 => ~(m.value < 0)
      BY <2>2
    <2> QED BY <2>1, <2>3 DEF Num
  <1>15. Num(m) = IF v < 0 THEN v + UINT64 ELSE v
    BY DEF Num
  <1> QED BY <1>7, <1>10, <1>12, <1>13, <1>14, <1>15 DEF u

-----------------------------------------------------------------------------
(***************************************************************************)
(* 5. Printing a message.                                                  *)
(*                                                                         *)
(* Printed is what vsprintf makes of a part, Wanted what it should make of *)
(* it: these agree in length always, and altogether for a Covered part.    *)
(* MessagePrinted follows the rounds of vsprintf through the parts: behind *)
(* each of them, the next character, the next argument and what is printed *)
(* are known (Spot).                                                       *)
(***************************************************************************)
(* What number prints                                                       *)
Asked(m) == m.flags \cup (IF m.field_width < 0 THEN {"LEFT"} ELSE {})
Given(m) == Asked(m) \cup (IF m.type = "d" THEN {"SIGNED"} ELSE {})
                     \cup (IF m.type = "p" THEN {"SPEC"} ELSE {})

Printed(m) ==
  IF m.type \notin Numbers THEN m.value
  ELSE number(Num(m), Base(m), Given(m), Abs(m.field_width), MinDigits(m))

LEMMA BaseIs ==
  ASSUME NEW m, m.type \in Numbers
  PROVE  /\ Base(m) \in 2 .. 16
         /\ Base(m) = 8 <=> m.type = "o"
         /\ Base(m) = 16 <=> m.type \in {"x", "p"}
BY DEF Base, Numbers

LEMMA GivenAre ==
  ASSUME NEW m, m.type \in Numbers, Legal(m)
  PROVE  /\ "SIGNED" \in Given(m) <=> m.type = "d"
         /\ "PLUS" \in Given(m) <=> "PLUS" \in m.flags
         /\ "SPACE" \in Given(m) <=> "SPACE" \in m.flags
         /\ "ZEROPAD" \in Given(m) <=> "ZEROPAD" \in m.flags
         /\ "SPEC" \in Given(m) <=> "SPEC" \in m.flags \/ m.type = "p"
         /\ "LEFT" \in Given(m) <=> AtLeft(m)
PROOF
  <1>1. m.flags \subseteq AllFlags
    BY NumberIs
  <1>2. "SIGNED" \notin m.flags
    BY <1>1 DEF AllFlags
  <1> QED BY <1>2 DEF Given, Asked, AtLeft

LEMMA SignIs ==
  ASSUME NEW m, m.type \in Numbers, Legal(m)
  PROVE  /\ Magnitude(Num(m), Given(m)) = Abs(m.value)
         /\ Sign(Num(m), Given(m)) = IF m.type # "d" THEN << >>
              ELSE IF m.value < 0 THEN <<"-">>
              ELSE IF "PLUS" \in m.flags THEN <<"+">>
              ELSE IF "SPACE" \in m.flags THEN <<" ">> ELSE << >>
PROOF
  <1>1. "SIGNED" \in Given(m) <=> m.type = "d"
    BY GivenAre
  <1>2. ("PLUS" \in Given(m) <=> "PLUS" \in m.flags) /\ ("SPACE" \in Given(m) <=> "SPACE" \in m.flags)
    BY GivenAre
  <1>3. CASE m.type # "d"
    <2>1. "SIGNED" \notin Given(m)
      BY <1>1, <1>3
    <2>2. m.value >= 0 /\ Num(m) = Abs(m.value)
      BY <1>3, ValueIs
    <2> QED BY <1>3, <2>1, <2>2 DEF Magnitude, Negative, Sign
  <1>4. CASE m.type = "d"
    <2>1. "SIGNED" \in Given(m)
      BY <1>1, <1>4
    <2>2. m.value < 0 => Num(m) >= UINT64 \div 2 /\ UINT64 - Num(m) = Abs(m.value)
      BY ValueIs
    <2>3. m.value >= 0 => Num(m) < UINT64 \div 2 /\ Num(m) = Abs(m.value)
      BY <1>4, ValueIs
    <2>4. m.value \in Int /\ Num(m) \in Int /\ UINT64 \div 2 \in Int
      BY ValueIs, WordsAre
    <2>5. Negative(Num(m), Given(m)) <=> m.value < 0
      BY <2>1, <2>2, <2>3, <2>4 DEF Negative
    <2>6. Magnitude(Num(m), Given(m)) = Abs(m.value)
      BY <2>2, <2>3, <2>4, <2>5 DEF Magnitude
    <2> QED BY <1>2, <1>4, <2>1, <2>5, <2>6 DEF Sign
  <1> QED BY <1>3, <1>4

LEMMA PrefixIs ==
  ASSUME NEW m, m.type \in Numbers, Legal(m)
  PROVE  Prefix(Base(m), Given(m)) =
           CASE m.type = "p" \/ (m.type = "x" /\ "SPEC" \in m.flags) -> <<"0", "x">>
             [] m.type = "o" /\ "SPEC" \in m.flags -> <<"0">>
             [] OTHER -> << >>
PROOF
  <1>1. "SPEC" \in Given(m) <=> "SPEC" \in m.flags \/ m.type = "p"
    BY GivenAre
  <1>2. (Base(m) = 8 <=> m.type = "o") /\ (Base(m) = 16 <=> m.type \in {"x", "p"})
    BY BaseIs
  <1> QED BY <1>1, <1>2 DEF Prefix

LEMMA ShortSeqs ==
  ASSUME NEW S, NEW c \in S, NEW d \in S
  PROVE  <<c>> \in Seq(S) /\ <<c, d>> \in Seq(S) /\ << >> \in Seq(S)
OBVIOUS

LEMMA LeadingIs ==
  ASSUME NEW m, m.type \in Numbers, Legal(m)
  PROVE  /\ Sign(Num(m), Given(m)) \o Prefix(Base(m), Given(m)) = Leading(m)
         /\ Leading(m) \in Seq(Glyphs) /\ Len(Leading(m)) \in Nat
PROOF
  <1> DEFINE s == Sign(Num(m), Given(m))
             p == Prefix(Base(m), Given(m))
  <1>1. s \o p = Leading(m)
    BY SignIs, PrefixIs DEF Leading
  <1>2. /\ "-" \in Glyphs /\ "+" \in Glyphs /\ " " \in Glyphs /\ "0" \in Glyphs /\ "x" \in Glyphs
    BY DEF Glyphs, Marks
  <1>3. s \in Seq(Glyphs)
    <2>1. s \in {<< >>, <<"-">>, <<"+">>, <<" ">>}
      BY SignIs
    <2>2. /\ << >> \in Seq(Glyphs) /\ <<"-">> \in Seq(Glyphs)
          /\ <<"+">> \in Seq(Glyphs) /\ <<" ">> \in Seq(Glyphs)
      BY <1>2, ShortSeqs
    <2> HIDE DEF s
    <2> QED BY <2>1, <2>2, Zenon
  <1>4. p \in Seq(Glyphs)
    <2>1. p \in {<< >>, <<"0", "x">>, <<"0">>}
      BY PrefixIs
    <2>2. << >> \in Seq(Glyphs) /\ <<"0", "x">> \in Seq(Glyphs) /\ <<"0">> \in Seq(Glyphs)
      BY <1>2, ShortSeqs
    <2> HIDE DEF p
    <2> QED BY <2>1, <2>2, Zenon
  <1> HIDE DEF s, p
  <1>5. s \o p \in Seq(Glyphs) /\ Len(s \o p) \in Nat
    BY <1>3, <1>4, JoinedIs
  <1> QED BY <1>1, <1>5 DEF s, p

LEMMA CopiesAre ==
  ASSUME NEW c \in Glyphs, NEW n \in Nat
  PROVE  Copies(c, n) \in Seq(Glyphs) /\ Len(Copies(c, n)) = n
BY DEF Copies

LEMMA LargerIs ==
  ASSUME NEW n \in Int
  PROVE  Larger(n, 0) \in Nat
BY DEF Larger

LEMMA PaddedIs ==
  ASSUME NEW body \in Seq(Glyphs), NEW flags, NEW w \in Nat
  PROVE  /\ Padded(body, flags, w) \in Seq(Glyphs)
         /\ Len(Padded(body, flags, w)) = Len(body) + Larger(w - Len(body), 0)
PROOF
  <1> DEFINE n == Larger(w - Len(body), 0)
             fill == Copies(IF "ZEROPAD" \in flags THEN "0" ELSE " ", n)
  <1>1. Len(body) \in Nat
    OBVIOUS
  <1>2. n \in Nat
    BY <1>1, LargerIs
  <1>3. (IF "ZEROPAD" \in flags THEN "0" ELSE " ") \in Glyphs
    BY DEF Glyphs, Marks
  <1>4. Padded(body, flags, w) = IF "LEFT" \in flags THEN body \o fill ELSE fill \o body
    BY DEF Padded
  <1> HIDE DEF n
  <1>5. fill \in Seq(Glyphs) /\ Len(fill) = n
    BY <1>2, <1>3, CopiesAre
  <1> HIDE DEF fill
  <1>6. /\ body \o fill \in Seq(Glyphs) /\ Len(body \o fill) = Len(body) + Len(fill)
        /\ fill \o body \in Seq(Glyphs) /\ Len(fill \o body) = Len(fill) + Len(body)
    BY <1>5, JoinedIs
  <1>7. Len(fill) + Len(body) = Len(body) + n /\ Len(body) + Len(fill) = Len(body) + n
    BY <1>1, <1>2, <1>5
  <1> QED BY <1>4, <1>6, <1>7 DEF n

-----------------------------------------------------------------------------
LEMMA DigitsGlyphs ==
  ASSUME NEW x \in 0 .. UINT64 - 1, NEW base \in 2 .. 16, NEW d \in Nat, d >= 1
  PROVE  Digits(x, base, d) \in Seq(Glyphs) /\ Len(Digits(x, base, d)) = d
PROOF
  <1>1. Digits(x, base, d) = [k \in 1 .. d |-> DIGITS[((x \div Power(base)[k - 1]) % base) + 1]]
    BY DigitsQuotients
  <1>2. ASSUME NEW k \in 1 .. d
        PROVE  DIGITS[((x \div Power(base)[k - 1]) % base) + 1] \in Glyphs
    <2>1. base \in Nat /\ base >= 2 /\ base <= 16 /\ k - 1 \in Nat /\ UINT64 \in Nat
      BY WordsAre
    <2>2. PICK q \in Nat : q = x \div Power(base)[k - 1]
      BY <2>1, QuotientIn
    <2>3. q % base \in 0 .. 15
      BY <2>1, <2>2
    <2>4. PICK r \in 0 .. 15 : r = q % base
      BY <2>3
    <2>5. r + 1 \in 1 .. 16
      OBVIOUS
    <2>6. DIGITS[r + 1] \in Glyphs
      BY <2>5, DigitsDiffer
    <2> QED BY <2>2, <2>4, <2>6
  <1> QED BY <1>1, <1>2

(* A number of at most half the bits is reversed without an overflow.       *)
LEMMA PowerFits ==
  ASSUME NEW n \in Nat, n < 2 ^ WORD, NEW base \in 2 .. 16
  PROVE  Power(base)[Figures(n, base)] <= UINT64
PROOF
  <1> DEFINE d == Figures(n, base)
             M == 2 ^ WORD
             p == Power(base)
  <1>1. M \in Nat /\ M >= 8 /\ UINT64 = M * M /\ UINT64 \in Nat /\ UINT64 >= 8 * M
    BY WordsAre
  <1> HIDE DEF M
  <1>2. n < M /\ n \in 0 .. UINT64 - 1
    <2>1. n < M
      BY DEF M
    <2> QED BY <1>1, <2>1
  <1>3. base \in Nat /\ base >= 2 /\ base <= 16
    OBVIOUS
  <1>4. d \in Nat /\ d >= 1 /\ (d = 1 \/ n >= p[d - 1])
    <2>1. BITS \in Nat
      BY WordsAre
    <2> QED BY <1>2, <1>3, <2>1, FiguresAre
  <1>5. /\ p[0] = 1 /\ p[1] = base
        /\ \A i \in Nat : p[i] \in Nat /\ p[i + 1] = base * p[i]
    <2>1. p[0] = 1 /\ \A i \in Nat : p[i] \in Nat /\ p[i + 1] = base * p[i]
      BY <1>3, PowerIs
    <2>2. p[0 + 1] = base * p[0]
      BY <2>1
    <2> QED BY <1>3, <2>1, <2>2
  <1> HIDE DEF p, d
  <1>6. CASE d = 1
    <2>1. p[d] = base
      BY <1>5, <1>6
    <2>2. base <= UINT64
      BY <1>1, <1>3
    <2> QED BY <2>1, <2>2 DEF p, d
  <1>7. CASE d # 1
    <2>1. d - 1 \in Nat /\ 1 \in 0 .. d - 1 /\ (d - 1) + 1 = d
      BY <1>4, <1>7
    <2>2. p[1] <= p[d - 1]
      BY <1>3, <2>1, PowerOrder DEF p
    <2>3. PICK b \in Nat : b = p[d - 1]
      BY <1>5, <2>1
    <2>4. base <= M /\ b <= M
      BY <1>1, <1>2, <1>3, <1>4, <1>5, <1>7, <2>2, <2>3
    <2>5. p[d] = base * b
      BY <1>5, <2>1, <2>3
    <2>6. base * b <= base * M /\ M * base <= M * M /\ base * b \in Nat
      BY <1>1, <1>3, <2>3, <2>4, Products
    <2>7. base * M = M * base /\ base * M \in Nat /\ M * M \in Nat
      BY <1>1, <1>3
    <2>8. base * b <= M * M
      BY <2>6, <2>7
    <2> QED BY <1>1, <2>5, <2>8 DEF p, d
  <1> QED BY <1>6, <1>7

(* What number is called for is printed in as many characters as it should  *)
(* be, and if it is covered, as it should be.                               *)
LEMMA PrintedNumber ==
  ASSUME NEW m, m.type \in Numbers, Legal(m)
  PROVE  /\ Printed(m) \in Seq(Glyphs) /\ Wanted(m) \in Seq(Glyphs)
         /\ Len(Printed(m)) = Len(Wanted(m))
         /\ Covered(m) => Printed(m) = Wanted(m)
PROOF
  <1> DEFINE n == Abs(m.value)
             base == Base(m)
             body == Numeral(n, base)
             r == reverse_uint(n, base)
             w == Abs(m.field_width)
             zeros == Copies("0", Larger(MinDigits(m) - Len(body), 0))
             all == Leading(m) \o zeros \o body
             made == Leading(m) \o zeros \o Digits(r.x, base, r.t)
             gap == Larger(w - Len(all), 0)
  <1>1. n \in 0 .. UINT64 - 1 /\ base \in 2 .. 16 /\ UINT64 \in Nat
    BY ValueIs, BaseIs, WordsAre
  <1>2. base \in Nat /\ base >= 2
    BY <1>1
  <1>3. /\ Len(body) = Figures(n, base) /\ Figures(n, base) \in Nat /\ Figures(n, base) >= 1
        /\ body \in Seq(Glyphs)
    <2>1. BITS \in Nat
      BY WordsAre
    <2> HIDE DEF n, base
    <2>2. /\ Len(body) = Figures(n, base) /\ Figures(n, base) \in 1 .. BITS
          /\ body \in Seq(Glyphs)
      BY <1>1, NumeralIs
    <2> QED BY <2>1, <2>2
  <1>4. r \in Rest /\ r.t = Figures(n, base)
    BY <1>1, <1>2, ReverseRight
  <1>5. r.x \in 0 .. UINT64 - 1
    BY <1>4 DEF Rest
  <1>6. Digits(r.x, base, r.t) \in Seq(Glyphs) /\ Len(Digits(r.x, base, r.t)) = Len(body)
    <2>1. r.t \in Nat /\ r.t >= 1 /\ r.t = Len(body)
      BY <1>3, <1>4
    <2> HIDE DEF r, n, base, body
    <2> QED BY <1>1, <1>5, <2>1, DigitsGlyphs
  <1>7. Covered(m) => Digits(r.x, base, r.t) = body
    <2>1. SUFFICES ASSUME Covered(m) PROVE Digits(r.x, base, r.t) = body
      OBVIOUS
    <2>2. n < 2 ^ WORD
      BY <2>1, WordsAre DEF Covered
    <2>3. n \in Nat
      BY <1>1
    <2>4. Power(base)[r.t] <= UINT64
      BY <1>1, <1>4, <2>2, <2>3, PowerFits
    <2> HIDE DEF n, base
    <2> QED BY <1>1, <2>4, NumeralsAreRight
  <1>8. MinDigits(m) \in Int /\ w \in Nat
    <2>1. WORD \in Nat /\ WORD \div 4 \in Int
      BY WordsAre
    <2>2. 2 ^ (WORD - 1) \in Nat
      BY WordsAre
    <2>3. m.precision \in Int /\ m.field_width \in Int
      BY <2>2, NumberIs
    <2> QED BY <2>1, <2>3 DEF MinDigits, Abs
  <1>9. zeros \in Seq(Glyphs) /\ Len(zeros) \in Nat
    <2>1. "0" \in Glyphs
      BY DEF Glyphs, Marks
    <2>2. Larger(MinDigits(m) - Len(body), 0) \in Nat
      <3> HIDE DEF body
      <3>1. Len(body) \in Nat
        BY <1>3
      <3>2. PICK x \in Int : x = MinDigits(m) - Len(body)
        BY <1>8, <3>1
      <3> QED BY <3>2, LargerIs
    <2> QED BY <2>1, <2>2, CopiesAre
  <1>10. Leading(m) \in Seq(Glyphs) /\ Len(Leading(m)) \in Nat
    BY LeadingIs
  <1>11. Printed(m) = Padded(made, Given(m), w)
    <2>1. Magnitude(Num(m), Given(m)) = n
      BY SignIs
    <2>2. Sign(Num(m), Given(m)) \o Prefix(base, Given(m)) = Leading(m)
      BY LeadingIs
    <2>3. r.t = Len(body)
      BY <1>3, <1>4
    <2>4. Printed(m) = number(Num(m), base, Given(m), w, MinDigits(m))
      BY DEF Printed
    <2> HIDE DEF n, base, body, w
    <2> QED BY <2>1, <2>2, <2>3, <2>4 DEF number
  <1>12. Wanted(m) = IF AtLeft(m) THEN all \o Copies(" ", gap)
                     ELSE Copies(IF "ZEROPAD" \in m.flags THEN "0" ELSE " ", gap) \o all
    BY DEF Wanted
  <1> HIDE DEF body, zeros, n, base, w, r
  <1>13. /\ all \in Seq(Glyphs) /\ made \in Seq(Glyphs)
         /\ Len(all) = Len(made) /\ Len(all) \in Nat
    <2>1. Leading(m) \o zeros \in Seq(Glyphs) /\ Len(Leading(m) \o zeros) \in Nat
      BY <1>9, <1>10, JoinedIs
    <2>2. /\ all \in Seq(Glyphs) /\ Len(all) = Len(Leading(m) \o zeros) + Len(body)
      BY <1>3, <2>1, JoinedIs
    <2>3. made \in Seq(Glyphs) /\ Len(made) = Len(Leading(m) \o zeros) + Len(body)
      <3> DEFINE d == Digits(r.x, base, r.t)
      <3>1. d \in Seq(Glyphs) /\ Len(d) = Len(body)
        BY <1>6
      <3> HIDE DEF d
      <3>2. /\ (Leading(m) \o zeros) \o d \in Seq(Glyphs)
            /\ Len((Leading(m) \o zeros) \o d) = Len(Leading(m) \o zeros) + Len(d)
        BY <2>1, <3>1, JoinedIs
      <3> QED BY <3>1, <3>2 DEF d
    <2> QED BY <1>3, <2>1, <2>2, <2>3
  <1>14. Covered(m) => made = all
    BY <1>7
  <1> HIDE DEF all, made
  <1>15. gap \in Nat
    <2>1. w \in Int /\ Len(all) \in Int
      BY <1>8, <1>13
    <2>2. PICK y, z : y = w /\ z = Len(all)
      OBVIOUS
    <2>3. y - z \in Int
      BY <2>1, <2>2
    <2>4. Larger(y - z, 0) \in Nat
      BY <2>3, LargerIs
    <2> QED BY <2>2, <2>4
  <1>16. Printed(m) \in Seq(Glyphs) /\ Len(Printed(m)) = Len(all) + gap
    BY <1>8, <1>11, <1>13, PaddedIs
  <1> HIDE DEF gap
  <1>17. Wanted(m) \in Seq(Glyphs) /\ Len(Wanted(m)) = Len(all) + gap
    <2> DEFINE c == IF "ZEROPAD" \in m.flags THEN "0" ELSE " "
    <2>1. " " \in Glyphs /\ c \in Glyphs
      BY DEF Glyphs, Marks
    <2> HIDE DEF c
    <2>2. /\ Copies(" ", gap) \in Seq(Glyphs) /\ Len(Copies(" ", gap)) = gap
          /\ Copies(c, gap) \in Seq(Glyphs) /\ Len(Copies(c, gap)) = gap
      BY <1>15, <2>1, CopiesAre
    <2>3. /\ all \o Copies(" ", gap) \in Seq(Glyphs) /\ Len(all \o Copies(" ", gap)) = Len(all) + gap
          /\ Copies(c, gap) \o all \in Seq(Glyphs) /\ Len(Copies(c, gap) \o all) = gap + Len(all)
      <3>1. PICK x \in Seq(Glyphs), y \in Seq(Glyphs) :
              x = Copies(" ", gap) /\ y = Copies(c, gap) /\ Len(x) = gap /\ Len(y) = gap
        BY <2>2
      <3>2. all \in Seq(Glyphs)
        BY <1>13
      <3>3. all \o x \in Seq(Glyphs) /\ Len(all \o x) = Len(all) + Len(x)
        BY <3>2, JoinedIs
      <3>4. y \o all \in Seq(Glyphs) /\ Len(y \o all) = Len(y) + Len(all)
        BY <3>2, JoinedIs
      <3> QED BY <3>1, <3>3, <3>4
    <2>4. Wanted(m) = IF AtLeft(m) THEN all \o Copies(" ", gap) ELSE Copies(c, gap) \o all
      BY <1>12 DEF c
    <2>5. gap + Len(all) = Len(all) + gap
      BY <1>13, <1>15
    <2> QED BY <2>3, <2>4, <2>5
  <1>18. Covered(m) => Printed(m) = Wanted(m)
    <2>1. SUFFICES ASSUME Covered(m) PROVE Printed(m) = Wanted(m)
      OBVIOUS
    <2>2. made = all
      BY <1>14, <2>1
    <2>3. "ZEROPAD" \in m.flags => ~AtLeft(m)
      BY <2>1 DEF Covered
    <2>4. ("ZEROPAD" \in Given(m) <=> "ZEROPAD" \in m.flags) /\ ("LEFT" \in Given(m) <=> AtLeft(m))
      BY GivenAre
    <2>5. Printed(m) = LET fill == Copies(IF "ZEROPAD" \in m.flags THEN "0" ELSE " ", gap)
                       IN  IF AtLeft(m) THEN all \o fill ELSE fill \o all
      BY <1>11, <2>2, <2>4 DEF Padded, gap
    <2>6. CASE AtLeft(m)
      BY <1>12, <2>3, <2>5, <2>6
    <2>7. CASE ~AtLeft(m)
      BY <1>12, <2>5, <2>7
    <2> QED BY <2>6, <2>7
  <1> QED BY <1>16, <1>17, <1>18

-----------------------------------------------------------------------------
(* One round of vsprintf for a conversion                                   *)
Spot(i, a, out) == [i |-> i, a |-> a, out |-> out, stored |-> << >>]

LEMMA ConvertedIs ==
  ASSUME NEW m, m.type \in Numbers, Legal(m), NEW fmt, NEW args, NEW c,
         c.flags = Asked(m), c.field_width = Abs(m.field_width), c.precision = m.precision,
         c.l = Ls(m.size), c.h = Hs(m.size), At(fmt, c.at) = m.type,
         args[c.a] = m.value % 2 ^ WORD,
         m.size = <<"l", "l">> => args[c.a + 1] = (m.value \div 2 ^ WORD) % 2 ^ WORD
  PROVE  Converted(fmt, args, c) = [out |-> Printed(m), words |-> Words(Ls(m.size))]
PROOF
  <1>1. /\ m.type \in {"u", "o", "x"} => get_uint(args, c.a, Ls(m.size), Hs(m.size)) = Num(m)
        /\ m.type = "d" => get_int(args, c.a, Ls(m.size), Hs(m.size)) = Num(m)
        /\ m.type = "p" => args[c.a] = Num(m)
    BY ReadValue
  <1>2. Printed(m) = number(Num(m), Base(m), Given(m), Abs(m.field_width), MinDigits(m))
    BY DEF Printed
  <1>3. CASE m.type = "d"
    <2>1. Given(m) = Asked(m) \cup {"SIGNED"} /\ Base(m) = 10 /\ MinDigits(m) = m.precision
      BY <1>3 DEF Given, Base, MinDigits
    <2>2. Converted(fmt, args, c) =
            [out |-> number(get_int(args, c.a, c.l, c.h), 10, c.flags \cup {"SIGNED"},
                            c.field_width, c.precision),
             words |-> Words(c.l)]
      BY <1>3 DEF Converted
    <2> QED BY <1>1, <1>2, <1>3, <2>1, <2>2
  <1>4. CASE m.type \in {"u", "o", "x"}
    <2>1. Given(m) = Asked(m) /\ MinDigits(m) = m.precision
      BY <1>4 DEF Given, MinDigits
    <2>2. Converted(fmt, args, c) =
            [out |-> number(get_uint(args, c.a, c.l, c.h), Base(m), c.flags,
                            c.field_width, c.precision),
             words |-> Words(c.l)]
      BY <1>4 DEF Converted, Base
    <2> QED BY <1>1, <1>2, <1>4, <2>1, <2>2
  <1>5. CASE m.type = "p"
    <2>1. Given(m) = Asked(m) \cup {"SPEC"} /\ Base(m) = 16
      BY <1>5 DEF Given, Base
    <2>2. MinDigits(m) = IF m.precision = 0 THEN WORD \div 4 ELSE m.precision
      BY <1>5 DEF MinDigits
    <2>3. Converted(fmt, args, c) =
            [out |-> number(args[c.a], 16, c.flags \cup {"SPEC"}, c.field_width,
                            IF c.precision = 0 THEN WORD \div 4 ELSE c.precision),
             words |-> 1]
      BY <1>5 DEF Converted
    <2>4. Words(Ls(m.size)) = 1
      <3>1. m.size = << >>
        BY <1>5, NumberIs
      <3> QED BY <3>1 DEF Ls, Words
    <2> QED BY <1>1, <1>2, <1>5, <2>1, <2>2, <2>3, <2>4
  <1> QED BY <1>3, <1>4, <1>5 DEF Numbers

LEMMA RoundNumber ==
  ASSUME NEW m, m.type \in Numbers, Legal(m), NEW fmt \in Seq(Glyphs), NEW args, NEW i, NEW a, NEW out,
         Stands(fmt, i, Spelling(m)), Stands(args, a, Arguments(m))
  PROVE  FormatRound(fmt, args, Spot(i, a, out)) =
           Spot(i + Len(Spelling(m)), a + Len(Arguments(m)), out \o Printed(m))
PROOF
  <1> DEFINE c == Conversion(fmt, i, args, a)
             n == Len(Spelling(m))
  <1>1. /\ a \in Nat
        /\ m.star => args[a] = m.field_width % 2 ^ WORD /\ args[a + 1] = m.precision
        /\ args[FirstWord(m, a)] = m.value % 2 ^ WORD
        /\ m.size = <<"l", "l">> => args[FirstWord(m, a) + 1] = (m.value \div 2 ^ WORD) % 2 ^ WORD
        /\ Len(Arguments(m)) = Taken(m)
    <2>1. Len(Arguments(m)) = Taken(m)
      BY ArgumentsParts
    <2>2. \A q, b : Stands(q, b, Arguments(m)) =>
            LET f == FirstWord(m, b) IN
            /\ b \in Nat
            /\ m.star => q[b] = m.field_width % 2 ^ WORD /\ q[b + 1] = m.precision
            /\ q[f] = m.value % 2 ^ WORD
            /\ m.size = <<"l", "l">> => q[f + 1] = (m.value \div 2 ^ WORD) % 2 ^ WORD
      BY ArgumentsParts
    <2> QED BY <2>1, <2>2
  <1>2. /\ c = [flags |-> Asked(m), field_width |-> Abs(m.field_width), precision |-> m.precision,
                l |-> Ls(m.size), h |-> Hs(m.size), at |-> i + n - 1, a |-> FirstWord(m, a)]
        /\ fmt[i] = "%" /\ At(fmt, i) = "%" /\ At(fmt, i + n - 1) = m.type
    BY <1>1, ConversionIs DEF Asked
  <1> HIDE DEF c
  <1>3. Converted(fmt, args, c) = [out |-> Printed(m), words |-> Words(Ls(m.size))]
    <2>1. /\ c.flags = Asked(m) /\ c.field_width = Abs(m.field_width) /\ c.precision = m.precision
          /\ c.l = Ls(m.size) /\ c.h = Hs(m.size) /\ At(fmt, c.at) = m.type /\ c.a = FirstWord(m, a)
      BY <1>2
    <2> QED BY <1>1, <2>1, ConvertedIs
  <1>4. m.type # "n"
    BY DEF Numbers
  <1>5. i \in Nat /\ n \in Nat
    <2>1. Spelling(m) \in Seq(Glyphs)
      BY SpellingParts
    <2> QED BY <2>1 DEF Stands
  <1>6. FormatRound(fmt, args, Spot(i, a, out)) =
          [i |-> c.at + 1, a |-> c.a + Words(Ls(m.size)), out |-> out \o Printed(m), stored |-> << >>]
    <2> DEFINE s == Spot(i, a, out)
               r == Converted(fmt, args, c)
    <2>1. s.i = i /\ s.a = a /\ s.out = out /\ s.stored = << >>
      BY DEF Spot
    <2>2. At(fmt, c.at) # "n"
      BY <1>2, <1>4
    <2>3. c = Conversion(fmt, s.i, args, s.a)
      BY <2>1 DEF c
    <2>4. At(fmt, s.i) # "NUL" /\ fmt[s.i] = "%"
      BY <1>2, <2>1
    <2>5. r.out = Printed(m) /\ r.words = Words(Ls(m.size))
      BY <1>3
    <2> HIDE DEF s, r
    <2>6. FormatRound(fmt, args, s) =
            [i |-> c.at + 1, a |-> c.a + r.words, out |-> s.out \o r.out,
             stored |-> IF At(fmt, c.at) = "n" THEN Append(s.stored, <<args[c.a], Len(s.out)>>)
                        ELSE s.stored]
      BY <2>3, <2>4 DEF FormatRound, r
    <2> QED BY <2>1, <2>2, <2>5, <2>6 DEF s
  <1>7. c.at + 1 = i + n /\ c.a + Words(Ls(m.size)) = a + Taken(m)
    <2>1. c.at = i + n - 1 /\ c.a = FirstWord(m, a)
      BY <1>2
    <2>2. Words(Ls(m.size)) \in Nat
      BY DEF Words
    <2>3. PICK x \in Nat : x = Words(Ls(m.size))
      BY <2>2
    <2>4. c.at + 1 = i + n
      BY <1>5, <2>1
    <2>5. c.a + x = a + Taken(m)
      BY <1>1, <2>1, <2>3 DEF FirstWord, Taken
    <2> QED BY <2>3, <2>4, <2>5
  <1> QED BY <1>1, <1>6, <1>7 DEF Spot

-----------------------------------------------------------------------------
(* A string, a character, and text                                          *)
Words1 == Nat \cup STRING \cup Seq(STRING)

LEMMA PlainIs ==
  ASSUME NEW m, m.type \in {"c", "s"}, Legal(m)
  PROVE  /\ Spelling(m) = <<"%", m.type>> /\ Spelling(m) \in Seq(Glyphs) /\ Len(Spelling(m)) = 2
         /\ Arguments(m) = (IF m.type = "c" THEN m.value ELSE <<m.value>>)
         /\ Arguments(m) \in Seq(Words1) /\ Len(Arguments(m)) = 1
         /\ m.value \in Seq(Glyphs)
         /\ m.type = "c" => <<m.value[1]>> = m.value
         /\ Printed(m) = m.value /\ Wanted(m) = m.value /\ Covered(m)
PROOF
  <1>1. m.type \notin Numbers /\ m.type # "text"
    BY DEF Numbers
  <1>2. Spelling(m) = <<"%", m.type>>
    BY <1>1, Zenon DEF Spelling
  <1>3. "%" \in Glyphs /\ m.type \in Glyphs
    BY DEF Glyphs, Marks
  <1>4. Spelling(m) \in Seq(Glyphs)
    BY <1>2, <1>3, ShortSeqs
  <1>5. Len(Spelling(m)) = 2
    BY <1>2
  <1>6. Printed(m) = m.value /\ Wanted(m) = m.value /\ Covered(m)
    BY <1>1 DEF Printed, Wanted, Covered
  <1>7. STRING \subseteq Glyphs /\ STRING \subseteq Words1 /\ Seq(STRING) \subseteq Words1
        /\ STRING \ {"NUL"} \subseteq STRING
    BY DEF Glyphs, Words1
  <1>8. CASE m.type = "c"
    <2>1. m.value \in Seq(STRING) /\ Len(m.value) = 1
      BY <1>1, <1>8, Zenon DEF Legal
    <2>2. Arguments(m) = m.value
      BY <1>1, <1>8, Zenon DEF Arguments
    <2>3. m.value \in Seq(Words1) /\ m.value \in Seq(Glyphs)
      BY <1>7, <2>1, SeqWider
    <2>4. <<m.value[1]>> = m.value
      <3>1. PICK v \in Seq(STRING) : v = m.value /\ Len(v) = 1
        BY <2>1
      <3>2. v = <<v[1]>>
        BY <3>1
      <3> QED BY <3>1, <3>2
    <2> QED BY <1>2, <1>4, <1>5, <1>6, <1>8, <2>1, <2>2, <2>3, <2>4
  <1>9. CASE m.type = "s"
    <2>1. m.value \in Seq(STRING \ {"NUL"})
      BY <1>1, <1>9, Zenon DEF Legal
    <2>2. m.value \in Seq(STRING) /\ m.value \in Seq(Glyphs)
      <3>1. m.value \in Seq(STRING)
        BY <1>7, <2>1, SeqWider
      <3> QED BY <1>7, <3>1, SeqWider
    <2>3. Arguments(m) = <<m.value>>
      BY <1>1, <1>9, Zenon DEF Arguments
    <2>4. m.value \in Words1
      BY <1>7, <2>2
    <2>5. <<m.value>> \in Seq(Words1) /\ Len(<<m.value>>) = 1
      BY <2>4, ShortSeqs
    <2> QED BY <1>2, <1>4, <1>5, <1>6, <1>9, <2>2, <2>3, <2>5
  <1> QED BY <1>8, <1>9

LEMMA TextIs ==
  ASSUME NEW m, m.type = "text", Legal(m)
  PROVE  /\ Spelling(m) = m.value /\ m.value \in Seq(STRING \ {"%", "NUL"}) /\ m.value \in Seq(Glyphs)
         /\ Arguments(m) = << >>
         /\ Printed(m) = m.value /\ Wanted(m) = m.value /\ Covered(m)
PROOF
  <1>1. m.type \notin Numbers /\ m.type \notin {"c", "s"}
    BY DEF Numbers
  <1>2. Spelling(m) = m.value /\ Arguments(m) = << >>
    BY <1>1, Zenon DEF Spelling, Arguments
  <1>3. m.value \in Seq(STRING \ {"%", "NUL"})
    BY <1>1, Zenon DEF Legal
  <1>4. m.value \in Seq(Glyphs)
    <2>1. STRING \ {"%", "NUL"} \subseteq Glyphs
      BY DEF Glyphs
    <2> QED BY <1>3, <2>1, SeqWider
  <1>5. Printed(m) = m.value /\ Wanted(m) = m.value /\ Covered(m)
    BY <1>1 DEF Printed, Wanted, Covered
  <1> QED BY <1>2, <1>3, <1>4, <1>5

LEMMA PlainConversion ==
  ASSUME NEW fmt \in Seq(Glyphs), NEW i \in 1 .. Len(fmt), NEW t \in {"c", "s"},
         At(fmt, i + 1) = t, i + 1 <= Len(fmt), NEW args, NEW a
  PROVE  Conversion(fmt, i, args, a).at = i + 1 /\ Conversion(fmt, i, args, a).a = a
PROOF
  <1> DEFINE none == [n |-> 0, i |-> i + 1, a |-> a]
  <1>1. t \notin FlagChars /\ t \notin IsDigit /\ t # "*" /\ t # "." /\ t \notin {"l", "h"}
    BY NoDigits DEF FlagChars
  <1>2. Len(fmt) \in Nat /\ i + 1 \in Nat /\ i + 1 \in i + 1 .. Len(fmt) + 1
    OBVIOUS
  <1>3. \A k \in i + 1 .. (i + 1) - 1 : FALSE
    BY <1>2
  <1>4. Past(fmt, i + 1, FlagChars) = i + 1 /\ Past(fmt, i + 1, {"l", "h"}) = i + 1
    BY <1>1, <1>2, <1>3, PastIs
  <1>5. Field(fmt, i + 1, args, a) = none
    BY <1>1 DEF Field
  <1>6. [none EXCEPT !.n = 0] = none /\ none.n = 0 /\ none.i = i + 1 /\ none.a = a
    OBVIOUS
  <1> DEFINE f == Past(fmt, i + 1, FlagChars)
             width == Field(fmt, f, args, a)
             prec == IF At(fmt, width.i) = "." THEN Field(fmt, width.i + 1, args, width.a)
                     ELSE [width EXCEPT !.n = 0]
  <1>7. width = none /\ prec = none
    BY <1>1, <1>4, <1>5, <1>6
  <1>8. Conversion(fmt, i, args, a).at = Past(fmt, prec.i, {"l", "h"})
        /\ Conversion(fmt, i, args, a).a = prec.a
    BY DEF Conversion
  <1> HIDE DEF none, prec
  <1> QED BY <1>4, <1>6, <1>7, <1>8

LEMMA RoundPlain ==
  ASSUME NEW m, m.type \in {"c", "s"}, Legal(m), NEW fmt \in Seq(Glyphs), NEW args, NEW i, NEW a, NEW out,
         Stands(fmt, i, Spelling(m)), Stands(args, a, Arguments(m))
  PROVE  FormatRound(fmt, args, Spot(i, a, out)) =
           Spot(i + Len(Spelling(m)), a + Len(Arguments(m)), out \o Printed(m))
PROOF
  <1> DEFINE c == Conversion(fmt, i, args, a)
             r == Converted(fmt, args, c)
             s == Spot(i, a, out)
  <1>1. /\ Spelling(m) = <<"%", m.type>> /\ Len(Spelling(m)) = 2 /\ Len(Arguments(m)) = 1
        /\ Arguments(m) = (IF m.type = "c" THEN m.value ELSE <<m.value>>)
        /\ Printed(m) = m.value
    BY PlainIs
  <1>2. m.type = "c" => <<m.value[1]>> = m.value
    BY PlainIs
  <1>3. /\ i \in Nat \ {0} /\ i + 2 <= Len(fmt) + 1 /\ Len(fmt) \in Nat
        /\ fmt[i] = "%" /\ fmt[i + 1] = m.type
    <2>1. PICK q : q = Spelling(m)
      OBVIOUS
    <2>2. q = <<"%", m.type>> /\ Stands(fmt, i, q) /\ Len(q) = 2
      BY <1>1, <2>1
    <2>3. /\ i \in Nat \ {0} /\ Len(fmt) \in Nat /\ i + 2 <= Len(fmt) + 1
          /\ \A k \in 1 .. 2 : fmt[i + k - 1] = q[k]
      BY <2>2 DEF Stands
    <2>4. fmt[i + 1 - 1] = q[1] /\ fmt[i + 2 - 1] = q[2] /\ i + 1 - 1 = i /\ i + 2 - 1 = i + 1
      BY <2>3
    <2>5. q[1] = "%" /\ q[2] = m.type
      BY <2>2
    <2> QED BY <2>3, <2>4, <2>5
  <1>4. i \in 1 .. Len(fmt) /\ i + 1 \in 1 .. Len(fmt) /\ i + 1 <= Len(fmt)
        /\ At(fmt, i) = "%" /\ At(fmt, i + 1) = m.type
    BY <1>3 DEF At
  <1>5. c.at = i + 1 /\ c.a = a
    BY <1>4, PlainConversion
  <1>6. a \in Nat /\ args[a] = Arguments(m)[1]
    <2>1. PICK q : q = Arguments(m)
      OBVIOUS
    <2>2. Stands(args, a, q) /\ Len(q) = 1
      BY <1>1, <2>1
    <2>3. a \in Nat /\ \A k \in 1 .. 1 : args[a + k - 1] = q[k]
      BY <2>2 DEF Stands
    <2>4. args[a + 1 - 1] = q[1] /\ a + 1 - 1 = a
      BY <2>3
    <2> QED BY <2>1, <2>3, <2>4
  <1>7. r = [out |-> m.value, words |-> 1]
    <2>1. At(fmt, c.at) = m.type
      BY <1>4, <1>5
    <2>2. CASE m.type = "c"
      <3>1. r = [out |-> <<args[c.a]>>, words |-> 1]
        BY <2>1, <2>2 DEF Converted
      <3>2. args[a] = m.value[1]
        BY <1>1, <1>6, <2>2
      <3>3. <<args[c.a]>> = m.value
        BY <1>2, <1>5, <2>2, <3>2
      <3> QED BY <3>1, <3>3
    <2>3. CASE m.type = "s"
      <3>1. r = [out |-> args[c.a], words |-> 1]
        BY <2>1, <2>3 DEF Converted
      <3>2. Arguments(m) = <<m.value>>
        BY <1>1, <2>3
      <3>3. args[a] = m.value
        BY <1>6, <3>2
      <3> QED BY <1>5, <3>1, <3>3
    <2> QED BY <2>2, <2>3
  <1>8. s.i = i /\ s.a = a /\ s.out = out /\ s.stored = << >>
    BY DEF Spot
  <1>9. At(fmt, c.at) # "n"
    BY <1>4, <1>5
  <1>10. c = Conversion(fmt, s.i, args, s.a)
    BY <1>8
  <1>11. At(fmt, s.i) # "NUL" /\ fmt[s.i] = "%"
    BY <1>3, <1>4, <1>8
  <1> HIDE DEF c, s, r
  <1>12. FormatRound(fmt, args, s) =
           [i |-> c.at + 1, a |-> c.a + r.words, out |-> s.out \o r.out,
            stored |-> IF At(fmt, c.at) = "n" THEN Append(s.stored, <<args[c.a], Len(s.out)>>)
                       ELSE s.stored]
    BY <1>10, <1>11 DEF FormatRound, r
  <1>13. c.at + 1 = i + 2 /\ c.a + r.words = a + 1 /\ s.out \o r.out = out \o m.value
    BY <1>3, <1>5, <1>7, <1>8
  <1>14. FormatRound(fmt, args, s) = Spot(i + 2, a + 1, out \o m.value)
    BY <1>8, <1>9, <1>12, <1>13 DEF Spot
  <1> QED BY <1>1, <1>14 DEF s

LEMMA RoundText ==
  ASSUME NEW fmt, NEW args, NEW i, NEW a, NEW out, i \in DOMAIN fmt, fmt[i] \notin {"%", "NUL"}
  PROVE  FormatRound(fmt, args, Spot(i, a, out)) = Spot(i + 1, a, Append(out, fmt[i]))
PROOF
  <1>1. At(fmt, i) = fmt[i]
    BY DEF At
  <1> QED BY <1>1 DEF FormatRound, Spot

LEMMA RoundEnd ==
  ASSUME NEW fmt, NEW args, NEW i, NEW a, NEW out, i \notin DOMAIN fmt
  PROVE  FormatRound(fmt, args, Spot(i, a, out)) = Spot(i, a, out)
PROOF
  <1>1. At(fmt, i) = "NUL"
    BY DEF At
  <1> QED BY <1>1 DEF FormatRound, Spot

-----------------------------------------------------------------------------
(* The rounds of vsprintf                                                   *)
Rounds(at, fmt, args) ==
  at[0] = Spot(1, 1, << >>) /\ \A k \in 1 .. Len(fmt) : at[k] = FormatRound(fmt, args, at[k - 1])

LEMMA RoundsExist ==
  ASSUME NEW fmt, Len(fmt) \in Nat, NEW args
  PROVE  \E at : Rounds(at, fmt, args)
PROOF
  <1> DEFINE N == Len(fmt)
             Some(at, j) == /\ at[0] = Spot(1, 1, << >>)
                            /\ \A k \in 1 .. j : at[k] = FormatRound(fmt, args, at[k - 1])
             T == {j \in 0 .. N : \E at : Some(at, j)}
  <1>1. 0 \in T
    <2>1. Some([k \in {0} |-> Spot(1, 1, << >>)], 0)
      OBVIOUS
    <2>2. \E at : Some(at, 0)
      BY <2>1, Zenon
    <2>3. 0 \in 0 .. N
      OBVIOUS
    <2> HIDE DEF Some
    <2> QED BY <2>2, <2>3, Zenon
  <1>2. ASSUME NEW j \in 0 .. N, j # N, j \in T
        PROVE  j + 1 \in T
    <2>1. PICK at : Some(at, j)
      BY <1>2
    <2> DEFINE g == [k \in 0 .. j + 1 |-> IF k = j + 1 THEN FormatRound(fmt, args, at[j]) ELSE at[k]]
    <2>2. g[0] = Spot(1, 1, << >>)
      BY <2>1
    <2>3. \A k \in 1 .. j + 1 : g[k] = FormatRound(fmt, args, g[k - 1])
      BY <2>1
    <2>4. j + 1 \in 0 .. N
      BY <1>2
    <2> HIDE DEF g
    <2> QED BY <2>2, <2>3, <2>4
  <1>3. N \in T
    <2>1. N \in 0 .. N
      OBVIOUS
    <2> HIDE DEF T
    <2> QED BY <1>1, <1>2, <2>1, Upwards
  <1> QED BY <1>3 DEF Rounds

LEMMA VsprintfIs ==
  ASSUME NEW fmt, Len(fmt) \in Nat, NEW args
  PROVE  \E at : Rounds(at, fmt, args) /\ vsprintf(fmt, args) = at[Len(fmt)]
PROOF
  <1> DEFINE N == Len(fmt)
             Is(g) == g = [k \in 0 .. N |-> IF k = 0 THEN [i |-> 1, a |-> 1, out |-> << >>, stored |-> << >>]
                                            ELSE FormatRound(fmt, args, g[k - 1])]
             w == CHOOSE g : Is(g)
  <1>1. PICK at : Rounds(at, fmt, args)
    BY RoundsExist
  <1>2. PICK g : g = [k \in 0 .. N |-> at[k]]
    OBVIOUS
  <1>3. Is(g)
    <2>1. ASSUME NEW k \in 0 .. N
          PROVE  g[k] = IF k = 0 THEN [i |-> 1, a |-> 1, out |-> << >>, stored |-> << >>]
                        ELSE FormatRound(fmt, args, g[k - 1])
      <3>1. CASE k = 0
        BY <1>1, <1>2, <3>1 DEF Rounds, Spot
      <3>2. CASE k # 0
        <4>1. k \in 1 .. N /\ k - 1 \in 0 .. N
          BY <3>2
        <4>2. g[k] = at[k] /\ g[k - 1] = at[k - 1]
          BY <1>2, <4>1
        <4>3. at[k] = FormatRound(fmt, args, at[k - 1])
          BY <1>1, <4>1 DEF Rounds
        <4> QED BY <3>2, <4>2, <4>3
      <3> QED BY <3>1, <3>2
    <2>2. g = [k \in 0 .. N |-> g[k]]
      BY <1>2
    <2> QED BY <2>1, <2>2
  <1>4. Is(w)
    <2> HIDE DEF Is
    <2> QED BY <1>3, Zenon
  <1>5. vsprintf(fmt, args) = w[N]
    BY Zenon DEF vsprintf
  <1> HIDE DEF w
  <1>6. w[0] = Spot(1, 1, << >>)
    BY <1>4 DEF Spot
  <1>7. \A k \in 1 .. N : w[k] = FormatRound(fmt, args, w[k - 1])
    BY <1>4
  <1> QED BY <1>5, <1>6, <1>7 DEF Rounds

LEMMA JoinedAs ==
  ASSUME NEW S, NEW s \in Seq(S), NEW t \in Seq(S)
  PROVE  s \o t = [k \in 1 .. Len(s) + Len(t) |-> IF k <= Len(s) THEN s[k] ELSE t[k - Len(s)]]
PROOF
  <1>1. /\ s \o t \in Seq(S) /\ Len(s \o t) = Len(s) + Len(t) /\ Len(s) \in Nat /\ Len(t) \in Nat
        /\ \A i \in 1 .. Len(s) : (s \o t)[i] = s[i]
        /\ \A i \in 1 .. Len(t) : (s \o t)[Len(s) + i] = t[i]
    BY JoinedIs
  <1>2. PICK q : q = s \o t
    OBVIOUS
  <1>3. q = [k \in 1 .. Len(s) + Len(t) |-> q[k]]
    <2>1. q \in Seq(S) /\ Len(q) = Len(s) + Len(t)
      BY <1>1, <1>2
    <2>2. q = [k \in 1 .. Len(q) |-> q[k]]
      BY <2>1
    <2> QED BY <2>1, <2>2
  <1>4. ASSUME NEW k \in 1 .. Len(s) + Len(t)
        PROVE  q[k] = IF k <= Len(s) THEN s[k] ELSE t[k - Len(s)]
    <2>1. CASE k <= Len(s)
      BY <1>1, <1>2, <2>1
    <2>2. CASE ~(k <= Len(s))
      <3>1. k - Len(s) \in 1 .. Len(t) /\ Len(s) + (k - Len(s)) = k
        BY <1>1, <2>2
      <3>2. (s \o t)[Len(s) + (k - Len(s))] = t[k - Len(s)]
        BY <1>1, <3>1
      <3> QED BY <1>2, <2>2, <3>1, <3>2
    <2> QED BY <2>1, <2>2
  <1> QED BY <1>2, <1>3, <1>4

LEMMA PartRounds ==
  ASSUME NEW m, Legal(m), NEW fmt \in Seq(Glyphs), NEW args, NEW at, Rounds(at, fmt, args),
         NEW i, NEW a, NEW out \in Seq(Glyphs), NEW r \in Nat,
         Stands(fmt, i, Spelling(m)), Stands(args, a, Arguments(m)), r < i, at[r] = Spot(i, a, out)
  PROVE  \E k \in Nat : /\ k < i + Len(Spelling(m))
                        /\ at[k] = Spot(i + Len(Spelling(m)), a + Len(Arguments(m)), out \o Printed(m))
PROOF
  <1>1. i \in Nat \ {0} /\ Len(fmt) \in Nat /\ i + Len(Spelling(m)) <= Len(fmt) + 1
    BY DEF Stands
  <1>2. ASSUME Len(Spelling(m)) \in Nat, Len(Spelling(m)) >= 1,
               FormatRound(fmt, args, Spot(i, a, out)) =
                 Spot(i + Len(Spelling(m)), a + Len(Arguments(m)), out \o Printed(m))
        PROVE  at[r + 1] = Spot(i + Len(Spelling(m)), a + Len(Arguments(m)), out \o Printed(m))
               /\ r + 1 \in Nat /\ r + 1 < i + Len(Spelling(m))
    <2>1. r + 1 \in 1 .. Len(fmt) /\ (r + 1) - 1 = r /\ r + 1 < i + Len(Spelling(m))
      BY <1>1, <1>2
    <2>2. at[r + 1] = FormatRound(fmt, args, at[(r + 1) - 1])
      BY <2>1 DEF Rounds
    <2> QED BY <1>2, <2>1, <2>2
  <1>3. CASE m.type \in Numbers
    <2>1. FormatRound(fmt, args, Spot(i, a, out)) =
            Spot(i + Len(Spelling(m)), a + Len(Arguments(m)), out \o Printed(m))
      <3>1. Nat \subseteq Nat
        OBVIOUS
      <3> QED BY <1>3, <3>1, RoundNumber
    <2>2. Len(Spelling(m)) \in Nat /\ Len(Spelling(m)) >= 1
      <3>1. /\ Len(Spelling(m)) = 1 + Len(Flagged(m)) + Len(Fields(m)) + Len(m.size) + 1
            /\ Flagged(m) \in Seq(FlagChars) /\ Fields(m) \in Seq(Glyphs) /\ m.size \in AllSizes
        BY <1>3, SpellingParts, NumberIs
      <3>2. Len(m.size) \in Nat
        BY <3>1, SizesAre
      <3>3. Len(Flagged(m)) \in Nat /\ Len(Fields(m)) \in Nat
        BY <3>1, JoinedIs
      <3>4. PICK n, x, y : /\ n = Len(Flagged(m)) /\ x = Len(Fields(m)) /\ y = Len(m.size)
        OBVIOUS
      <3>5. n \in Nat /\ x \in Nat /\ y \in Nat /\ Len(Spelling(m)) = 1 + n + x + y + 1
        BY <3>1, <3>2, <3>3, <3>4
      <3> QED BY <3>5
    <2> QED BY <1>2, <2>1, <2>2
  <1>4. CASE m.type \in {"c", "s"}
    <2>1. FormatRound(fmt, args, Spot(i, a, out)) =
            Spot(i + Len(Spelling(m)), a + Len(Arguments(m)), out \o Printed(m))
      BY <1>4, RoundPlain
    <2>2. Len(Spelling(m)) = 2
      BY <1>4, PlainIs
    <2> QED BY <1>2, <2>1, <2>2
  <1>5. CASE m.type = "text"
    <2> DEFINE v == m.value
               L == Len(v)
               w(j) == [k \in 1 .. Len(out) + j |-> IF k <= Len(out) THEN out[k] ELSE v[k - Len(out)]]
               T == {j \in 0 .. L : at[r + j] = Spot(i + j, a, w(j))}
    <2>1. /\ Spelling(m) = v /\ v \in Seq(STRING \ {"%", "NUL"}) /\ Arguments(m) = << >>
          /\ Printed(m) = v /\ v \in Seq(Glyphs)
      BY <1>5, TextIs
    <2>2. L \in Nat /\ Len(out) \in Nat /\ Stands(fmt, i, v) /\ a \in Nat
      BY <2>1 DEF Stands
    <2> HIDE DEF v
    <2>3. w(0) = out
      BY <2>2
    <2>4. w(L) = out \o v
      <3>1. v \in Seq(Glyphs)
        BY <2>1
      <3> QED BY <2>2, <3>1, JoinedAs
    <2>5. ASSUME NEW j \in 0 .. L, j # L
          PROVE  Append(w(j), v[j + 1]) = w(j + 1)
      BY <2>1, <2>2, <2>5
    <2> HIDE DEF w
    <2>6. 0 \in T
      <3>1. r + 0 = r /\ i + 0 = i
        BY <1>1
      <3> QED BY <2>2, <2>3, <3>1
    <2>7. ASSUME NEW j \in 0 .. L, j # L, j \in T
          PROVE  j + 1 \in T
      <3>1. at[r + j] = Spot(i + j, a, w(j))
        BY <2>7
      <3>2. j + 1 \in 1 .. L /\ i + (j + 1) - 1 = i + j /\ i + j \in 1 .. Len(fmt)
        BY <1>1, <2>1, <2>2, <2>7
      <3>3. fmt[i + j] = v[j + 1]
        BY <2>2, <3>2 DEF Stands
      <3>4. v[j + 1] \notin {"%", "NUL"}
        BY <2>1, <3>2
      <3>5. DOMAIN fmt = 1 .. Len(fmt)
        OBVIOUS
      <3>6. FormatRound(fmt, args, Spot(i + j, a, w(j))) = Spot((i + j) + 1, a, Append(w(j), fmt[i + j]))
        BY <3>2, <3>3, <3>4, <3>5, RoundText
      <3>7. r + (j + 1) \in 1 .. Len(fmt) /\ (r + (j + 1)) - 1 = r + j /\ (i + j) + 1 = i + (j + 1)
            /\ j + 1 \in 0 .. L
        BY <1>1, <3>2
      <3>8. at[r + (j + 1)] = FormatRound(fmt, args, at[r + j])
        <4>1. at[r + (j + 1)] = FormatRound(fmt, args, at[(r + (j + 1)) - 1])
          BY <3>7 DEF Rounds
        <4> QED BY <3>7, <4>1
      <3>9. Append(w(j), fmt[i + j]) = w(j + 1)
        BY <2>5, <2>7, <3>3
      <3>10. at[r + (j + 1)] = Spot(i + (j + 1), a, w(j + 1))
        BY <3>1, <3>6, <3>7, <3>8, <3>9
      <3> QED BY <3>7, <3>10
    <2>8. L \in T
      <3>1. L \in 0 .. L
        BY <2>2
      <3> HIDE DEF T
      <3> QED BY <2>2, <2>6, <2>7, <3>1, Upwards
    <2>9. at[r + L] = Spot(i + L, a, out \o v)
      BY <2>4, <2>8
    <2>10. r + L \in Nat /\ r + L < i + L /\ a + 0 = a /\ Len(<< >>) = 0
      BY <1>1, <2>2
    <2> QED BY <2>1, <2>9, <2>10
  <1>6. m.type \in Numbers \/ m.type \in {"c", "s"} \/ m.type = "text"
    <2>1. SUFFICES ASSUME m.type \notin Numbers, m.type \notin {"c", "s"}, m.type # "text"
                   PROVE  FALSE
      OBVIOUS
    <2>2. Legal(m) = FALSE
      BY <2>1, Zenon DEF Legal
    <2> QED BY <2>2
  <1> QED BY <1>2, <1>3, <1>4, <1>5, <1>6

-----------------------------------------------------------------------------
(* A whole message                                                          *)
Sound(m, N) == N \in Nat /\ DOMAIN m = 1 .. N /\ \A k \in 1 .. N : Legal(m[k])

LEMMA PartIs ==
  ASSUME NEW m, Legal(m)
  PROVE  /\ Spelling(m) \in Seq(Glyphs) /\ Arguments(m) \in Seq(Words1)
         /\ Printed(m) \in Seq(Glyphs) /\ Wanted(m) \in Seq(Glyphs)
         /\ Len(Printed(m)) = Len(Wanted(m))
         /\ Covered(m) => Printed(m) = Wanted(m)
PROOF
  <1>1. CASE m.type \in Numbers
    <2>1. Nat \subseteq Words1
      BY DEF Words1
    <2>2. Arguments(m) \in Seq(Words1)
      BY <1>1, <2>1, ArgumentsParts
    <2>3. Spelling(m) \in Seq(Glyphs)
      BY <1>1, SpellingParts
    <2> QED BY <1>1, <2>2, <2>3, PrintedNumber
  <1>2. CASE m.type \in {"c", "s"}
    BY <1>2, PlainIs
  <1>3. CASE m.type = "text"
    <2>1. Arguments(m) \in Seq(Words1)
      <3>1. Arguments(m) = << >> /\ << >> \in Seq(Words1)
        BY <1>3, TextIs
      <3> QED BY <3>1
    <2> QED BY <1>3, <2>1, TextIs
  <1>4. m.type \in Numbers \/ m.type \in {"c", "s"} \/ m.type = "text"
    <2>1. SUFFICES ASSUME m.type \notin Numbers, m.type \notin {"c", "s"}, m.type # "text"
                   PROVE  FALSE
      OBVIOUS
    <2>2. Legal(m) = FALSE
      BY <2>1, Zenon DEF Legal
    <2> QED BY <2>2
  <1> QED BY <1>1, <1>2, <1>3, <1>4

LEMMA LastStays ==
  ASSUME NEW fmt \in Seq(Glyphs), NEW args, NEW at, Rounds(at, fmt, args),
         NEW r \in Nat, r <= Len(fmt), NEW a, NEW out, at[r] = Spot(Len(fmt) + 1, a, out)
  PROVE  at[Len(fmt)] = at[r]
PROOF
  <1> DEFINE L == Len(fmt)
             T == {j \in 0 .. L - r : at[r + j] = at[r]}
  <1>1. L \in Nat /\ L - r \in Nat
    OBVIOUS
  <1>2. 0 \in T
    BY <1>1
  <1>3. ASSUME NEW j \in 0 .. L - r, j # L - r, j \in T
        PROVE  j + 1 \in T
    <2>1. r + (j + 1) \in 1 .. L /\ (r + (j + 1)) - 1 = r + j /\ j + 1 \in 0 .. L - r
      BY <1>1, <1>3
    <2>2. at[r + (j + 1)] = FormatRound(fmt, args, at[r + j])
      <3>1. at[r + (j + 1)] = FormatRound(fmt, args, at[(r + (j + 1)) - 1])
        BY <2>1 DEF Rounds
      <3> QED BY <2>1, <3>1
    <2>3. at[r + j] = Spot(L + 1, a, out)
      BY <1>3
    <2>4. L + 1 \notin DOMAIN fmt
      OBVIOUS
    <2>5. FormatRound(fmt, args, Spot(L + 1, a, out)) = Spot(L + 1, a, out)
      BY <2>4, RoundEnd
    <2> QED BY <2>1, <2>2, <2>3, <2>5
  <1>4. L - r \in T
    <2>1. L - r \in 0 .. L - r
      BY <1>1
    <2> HIDE DEF T, L
    <2> QED BY <1>1, <1>2, <1>3, <2>1, Upwards
  <1>5. r + (L - r) = L
    BY <1>1
  <1> QED BY <1>4, <1>5

LEMMA MessagePrinted ==
  ASSUME NEW m, NEW N, Sound(m, N),
         NEW fmt, fmt = FlattenSeq([k \in DOMAIN m |-> Spelling(m[k])]),
         NEW args, args = FlattenSeq([k \in DOMAIN m |-> Arguments(m[k])])
  PROVE  vsprintf(fmt, args).out = FlattenSeq([k \in DOMAIN m |-> Printed(m[k])])
PROOF
  <1> DEFINE spelt == [k \in 1 .. N |-> Spelling(m[k])]
             given == [k \in 1 .. N |-> Arguments(m[k])]
             made  == [k \in 1 .. N |-> Printed(m[k])]
  <1>1. N \in Nat /\ DOMAIN m = 1 .. N /\ \A k \in 1 .. N : Legal(m[k])
    BY DEF Sound
  <1>2. /\ spelt \in [1 .. N -> Seq(Glyphs)] /\ given \in [1 .. N -> Seq(Words1)]
        /\ made \in [1 .. N -> Seq(Glyphs)]
    BY <1>1, PartIs
  <1>3. /\ \A k \in 1 .. N : /\ spelt[k] = Spelling(m[k]) /\ given[k] = Arguments(m[k])
                             /\ made[k] = Printed(m[k])
    OBVIOUS
  <1>4. fmt = FlattenSeq(spelt) /\ args = FlattenSeq(given)
        /\ FlattenSeq([k \in DOMAIN m |-> Printed(m[k])]) = FlattenSeq(made)
    BY <1>1
  <1> HIDE DEF spelt, given, made
  <1>5. PICK f : Pieces(f, N, spelt) /\ fmt = f[N]
    <2>1. N \in Nat /\ spelt \in [1 .. N -> Seq(Glyphs)]
      BY <1>1, <1>2
    <2>2. \E at : Pieces(at, N, spelt) /\ FlattenSeq(spelt) = at[N]
      BY <2>1, FlattenIs
    <2> QED BY <1>4, <2>2
  <1>6. PICK g : Pieces(g, N, given) /\ args = g[N]
    <2>1. N \in Nat /\ given \in [1 .. N -> Seq(Words1)]
      BY <1>1, <1>2
    <2>2. \E at : Pieces(at, N, given) /\ FlattenSeq(given) = at[N]
      BY <2>1, FlattenIs
    <2> QED BY <1>4, <2>2
  <1>7. PICK o : Pieces(o, N, made) /\ FlattenSeq(made) = o[N]
    <2>1. N \in Nat /\ made \in [1 .. N -> Seq(Glyphs)]
      BY <1>1, <1>2
    <2>2. \E at : Pieces(at, N, made) /\ FlattenSeq(made) = at[N]
      BY <2>1, FlattenIs
    <2> QED BY <1>4, <2>2
  <1>8. /\ f[0] = << >> /\ \A k \in 0 .. N : f[k] \in Seq(Glyphs)
        /\ \A k \in 1 .. N : /\ Len(f[k]) = Len(f[k - 1]) + Len(spelt[k])
                             /\ Stands(fmt, Len(f[k - 1]) + 1, spelt[k])
    <2>1. N \in Nat /\ spelt \in [1 .. N -> Seq(Glyphs)] /\ Pieces(f, N, spelt)
      BY <1>1, <1>2, <1>5
    <2>2. /\ f[0] = << >> /\ \A k \in 0 .. N : f[k] \in Seq(Glyphs)
          /\ \A k \in 1 .. N : /\ f[k] = f[k - 1] \o spelt[k]
                               /\ Len(f[k]) = Len(f[k - 1]) + Len(spelt[k])
                               /\ Stands(f[N], Len(f[k - 1]) + 1, spelt[k])
      BY <2>1, PiecesStand
    <2> QED BY <1>5, <2>2
  <1>9. /\ g[0] = << >> /\ \A k \in 0 .. N : g[k] \in Seq(Words1)
        /\ \A k \in 1 .. N : /\ Len(g[k]) = Len(g[k - 1]) + Len(given[k])
                             /\ Stands(args, Len(g[k - 1]) + 1, given[k])
    <2>1. N \in Nat /\ given \in [1 .. N -> Seq(Words1)] /\ Pieces(g, N, given)
      BY <1>1, <1>2, <1>6
    <2>2. /\ g[0] = << >> /\ \A k \in 0 .. N : g[k] \in Seq(Words1)
          /\ \A k \in 1 .. N : /\ g[k] = g[k - 1] \o given[k]
                               /\ Len(g[k]) = Len(g[k - 1]) + Len(given[k])
                               /\ Stands(g[N], Len(g[k - 1]) + 1, given[k])
      BY <2>1, PiecesStand
    <2> QED BY <1>6, <2>2
  <1>10. /\ o[0] = << >> /\ \A k \in 0 .. N : o[k] \in Seq(Glyphs)
         /\ \A k \in 1 .. N : o[k] = o[k - 1] \o made[k]
    <2>1. N \in Nat /\ made \in [1 .. N -> Seq(Glyphs)] /\ Pieces(o, N, made)
      BY <1>1, <1>2, <1>7
    <2>2. /\ o[0] = << >> /\ \A k \in 0 .. N : o[k] \in Seq(Glyphs)
          /\ \A k \in 1 .. N : /\ o[k] = o[k - 1] \o made[k]
                               /\ Len(o[k]) = Len(o[k - 1]) + Len(made[k])
                               /\ Stands(o[N], Len(o[k - 1]) + 1, made[k])
      BY <2>1, PiecesStand
    <2> QED BY <2>2
  <1>11. fmt \in Seq(Glyphs) /\ Len(fmt) \in Nat
    <2>1. N \in 0 .. N
      BY <1>1
    <2>2. fmt \in Seq(Glyphs)
      BY <1>5, <1>8, <2>1
    <2> QED BY <2>2
  <1>12. PICK at : Rounds(at, fmt, args) /\ vsprintf(fmt, args) = at[Len(fmt)]
    BY <1>11, VsprintfIs
  <1> DEFINE T == {k \in 0 .. N : \E r \in Nat : /\ r < Len(f[k]) + 1
                                                 /\ at[r] = Spot(Len(f[k]) + 1, Len(g[k]) + 1, o[k])}
  <1>13. 0 \in T
    <2>1. Len(f[0]) = 0 /\ Len(g[0]) = 0 /\ 0 + 1 = 1
      BY <1>8, <1>9
    <2>2. at[0] = Spot(Len(f[0]) + 1, Len(g[0]) + 1, o[0])
      BY <1>10, <1>12, <2>1 DEF Rounds
    <2>3. 0 \in 0 .. N /\ 0 \in Nat /\ 0 < Len(f[0]) + 1
      BY <1>1, <2>1
    <2> QED BY <2>2, <2>3
  <1>14. ASSUME NEW k \in 0 .. N, k # N, k \in T
         PROVE  k + 1 \in T
    <2> DEFINE i == Len(f[k]) + 1
               a == Len(g[k]) + 1
               p == m[k + 1]
    <2>1. PICK r \in Nat : r < i /\ at[r] = Spot(i, a, o[k])
      BY <1>14
    <2>2. k + 1 \in 1 .. N /\ (k + 1) - 1 = k /\ k + 1 \in 0 .. N
      BY <1>1, <1>14
    <2>3. Legal(p) /\ spelt[k + 1] = Spelling(p) /\ given[k + 1] = Arguments(p) /\ made[k + 1] = Printed(p)
      BY <1>1, <1>3, <2>2
    <2>4. Stands(fmt, i, Spelling(p))
      <3>1. Stands(fmt, Len(f[(k + 1) - 1]) + 1, spelt[k + 1])
        BY <1>8, <2>2
      <3> QED BY <2>2, <2>3, <3>1
    <2>5. Stands(args, a, Arguments(p))
      <3>1. Stands(args, Len(g[(k + 1) - 1]) + 1, given[k + 1])
        BY <1>9, <2>2
      <3> QED BY <2>2, <2>3, <3>1
    <2>6. o[k] \in Seq(Glyphs)
      BY <1>10
    <2>7. Len(f[k + 1]) + 1 = i + Len(Spelling(p))
      <3>1. Len(f[k + 1]) = Len(f[(k + 1) - 1]) + Len(spelt[k + 1])
        BY <1>8, <2>2
      <3>2. Len(f[k]) \in Nat /\ Len(Spelling(p)) \in Nat
        <4>1. f[k] \in Seq(Glyphs) /\ Spelling(p) \in Seq(Glyphs)
          BY <1>8, <2>3, PartIs
        <4> HIDE DEF p
        <4> QED BY <4>1, JoinedIs
      <3>3. Len(f[k + 1]) = Len(f[k]) + Len(Spelling(p))
        BY <2>2, <2>3, <3>1
      <3> HIDE DEF p
      <3> QED BY <3>2, <3>3
    <2>8. Len(g[k + 1]) + 1 = a + Len(Arguments(p))
      <3>1. Len(g[k + 1]) = Len(g[(k + 1) - 1]) + Len(given[k + 1])
        BY <1>9, <2>2
      <3>2. Len(g[k]) \in Nat /\ Len(Arguments(p)) \in Nat
        <4>1. g[k] \in Seq(Words1) /\ Arguments(p) \in Seq(Words1)
          BY <1>9, <2>3, PartIs
        <4> HIDE DEF p
        <4> QED BY <4>1, JoinedIs
      <3>3. Len(g[k + 1]) = Len(g[k]) + Len(Arguments(p))
        BY <2>2, <2>3, <3>1
      <3> HIDE DEF p
      <3> QED BY <3>2, <3>3
    <2>9. o[k + 1] = o[k] \o Printed(p)
      <3>1. o[k + 1] = o[(k + 1) - 1] \o made[k + 1]
        BY <1>10, <2>2
      <3> QED BY <2>2, <2>3, <3>1
    <2> HIDE DEF i, a, p
    <2>10. \E s \in Nat : /\ s < i + Len(Spelling(p))
                          /\ at[s] = Spot(i + Len(Spelling(p)), a + Len(Arguments(p)), o[k] \o Printed(p))
      BY <1>11, <1>12, <2>1, <2>3, <2>4, <2>5, <2>6, PartRounds
    <2> QED BY <2>2, <2>7, <2>8, <2>9, <2>10
  <1>15. N \in T
    <2>1. N \in 0 .. N
      BY <1>1
    <2> HIDE DEF T
    <2> QED BY <1>1, <1>13, <1>14, <2>1, Upwards
  <1>16. PICK r \in Nat : r < Len(fmt) + 1 /\ at[r] = Spot(Len(fmt) + 1, Len(g[N]) + 1, o[N])
    BY <1>5, <1>15
  <1>17. at[Len(fmt)] = at[r]
    <2>1. r <= Len(fmt)
      BY <1>11, <1>16
    <2> QED BY <1>11, <1>12, <1>16, <2>1, LastStays
  <1>18. vsprintf(fmt, args).out = o[N]
    BY <1>12, <1>16, <1>17 DEF Spot
  <1> QED BY <1>4, <1>7, <1>18

-----------------------------------------------------------------------------
LEMMA PrintedWanted ==
  ASSUME NEW m, NEW N, Sound(m, N)
  PROVE  LET printed == FlattenSeq([k \in DOMAIN m |-> Printed(m[k])])
             wanted  == FlattenSeq([k \in DOMAIN m |-> Wanted(m[k])])
         IN  /\ Len(printed) = Len(wanted)
             /\ (\A k \in DOMAIN m : Covered(m[k])) => printed = wanted
PROOF
  <1> DEFINE made == [k \in 1 .. N |-> Printed(m[k])]
             want == [k \in 1 .. N |-> Wanted(m[k])]
  <1>1. N \in Nat /\ DOMAIN m = 1 .. N /\ \A k \in 1 .. N : Legal(m[k])
    BY DEF Sound
  <1>2. made \in [1 .. N -> Seq(Glyphs)] /\ want \in [1 .. N -> Seq(Glyphs)]
    BY <1>1, PartIs
  <1>3. \A k \in 1 .. N : Len(made[k]) = Len(want[k])
    BY <1>1, PartIs
  <1>4. (\A k \in 1 .. N : Covered(m[k])) => made = want
    BY <1>1, PartIs
  <1>5. /\ FlattenSeq([k \in DOMAIN m |-> Printed(m[k])]) = FlattenSeq(made)
        /\ FlattenSeq([k \in DOMAIN m |-> Wanted(m[k])]) = FlattenSeq(want)
    BY <1>1
  <1> HIDE DEF made, want
  <1>6. PICK o : Pieces(o, N, made) /\ FlattenSeq(made) = o[N]
    <2>1. N \in Nat /\ made \in [1 .. N -> Seq(Glyphs)]
      BY <1>1, <1>2
    <2>2. \E at : Pieces(at, N, made) /\ FlattenSeq(made) = at[N]
      BY <2>1, FlattenIs
    <2> QED BY <2>2
  <1>7. PICK w : Pieces(w, N, want) /\ FlattenSeq(want) = w[N]
    <2>1. N \in Nat /\ want \in [1 .. N -> Seq(Glyphs)]
      BY <1>1, <1>2
    <2>2. \E at : Pieces(at, N, want) /\ FlattenSeq(want) = at[N]
      BY <2>1, FlattenIs
    <2> QED BY <2>2
  <1>8. o[0] = << >> /\ \A k \in 1 .. N : Len(o[k]) = Len(o[k - 1]) + Len(made[k])
    <2>1. N \in Nat /\ made \in [1 .. N -> Seq(Glyphs)] /\ Pieces(o, N, made)
      BY <1>1, <1>2, <1>6
    <2>2. /\ o[0] = << >> /\ \A k \in 0 .. N : o[k] \in Seq(Glyphs)
          /\ \A k \in 1 .. N : /\ o[k] = o[k - 1] \o made[k]
                               /\ Len(o[k]) = Len(o[k - 1]) + Len(made[k])
                               /\ Stands(o[N], Len(o[k - 1]) + 1, made[k])
      BY <2>1, PiecesStand
    <2> QED BY <2>2
  <1>9. w[0] = << >> /\ \A k \in 1 .. N : Len(w[k]) = Len(w[k - 1]) + Len(want[k])
    <2>1. N \in Nat /\ want \in [1 .. N -> Seq(Glyphs)] /\ Pieces(w, N, want)
      BY <1>1, <1>2, <1>7
    <2>2. /\ w[0] = << >> /\ \A k \in 0 .. N : w[k] \in Seq(Glyphs)
          /\ \A k \in 1 .. N : /\ w[k] = w[k - 1] \o want[k]
                               /\ Len(w[k]) = Len(w[k - 1]) + Len(want[k])
                               /\ Stands(w[N], Len(w[k - 1]) + 1, want[k])
      BY <2>1, PiecesStand
    <2> QED BY <2>2
  <1> DEFINE T == {k \in 0 .. N : Len(o[k]) = Len(w[k])}
  <1>10. 0 \in T
    BY <1>1, <1>8, <1>9
  <1>11. ASSUME NEW k \in 0 .. N, k # N, k \in T
         PROVE  k + 1 \in T
    <2>1. k + 1 \in 1 .. N /\ (k + 1) - 1 = k /\ k + 1 \in 0 .. N
      BY <1>1, <1>11
    <2>2. /\ Len(o[k + 1]) = Len(o[(k + 1) - 1]) + Len(made[k + 1])
          /\ Len(w[k + 1]) = Len(w[(k + 1) - 1]) + Len(want[k + 1])
      BY <1>8, <1>9, <2>1
    <2>3. Len(o[k]) = Len(w[k]) /\ Len(made[k + 1]) = Len(want[k + 1])
      BY <1>3, <1>11, <2>1
    <2> QED BY <2>1, <2>2, <2>3
  <1>12. Len(o[N]) = Len(w[N])
    <2>1. N \in 0 .. N
      BY <1>1
    <2>2. N \in T
      <3> HIDE DEF T
      <3> QED BY <1>1, <1>10, <1>11, <2>1, Upwards
    <2> QED BY <2>2
  <1>13. (\A k \in DOMAIN m : Covered(m[k])) => FlattenSeq(made) = FlattenSeq(want)
    BY <1>1, <1>4
  <1> QED BY <1>5, <1>6, <1>7, <1>12, <1>13

LEMMA PrintedText ==
  ASSUME NEW m, NEW N, Sound(m, N)
  PROVE  FlattenSeq([k \in DOMAIN m |-> Printed(m[k])]) \in Seq(Glyphs)
PROOF
  <1> DEFINE made == [k \in 1 .. N |-> Printed(m[k])]
  <1>1. N \in Nat /\ DOMAIN m = 1 .. N /\ \A k \in 1 .. N : Legal(m[k])
    BY DEF Sound
  <1>2. made \in [1 .. N -> Seq(Glyphs)]
    BY <1>1, PartIs
  <1>3. FlattenSeq([k \in DOMAIN m |-> Printed(m[k])]) = FlattenSeq(made)
    BY <1>1
  <1> HIDE DEF made
  <1>4. PICK o : Pieces(o, N, made) /\ FlattenSeq(made) = o[N]
    BY <1>1, <1>2, FlattenIs
  <1>5. \A k \in 0 .. N : o[k] \in Seq(Glyphs)
    BY <1>1, <1>2, <1>4, PiecesStand
  <1>6. N \in 0 .. N
    BY <1>1
  <1> QED BY <1>3, <1>4, <1>5, <1>6

LEMMA MessagesSound ==
  ASSUME NEW m \in Messages
  PROVE  Sound(m, Len(m))
PROOF
  <1>1. m \in Seq(Range(m)) /\ \A part \in Range(m) : Legal(part)
    BY MessagesAssumption
  <1>2. PICK S : S = Range(m)
    OBVIOUS
  <1>3. m \in Seq(S) /\ \A part \in S : Legal(part)
    BY <1>1, <1>2
  <1>4. Len(m) \in Nat /\ DOMAIN m = 1 .. Len(m) /\ \A k \in 1 .. Len(m) : m[k] \in S
    BY <1>3
  <1> QED BY <1>3, <1>4 DEF Sound

(* What was printed last is what its parts print, one after the other.      *)
LastPrinted ==
  message # NULL =>
    message \in Messages /\ text = FlattenSeq([k \in DOMAIN message |-> Printed(message[k])])

LEMMA LastPrintedInductive ==
  /\ Init => LastPrinted
  /\ LastPrinted /\ [Next]_vars => LastPrinted'
PROOF
  <1>1. Init => LastPrinted
    BY DEF Init, LastPrinted
  <1>2. ASSUME LastPrinted, NEW m \in Messages, printk(m)
        PROVE  LastPrinted'
    <2>1. message' = m
      BY <1>2 DEF printk
    <2>2. text' = vsprintf(FlattenSeq([k \in DOMAIN m |-> Spelling(m[k])]),
                           FlattenSeq([k \in DOMAIN m |-> Arguments(m[k])])).out
      BY <1>2 DEF printk
    <2>3. text' = FlattenSeq([k \in DOMAIN m |-> Printed(m[k])])
      BY <2>2, MessagesSound, MessagePrinted
    <2> QED BY <2>1, <2>3 DEF LastPrinted
  <1>3. ASSUME LastPrinted, NEW buf \in Texts, sys_write(buf)
        PROVE  LastPrinted'
    BY <1>3 DEF sys_write, LastPrinted
  <1>4. ASSUME LastPrinted, UNCHANGED vars
        PROVE  LastPrinted'
    BY <1>4 DEF LastPrinted, vars
  <1> QED BY <1>1, <1>2, <1>3, <1>4 DEF Next

LEMMA LastPrintedRight == LastPrinted => NumberRight
PROOF
  <1>1. SUFFICES ASSUME LastPrinted, message # NULL
                 PROVE  LET wanted == FlattenSeq([k \in DOMAIN message |-> Wanted(message[k])]) IN
                        /\ (\A k \in DOMAIN message : Covered(message[k])) => text = wanted
                        /\ Len(text) = Len(wanted)
    BY DEF NumberRight
  <1>2. message \in Messages /\ text = FlattenSeq([k \in DOMAIN message |-> Printed(message[k])])
    BY <1>1 DEF LastPrinted
  <1>3. Sound(message, Len(message))
    BY <1>2, MessagesSound
  <1> QED BY <1>2, <1>3, PrintedWanted

(* printk prints what its caller asks for (printk.c:4-22, vsprintf.c:184-   *)
(* 335): whatever the messages are, of texts, strings, characters and       *)
(* numbers with any flags, width, precision and size, every text has the    *)
(* length it should have, and is the text it should be if all its numbers   *)
(* are covered.                                                             *)
THEOREM NumbersArePrintedRight == Spec => []NumberRight
PROOF
  <1>1. Init => LastPrinted
    BY LastPrintedInductive
  <1>2. LastPrinted /\ [Next]_vars => LastPrinted'
    BY LastPrintedInductive
  <1>3. LastPrinted => NumberRight
    BY LastPrintedRight
  <1> QED BY <1>1, <1>2, <1>3, PTL DEF Spec

(* Printing and writing together keep the terminal as it should be: what    *)
(* printk formats (printk.c:4-22) is a text like any other for tty_write.   *)
THEOREM PrintingKeepsTerminal == Spec => [](CursorOnScreen /\ WritesInside /\ FreshLines)
PROOF
  <1>1. Init => IInv
    BY InitIInv DEF Init
  <1>2. IInv /\ [Next]_vars => IInv'
    <2>1. ASSUME IInv, NEW m \in Messages, printk(m)
          PROVE  IInv'
      <3>1. text' = vsprintf(FlattenSeq([k \in DOMAIN m |-> Spelling(m[k])]),
                             FlattenSeq([k \in DOMAIN m |-> Arguments(m[k])])).out
            /\ tty_write(text')
        BY <2>1 DEF printk
      <3>2. text' \in Seq(Glyphs)
        BY <3>1, MessagesSound, MessagePrinted, PrintedText
      <3> QED BY <2>1, <3>1, <3>2, WriteIInv
    <2>2. ASSUME IInv, NEW buf \in Texts, sys_write(buf)
          PROVE  IInv'
      <3>1. tty_write(buf)
        BY <2>2 DEF sys_write
      <3>2. buf \in Seq(Range(buf))
        BY TextsAssumption
      <3> QED BY <2>2, <3>1, <3>2, WriteIInv
    <2>3. ASSUME IInv, UNCHANGED vars
          PROVE  IInv'
      <3>1. UNCHANGED tty
        BY <2>3 DEF vars
      <3> QED BY <2>3, <3>1, NextIInv
    <2> QED BY <2>1, <2>2, <2>3 DEF Next
  <1>3. IInv => CursorOnScreen /\ WritesInside /\ FreshLines
    BY DEF IInv
  <1> QED BY <1>1, <1>2, <1>3, PTL DEF Spec
=============================================================================
