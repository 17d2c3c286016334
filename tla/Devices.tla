------------------------------ MODULE Devices -------------------------------
(***************************************************************************)
(* Devices and what uses them: what is proved of the modules Screen,       *)
(* SleepQueue, Pcie, Keyboard and Panic, which share no variable.  For     *)
(* each the invariant IInv of its module holds in the initial states,      *)
(* every step keeps it, and the properties follow from it, for all values  *)
(* of the constants that are Sane.  Machine puts them beside the other     *)
(* parts, for TLC.                                                         *)
(***************************************************************************)
EXTENDS Integers, Sequences, FiniteSets, TLAPS

-----------------------------------------------------------------------------
(* The text screen: efifb.c and console.c.                                 *)

CONSTANTS Writers, Users, wc, hc, MaxRows

VARIABLES cells, cursor_x, cursor_y, gfx_mode, screen_pc, open, drawing,
          text, row, col, top, screen_raced, outside

Screen == INSTANCE Screen WITH pc <- screen_pc, page <- text, raced <- screen_raced

ASSUME ScreenSane == Screen!Sane

\* How a step of a writer changes the number of those that are at some places.
LEMMA ScreenCounts ==
  ASSUME Screen!Finiteness, Screen!Sane, Screen!Types, NEW w \in Writers, NEW p, NEW places, screen_pc' = [screen_pc EXCEPT ![w] = p]
  PROVE  /\ Screen!Cardinality(Screen!In(places)) \in Nat /\ Screen!Cardinality(Screen!In(places)') \in Nat
         /\ Screen!Cardinality(Screen!In(places)') + (IF screen_pc[w] \in places THEN 1 ELSE 0)
              = Screen!Cardinality(Screen!In(places)) + (IF p \in places THEN 1 ELSE 0)
         /\ screen_pc[w] \in places => Screen!Cardinality(Screen!In(places)) >= 1
<1>1. Screen!IsFiniteSet(Screen!In(places)) /\ Screen!Cardinality(Screen!In(places)) \in Nat
  BY DEF Screen!Finiteness, Screen!In, Screen!Sane
<1>2. /\ screen_pc'[w] = p /\ \A v \in Writers \ {w} : screen_pc'[v] = screen_pc[v]
  BY DEF Screen!Types
<1>3. /\ Screen!Cardinality(Screen!In(places) \cup {w}) = IF screen_pc[w] \in places THEN Screen!Cardinality(Screen!In(places)) ELSE Screen!Cardinality(Screen!In(places)) + 1
      /\ Screen!Cardinality(Screen!In(places) \ {w}) = IF screen_pc[w] \in places THEN Screen!Cardinality(Screen!In(places)) - 1 ELSE Screen!Cardinality(Screen!In(places))
  <2>1. w \in Screen!In(places) <=> screen_pc[w] \in places
    BY DEF Screen!In
  <2> QED BY <1>1, <2>1 DEF Screen!Finiteness
<1>4. Screen!Cardinality(Screen!In(places) \ {w}) \in Nat
  BY <1>1 DEF Screen!Finiteness
<1>5. CASE p \in places
  <2>1. Screen!In(places)' = Screen!In(places) \cup {w}
    BY <1>2, <1>5 DEF Screen!In
  <2> QED BY <1>1, <1>3, <1>4, <1>5, <2>1
<1>6. CASE p \notin places
  <2>1. Screen!In(places)' = Screen!In(places) \ {w}
    BY <1>2, <1>6 DEF Screen!In
  <2> QED BY <1>1, <1>3, <1>4, <1>6, <2>1
<1> QED BY <1>5, <1>6

\* Those that are about to wrap, before and after a step of a writer.
LEMMA ScreenWrapping ==
  ASSUME Screen!Finiteness, Screen!Sane, Screen!Types, NEW w \in Writers, NEW p, screen_pc' = [screen_pc EXCEPT ![w] = p]
  PROVE  /\ Screen!Cardinality(Screen!In({"wrap"})) \in Nat /\ Screen!Cardinality(Screen!In({"wrap"})') \in Nat
         /\ screen_pc[w] \notin {"wrap"} /\ p \in {"wrap"} => Screen!Cardinality(Screen!In({"wrap"})') = Screen!Cardinality(Screen!In({"wrap"})) + 1
         /\ screen_pc[w] \notin {"wrap"} /\ p \notin {"wrap"} => Screen!Cardinality(Screen!In({"wrap"})') = Screen!Cardinality(Screen!In({"wrap"}))
         /\ screen_pc[w] \in {"wrap"} /\ p \in {"wrap"} => Screen!Cardinality(Screen!In({"wrap"})') = Screen!Cardinality(Screen!In({"wrap"}))
         /\ screen_pc[w] \in {"wrap"} /\ p \notin {"wrap"} => Screen!Cardinality(Screen!In({"wrap"})') + 1 = Screen!Cardinality(Screen!In({"wrap"}))
<1> DEFINE places == {"wrap"}
<1> HIDE DEF places
<1>1. /\ Screen!Cardinality(Screen!In(places)) \in Nat /\ Screen!Cardinality(Screen!In(places)') \in Nat
      /\ Screen!Cardinality(Screen!In(places)') + (IF screen_pc[w] \in places THEN 1 ELSE 0)
           = Screen!Cardinality(Screen!In(places)) + (IF p \in places THEN 1 ELSE 0)
  BY Zenon, ScreenCounts
<1>2. /\ screen_pc[w] \notin places /\ p \in places => Screen!Cardinality(Screen!In(places)') = Screen!Cardinality(Screen!In(places)) + 1
      /\ screen_pc[w] \notin places /\ p \notin places => Screen!Cardinality(Screen!In(places)') = Screen!Cardinality(Screen!In(places))
      /\ screen_pc[w] \in places /\ p \in places => Screen!Cardinality(Screen!In(places)') = Screen!Cardinality(Screen!In(places))
      /\ screen_pc[w] \in places /\ p \notin places => Screen!Cardinality(Screen!In(places)') + 1 = Screen!Cardinality(Screen!In(places))
  BY <1>1
<1> QED BY <1>1, <1>2 DEF places

\* Those that are about to wrap or to scroll.
LEMMA ScreenScrolling ==
  ASSUME Screen!Finiteness, Screen!Sane, Screen!Types, NEW w \in Writers, NEW p, screen_pc' = [screen_pc EXCEPT ![w] = p]
  PROVE  /\ Screen!Cardinality(Screen!In({"wrap", "scroll"})) \in Nat /\ Screen!Cardinality(Screen!In({"wrap", "scroll"})') \in Nat
         /\ screen_pc[w] \notin {"wrap", "scroll"} /\ p \in {"wrap", "scroll"} => Screen!Cardinality(Screen!In({"wrap", "scroll"})') = Screen!Cardinality(Screen!In({"wrap", "scroll"})) + 1
         /\ screen_pc[w] \notin {"wrap", "scroll"} /\ p \notin {"wrap", "scroll"} => Screen!Cardinality(Screen!In({"wrap", "scroll"})') = Screen!Cardinality(Screen!In({"wrap", "scroll"}))
         /\ screen_pc[w] \in {"wrap", "scroll"} /\ p \in {"wrap", "scroll"} => Screen!Cardinality(Screen!In({"wrap", "scroll"})') = Screen!Cardinality(Screen!In({"wrap", "scroll"}))
         /\ screen_pc[w] \in {"wrap", "scroll"} /\ p \notin {"wrap", "scroll"} => Screen!Cardinality(Screen!In({"wrap", "scroll"})') + 1 = Screen!Cardinality(Screen!In({"wrap", "scroll"}))
<1> DEFINE places == {"wrap", "scroll"}
<1> HIDE DEF places
<1>1. /\ Screen!Cardinality(Screen!In(places)) \in Nat /\ Screen!Cardinality(Screen!In(places)') \in Nat
      /\ Screen!Cardinality(Screen!In(places)') + (IF screen_pc[w] \in places THEN 1 ELSE 0)
           = Screen!Cardinality(Screen!In(places)) + (IF p \in places THEN 1 ELSE 0)
  BY Zenon, ScreenCounts
<1>2. /\ screen_pc[w] \notin places /\ p \in places => Screen!Cardinality(Screen!In(places)') = Screen!Cardinality(Screen!In(places)) + 1
      /\ screen_pc[w] \notin places /\ p \notin places => Screen!Cardinality(Screen!In(places)') = Screen!Cardinality(Screen!In(places))
      /\ screen_pc[w] \in places /\ p \in places => Screen!Cardinality(Screen!In(places)') = Screen!Cardinality(Screen!In(places))
      /\ screen_pc[w] \in places /\ p \notin places => Screen!Cardinality(Screen!In(places)') + 1 = Screen!Cardinality(Screen!In(places))
  BY <1>1
<1> QED BY <1>1, <1>2 DEF places

\* The screen has a cell, and the rows are lines.
LEMMA ScreenSizes ==
  ASSUME Screen!Sane
  PROVE  /\ wc \in Nat \ {0} /\ hc \in Nat \ {0} /\ Screen!Cols = 0 .. wc - 1 /\ Screen!Rows = 0 .. hc - 1
         /\ Screen!BlankRow \in Screen!Line /\ Screen!OtherRow \in Screen!Line /\ 0 \in Screen!Cols
         /\ Screen!FirstPage \in Seq(Screen!Line) /\ Len(Screen!FirstPage) = hc
         /\ \A y \in Screen!Rows : Screen!FirstPage[y + 1] = Screen!OtherRow
<1>1. wc \in Nat \ {0} /\ hc \in Nat \ {0} /\ Screen!Cols = 0 .. wc - 1 /\ Screen!Rows = 0 .. hc - 1 /\ 0 \in Screen!Cols
  BY DEF Screen!Sane, Screen!Cols, Screen!Rows
<1>2. Screen!BlankRow \in Screen!Line /\ Screen!OtherRow \in Screen!Line
  BY DEF Screen!BlankRow, Screen!OtherRow, Screen!Line
<1> QED BY <1>1, <1>2 DEF Screen!FirstPage

\* efifb_init: the cursor is in the corner of what was on the screen.
LEMMA ScreenInitIInv == ASSUME Screen!Finiteness, Screen!Sane, Screen!Init PROVE Screen!IInv
<1> USE DEF Screen!Init
<1>1. Screen!Types
  <2>1. screen_pc \in [Writers -> Screen!Between \cup {"advance", "wrap", "scroll"}]
    BY DEF Screen!Between
  <2>2. cells \in [Screen!Rows -> Screen!Line]
    BY ScreenSizes
  <2> QED BY <2>1, <2>2, ScreenSizes DEF Screen!Types
<1>2. Screen!In({"wrap"}) = {} /\ Screen!In({"wrap", "scroll"}) = {}
  BY DEF Screen!In
<1>3. Screen!Bounded
  BY <1>2 DEF Screen!Finiteness, Screen!Bounded, Screen!Sane
<1>4. Screen!Mirrors
  BY ScreenSizes DEF Screen!Mirrors
<1>5. Screen!Fits /\ Screen!OnText /\ ~Screen!Below
  BY ScreenSizes DEF Screen!Fits, Screen!OnText, Screen!Below
<1>6. \A w \in Writers : Screen!Halfway(w) /\ screen_pc[w] \in Screen!Between
  BY DEF Screen!Halfway, Screen!Between
<1> QED BY <1>1, <1>3, <1>4, <1>5, <1>6 DEF Screen!IInv, Screen!InsideUnlessRaced, Screen!Alone

\* What a character does to the row of the text.
LEMMA ScreenWritten ==
  ASSUME Screen!Sane, Screen!Types, NEW c \in Screen!Chars, row \in 1 .. Len(text),
         NEW x, x = (IF c = "del" /\ col > 0 THEN col - 1 ELSE col), NEW ch, ch = (IF c = "a" THEN c ELSE Screen!Blank)
  PROVE  /\ x \in Screen!Cols /\ Screen!Written(c) \in Seq(Screen!Line) /\ Len(Screen!Written(c)) = Len(text)
         /\ Screen!Written(c)[row] = [text[row] EXCEPT ![x] = ch] /\ \A i \in 1 .. Len(text) : i # row => Screen!Written(c)[i] = text[i]
<1>1. wc \in Nat \ {0} /\ Screen!Cols = 0 .. wc - 1 /\ text \in Seq(Screen!Line) /\ col \in Screen!Cols
  BY ScreenSizes DEF Screen!Types
<1>2. x \in Screen!Cols /\ ch \in {"a", Screen!Blank, Screen!Other}
  BY <1>1
<1>3. text[row] \in Screen!Line
  BY <1>1
<1>4. [text[row] EXCEPT ![x] = ch] \in Screen!Line
  BY <1>2, <1>3 DEF Screen!Line
<1>5. Screen!Written(c) = [text EXCEPT ![row] = [text[row] EXCEPT ![x] = ch]]
  BY DEF Screen!Written
<1> HIDE DEF Screen!Written
<1> QED BY <1>1, <1>2, <1>4, <1>5

\* A row is added to the page when the text leaves its last one.
LEMMA ScreenGrown ==
  ASSUME Screen!Sane, NEW p \in Seq(Screen!Line), row \in 1 .. Len(p)
  PROVE  /\ Screen!WithRow(p) \in Seq(Screen!Line) /\ Len(Screen!WithRow(p)) = IF row = Len(p) THEN row + 1 ELSE Len(p)
         /\ \A i \in 1 .. Len(p) : Screen!WithRow(p)[i] = p[i]
         /\ row = Len(p) => Screen!WithRow(p)[row + 1] = Screen!BlankRow
BY ScreenSizes DEF Screen!WithRow

\* The text on the page, as a character that is drawn or not and a new row or none.
LEMMA ScreenTyped ==
  ASSUME Screen!Sane, Screen!Types, NEW c \in Screen!Chars, row \in 1 .. Len(text), Screen!TypeOnPage(c),
         NEW p, p = (IF c \in {"cr", "nl"} THEN text ELSE Screen!Written(c))
  PROVE  /\ p \in Seq(Screen!Line) /\ Len(p) = Len(text) /\ top' = top /\ col' \in Screen!Cols /\ row' \in {row, row + 1}
         /\ row' = row => text' = p
         /\ row' = row + 1 => text' = Screen!WithRow(p) /\ col' = 0
         /\ text' \in Seq(Screen!Line)
<1>1. p \in Seq(Screen!Line) /\ Len(p) = Len(text)
  BY ScreenWritten DEF Screen!Types
<1>2. wc \in Nat \ {0} /\ Screen!Cols = 0 .. wc - 1 /\ col \in Screen!Cols /\ row \in Nat
  BY ScreenSizes DEF Screen!Types
<1>3. /\ top' = top /\ col' \in Screen!Cols /\ row' \in {row, row + 1}
      /\ row' = row => text' = p
      /\ row' = row + 1 => text' = Screen!WithRow(p) /\ col' = 0
  BY <1>2 DEF Screen!TypeOnPage
<1>4. Screen!WithRow(p) \in Seq(Screen!Line)
  BY <1>1, ScreenGrown
<1> QED BY <1>1, <1>3, <1>4

\* The screen shows the page after a character, if it shows the page without the new row.
LEMMA ScreenShows ==
  ASSUME Screen!Sane, Screen!Types, row \in 1 .. Len(text), Len(text) = top + hc, top + 1 <= row, top' = top,
         NEW p \in Seq(Screen!Line), Len(p) = Len(text), row' \in {row, row + 1},
         row' = row => text' = p, row' = row + 1 => text' = Screen!WithRow(p) /\ col' = 0,
         \A y \in Screen!Rows : cells'[y] = p[top + y + 1]
  PROVE  Screen!Mirrors' /\ Screen!Fits'
<1>1. hc \in Nat \ {0} /\ Screen!Rows = 0 .. hc - 1 /\ row \in Nat /\ top \in Nat
  BY ScreenSizes DEF Screen!Types
<1>2. \A i \in 1 .. Len(p) : text'[i] = p[i]
  BY ScreenGrown
<1>3. Screen!Mirrors'
  <2>1. Screen!Rows' = Screen!Rows
    BY DEF Screen!Rows
  <2>2. \A y \in Screen!Rows : top + y + 1 \in 1 .. Len(p)
    BY <1>1
  <2> QED BY <1>2, <2>1, <2>2 DEF Screen!Mirrors
<1>4. Screen!Fits'
  <2>1. CASE row' = row
    BY <1>1, <2>1 DEF Screen!Fits, Screen!Below
  <2>2. CASE row' = row + 1
    <3>1. /\ text' = Screen!WithRow(p) /\ Len(text') = IF row = Len(p) THEN row + 1 ELSE Len(p)
          /\ row = Len(p) => text'[row + 1] = Screen!BlankRow
      BY <2>2, ScreenGrown
    <3>2. Screen!BlankRow' = Screen!BlankRow
      BY DEF Screen!BlankRow, Screen!Cols, Screen!Blank
    <3> QED BY <1>1, <2>2, <3>1, <3>2 DEF Screen!Fits, Screen!Below
  <2> QED BY <2>1, <2>2
<1> QED BY <1>3, <1>4

\* The text when nobody is in efifb_putchar.
LEMMA ScreenAtRest ==
  ASSUME Screen!Sane, Screen!IInv, ~screen_raced, \A w \in Writers : screen_pc[w] \in Screen!Between
  PROVE  /\ cursor_x = col /\ cursor_y + top + 1 = row /\ row \in 1 .. Len(text) /\ Len(text) = top + hc /\ top + 1 <= row
         /\ cursor_y \in Screen!Rows /\ ~outside /\ \A y \in Screen!Rows : cells[y] = text[top + y + 1]
<1>1. hc \in Nat \ {0} /\ Screen!Rows = 0 .. hc - 1 /\ row \in Nat /\ top \in Nat /\ cursor_y \in Nat
  BY ScreenSizes DEF Screen!IInv, Screen!Types
<1>2. Screen!Mirrors /\ Screen!Fits /\ Screen!OnText /\ ~Screen!Below /\ ~outside
  BY Zenon DEF Screen!IInv, Screen!Alone, Screen!InsideUnlessRaced
<1> QED BY <1>1, <1>2 DEF Screen!Mirrors, Screen!Fits, Screen!OnText, Screen!Below

\* After a step of the only writer in efifb_putchar, the others are still outside of it.
LEMMA ScreenOthersIdle ==
  ASSUME Screen!Types, NEW w \in Writers, \A v \in Writers \ {w} : screen_pc[v] \in Screen!Between,
         NEW p, screen_pc' = [screen_pc EXCEPT ![w] = p], Screen!Halfway(w)', Screen!Mirrors', Screen!Fits',
         p \in Screen!Between => Screen!OnText' /\ ~Screen!Below'
  PROVE  Screen!Alone'
<1>1. screen_pc'[w] = p /\ \A v \in Writers \ {w} : screen_pc'[v] \in Screen!Between
  BY DEF Screen!Types
<1>2. \A v \in Writers \ {w} : Screen!Halfway(v)'
  BY <1>1 DEF Screen!Halfway, Screen!Between
<1>3. Screen!Between' = Screen!Between
  BY DEF Screen!Between
<1> QED BY Zenon, <1>1, <1>2, <1>3 DEF Screen!Alone

\* efifb_putchar in a text that is not raced.
LEMMA ScreenTypes ==
  ASSUME Screen!Sane, Screen!IInv, NEW w \in Writers, NEW c \in Screen!Chars, Screen!efifb_putchar(w, c), ~screen_raced'
  PROVE  /\ Screen!Alone' /\ ~outside' /\ text' \in Seq(Screen!Line) /\ row' \in Nat /\ col' \in Screen!Cols /\ top' \in Nat
<1> DEFINE back == c = "del" /\ cursor_x >= 1
           x == IF back THEN cursor_x - 1 ELSE cursor_x
           ch == IF c = "a" THEN c ELSE Screen!Blank
           p == IF c \in {"cr", "nl"} THEN text ELSE Screen!Written(c)
<1>1. /\ screen_pc[w] = "next" /\ ~screen_raced /\ Screen!TypeOnPage(c) /\ \A v \in Writers : screen_pc[v] \in Screen!Between
      /\ c = "cr" => cursor_x' = 0 /\ UNCHANGED <<cells, cursor_y, screen_pc, outside>>
      /\ c = "nl" => /\ cursor_x' = 0 /\ cursor_y' = cursor_y + 1
                     /\ screen_pc' = [screen_pc EXCEPT ![w] = "wrap"] /\ UNCHANGED <<cells, outside>>
      /\ c \notin {"cr", "nl"} =>
            /\ cursor_x' = x /\ Screen!Draw(x, cursor_y, ch) /\ UNCHANGED cursor_y
            /\ screen_pc' = [screen_pc EXCEPT ![w] = IF back THEN "wrap" ELSE "advance"]
  BY DEF Screen!efifb_putchar
<1>2. /\ cursor_x = col /\ cursor_y + top + 1 = row /\ row \in 1 .. Len(text) /\ Len(text) = top + hc /\ top + 1 <= row
      /\ cursor_y \in Screen!Rows /\ ~outside /\ \A y \in Screen!Rows : cells[y] = text[top + y + 1]
  BY <1>1, ScreenAtRest
<1>3. /\ p \in Seq(Screen!Line) /\ Len(p) = Len(text) /\ top' = top /\ col' \in Screen!Cols /\ row' \in {row, row + 1}
      /\ row' = row => text' = p
      /\ row' = row + 1 => text' = Screen!WithRow(p) /\ col' = 0
      /\ text' \in Seq(Screen!Line)
  <2> HIDE DEF p
  <2>1. p = IF c \in {"cr", "nl"} THEN text ELSE Screen!Written(c)
    BY DEF p
  <2> QED BY Zenon, <1>1, <1>2, <2>1, ScreenTyped DEF Screen!IInv
<1>4. /\ wc \in Nat \ {0} /\ hc \in Nat \ {0} /\ Screen!Cols = 0 .. wc - 1 /\ Screen!Rows = 0 .. hc - 1 /\ row \in Nat /\ top \in Nat
      /\ col \in Screen!Cols /\ cursor_x \in Nat /\ cursor_y \in Nat /\ cells \in [Screen!Rows -> Screen!Line]
  BY ScreenSizes DEF Screen!IInv, Screen!Types
<1>5. ~outside' /\ \A y \in Screen!Rows : cells'[y] = p[top + y + 1]
  <2>1. CASE c \in {"cr", "nl"}
    BY <1>1, <1>2, <2>1
  <2>2. CASE c \notin {"cr", "nl"}
    <3>1. x = IF c = "del" /\ col > 0 THEN col - 1 ELSE col
      BY <1>2, <1>4
    <3>2. /\ x \in Screen!Cols /\ Screen!Written(c)[row] = [text[row] EXCEPT ![x] = ch]
          /\ \A i \in 1 .. Len(text) : i # row => Screen!Written(c)[i] = text[i]
      <4> HIDE DEF x, ch
      <4>1. ch = IF c = "a" THEN c ELSE Screen!Blank
        BY DEF ch
      <4> QED BY <1>2, <3>1, <4>1, ScreenWritten DEF Screen!IInv
    <3>3. cells' = [cells EXCEPT ![cursor_y][x] = ch] /\ UNCHANGED outside
      BY <1>1, <1>2, <2>2, <3>2 DEF Screen!Draw
    <3>4. ASSUME NEW y \in Screen!Rows PROVE cells'[y] = Screen!Written(c)[top + y + 1]
      <4> HIDE DEF x, ch
      <4>1. y \in Nat /\ top + y + 1 \in 1 .. Len(text) /\ cells[y] = text[top + y + 1]
        BY <1>2, <1>4
      <4>2. CASE y = cursor_y
        <5>1. top + y + 1 = row /\ cells'[y] = [cells[y] EXCEPT ![x] = ch]
          BY <1>2, <1>4, <3>3, <4>2
        <5> QED BY <3>2, <4>1, <5>1
      <4>3. CASE y # cursor_y
        <5>1. top + y + 1 # row /\ cells'[y] = cells[y]
          BY <1>2, <1>4, <3>3, <4>1, <4>3
        <5> QED BY <3>2, <4>1, <5>1
      <4> QED BY <4>2, <4>3
    <3> QED BY <1>2, <2>2, <3>3, <3>4
  <2> QED BY <2>1, <2>2
<1>6. Screen!Mirrors' /\ Screen!Fits'
  <2> HIDE DEF p
  <2> QED BY Zenon, <1>2, <1>3, <1>5, ScreenShows DEF Screen!IInv
<1>7. Screen!Types /\ \A v \in Writers \ {w} : screen_pc[v] \in Screen!Between
  BY <1>1 DEF Screen!IInv
<1>8. Screen!Alone'
  <2>1. CASE c = "cr"
    <3>1. row' = row /\ col' = 0 /\ cursor_x' = 0 /\ cursor_y' = cursor_y /\ screen_pc' = screen_pc
      BY <1>1, <2>1 DEF Screen!TypeOnPage
    <3>2. Screen!OnText' /\ ~Screen!Below'
      BY <1>2, <1>3, <1>4, <3>1 DEF Screen!OnText, Screen!Below
    <3>3. \A v \in Writers : Screen!Halfway(v)' /\ screen_pc'[v] \in Screen!Between'
      BY <1>1, <3>1 DEF Screen!Halfway, Screen!Between
    <3> QED BY Zenon, <1>6, <3>2, <3>3 DEF Screen!Alone
  <2>2. CASE c = "nl"
    <3>1. /\ row' = row + 1 /\ col' = 0 /\ cursor_x' = 0 /\ cursor_y' = cursor_y + 1
          /\ screen_pc' = [screen_pc EXCEPT ![w] = "wrap"] /\ screen_pc'[w] = "wrap"
      BY <1>1, <1>7, <2>2 DEF Screen!TypeOnPage, Screen!Types
    <3>2. Screen!OnText'
      BY <1>2, <1>3, <1>4, <3>1 DEF Screen!OnText
    <3>3. Screen!Halfway(w)' /\ "wrap" \notin Screen!Between
      BY <3>1, <3>2 DEF Screen!Halfway, Screen!Between
    <3> QED BY Zenon, <1>6, <1>7, <3>1, <3>3, ScreenOthersIdle
  <2>3. CASE c \notin {"cr", "nl"}
    <3>1. /\ cursor_x' = x /\ cursor_y' = cursor_y /\ screen_pc' = [screen_pc EXCEPT ![w] = IF back THEN "wrap" ELSE "advance"]
          /\ screen_pc'[w] = IF back THEN "wrap" ELSE "advance"
      BY <1>1, <1>7, <2>3 DEF Screen!Types
    <3>2. (IF back THEN "wrap" ELSE "advance") \notin Screen!Between
      BY DEF Screen!Between
    <3>3. CASE back
      <4>1. row' = row /\ col' = col - 1
        BY <1>1, <1>2, <1>4, <2>3, <3>3 DEF Screen!TypeOnPage
      <4>2. Screen!OnText' /\ screen_pc'[w] = "wrap"
        BY <1>2, <1>3, <1>4, <3>1, <3>3, <4>1 DEF Screen!OnText
      <4>3. Screen!Halfway(w)'
        BY <4>2 DEF Screen!Halfway
      <4> QED BY Zenon, <1>6, <1>7, <3>1, <3>2, <4>3, ScreenOthersIdle
    <3>4. CASE ~back /\ col + 1 # wc
      <4>1. row' = row /\ col' = col + 1
        BY <1>1, <1>2, <1>4, <2>3, <3>4 DEF Screen!TypeOnPage
      <4>2. cursor_x' + 1 = col' /\ cursor_y' + top' + 1 = row' /\ ~Screen!Below' /\ screen_pc'[w] = "advance"
        BY <1>2, <1>3, <1>4, <3>1, <3>4, <4>1 DEF Screen!Below
      <4>3. Screen!Halfway(w)'
        BY <4>2 DEF Screen!Halfway
      <4> QED BY Zenon, <1>6, <1>7, <3>1, <3>2, <4>3, ScreenOthersIdle
    <3>5. CASE ~back /\ col + 1 = wc
      <4>1. row' = row + 1 /\ col' = 0
        BY <1>1, <1>2, <1>4, <2>3, <3>5 DEF Screen!TypeOnPage
      <4>2. Screen!EndOfRow(wc - 1)' /\ screen_pc'[w] = "advance"
        BY <1>2, <1>3, <1>4, <3>1, <3>5, <4>1 DEF Screen!EndOfRow
      <4>3. Screen!Halfway(w)'
        BY <4>2 DEF Screen!Halfway
      <4> QED BY Zenon, <1>6, <1>7, <3>1, <3>2, <4>3, ScreenOthersIdle
    <3> QED BY <3>3, <3>4, <3>5
  <2> QED BY <2>1, <2>2, <2>3
<1> QED BY <1>3, <1>4, <1>5, <1>8

\* efifb_putchar, to the step of the cursor.
LEMMA ScreenPutchar == ASSUME Screen!Finiteness, Screen!Sane, Screen!IInv, NEW w \in Writers, NEW c \in Screen!Chars, Screen!efifb_putchar(w, c) PROVE Screen!IInv'
<1> DEFINE back == c = "del" /\ cursor_x >= 1
           x == IF back THEN cursor_x - 1 ELSE cursor_x
           ch == IF c = "a" THEN c ELSE Screen!Blank
<1>1. /\ screen_pc[w] = "next" /\ UNCHANGED <<gfx_mode, open, drawing>> /\ screen_raced' \in BOOLEAN
      /\ screen_raced' => text' = Screen!FirstPage /\ row' = 1 /\ col' = 0 /\ top' = 0
  BY DEF Screen!efifb_putchar, Screen!IInv, Screen!Types
<1>2. /\ c = "cr" => cursor_x' = 0 /\ UNCHANGED <<cells, cursor_y, screen_pc, outside>>
      /\ c = "nl" => /\ cursor_x' = 0 /\ cursor_y' = cursor_y + 1
                     /\ screen_pc' = [screen_pc EXCEPT ![w] = "wrap"] /\ UNCHANGED <<cells, outside>>
      /\ c \notin {"cr", "nl"} =>
            /\ cursor_x' = x /\ Screen!Draw(x, cursor_y, ch) /\ UNCHANGED cursor_y
            /\ screen_pc' = [screen_pc EXCEPT ![w] = IF back THEN "wrap" ELSE "advance"]
  BY DEF Screen!efifb_putchar
<1>3. wc \in Nat \ {0} /\ hc \in Nat \ {0} /\ cursor_x \in Nat /\ cursor_y \in Nat
  BY ScreenSizes DEF Screen!IInv, Screen!Types
<1>4. ~screen_raced' => /\ Screen!Alone' /\ ~outside' /\ text' \in Seq(Screen!Line) /\ row' \in Nat /\ col' \in Screen!Cols /\ top' \in Nat
  BY ScreenTypes
<1>5. text' \in Seq(Screen!Line) /\ row' \in Nat /\ col' \in Screen!Cols /\ top' \in Nat
  BY <1>1, <1>4, ScreenSizes
<1>6. cursor_x' \in Nat /\ cursor_y' \in Nat /\ screen_pc' \in [Writers -> Screen!Between \cup {"advance", "wrap", "scroll"}]
  <2>1. x \in Nat
    BY <1>3
  <2>2. screen_pc \in [Writers -> Screen!Between \cup {"advance", "wrap", "scroll"}]
    BY DEF Screen!IInv, Screen!Types
  <2> QED BY <1>2, <1>3, <2>1, <2>2
<1>7. cells' \in [Screen!Rows -> Screen!Line] /\ outside' \in BOOLEAN
  <2>1. cells \in [Screen!Rows -> Screen!Line] /\ outside \in BOOLEAN
    BY DEF Screen!IInv, Screen!Types
  <2>2. CASE c \in {"cr", "nl"}
    BY <1>2, <2>1, <2>2
  <2>3. CASE c \notin {"cr", "nl"}
    <3>1. ch \in {"a", Screen!Blank, Screen!Other}
      OBVIOUS
    <3>2. CASE x \in Screen!Cols /\ cursor_y \in Screen!Rows
      <4>1. cells' = [cells EXCEPT ![cursor_y][x] = ch] /\ UNCHANGED outside
        BY <1>2, <2>3, <3>2 DEF Screen!Draw
      <4>2. [cells[cursor_y] EXCEPT ![x] = ch] \in Screen!Line
        BY <2>1, <3>1, <3>2 DEF Screen!Line
      <4> QED BY <2>1, <3>2, <4>1, <4>2
    <3>3. CASE ~(x \in Screen!Cols /\ cursor_y \in Screen!Rows)
      BY Zenon, <1>2, <2>1, <2>3, <3>3 DEF Screen!Draw
    <3> QED BY <3>2, <3>3
  <2> QED BY <2>2, <2>3
<1>8. Screen!Types'
  <2>1. /\ Screen!Rows' = Screen!Rows /\ Screen!Cols' = Screen!Cols /\ Screen!Line' = Screen!Line /\ Screen!Between' = Screen!Between
    BY DEF Screen!Rows, Screen!Cols, Screen!Line, Screen!Between, Screen!Blank, Screen!Other
  <2> QED BY <1>1, <1>5, <1>6, <1>7, <2>1 DEF Screen!IInv, Screen!Types
<1>9. Screen!Bounded'
  <2>1. /\ cursor_x <= wc - 1 + Screen!Cardinality(Screen!In({"wrap"}))
        /\ cursor_y + (IF cursor_x >= wc THEN 1 ELSE 0) <= hc - 1 + Screen!Cardinality(Screen!In({"wrap", "scroll"}))
    BY DEF Screen!IInv, Screen!Bounded
  <2>2. CASE c = "cr"
    <3>1. Screen!In({"wrap"})' = Screen!In({"wrap"}) /\ Screen!In({"wrap", "scroll"})' = Screen!In({"wrap", "scroll"})
      BY <1>2, <2>2 DEF Screen!In
    <3>2. Screen!Cardinality(Screen!In({"wrap"})) \in Nat /\ Screen!Cardinality(Screen!In({"wrap", "scroll"})) \in Nat
      BY DEF Screen!Finiteness, Screen!In, Screen!Sane
    <3> QED BY <1>2, <1>3, <2>1, <2>2, <3>1, <3>2 DEF Screen!Bounded
  <2>3. CASE c = "nl"
    <3>1. /\ Screen!Cardinality(Screen!In({"wrap"})') = Screen!Cardinality(Screen!In({"wrap"})) + 1 /\ Screen!Cardinality(Screen!In({"wrap"})) \in Nat
          /\ Screen!Cardinality(Screen!In({"wrap", "scroll"})') = Screen!Cardinality(Screen!In({"wrap", "scroll"})) + 1
          /\ Screen!Cardinality(Screen!In({"wrap", "scroll"})) \in Nat
      <4>1. Screen!Types /\ screen_pc' = [screen_pc EXCEPT ![w] = "wrap"]
        BY <1>2, <2>3 DEF Screen!IInv
      <4>2. /\ "wrap" \in {"wrap"} /\ "wrap" \in {"wrap", "scroll"}
            /\ screen_pc[w] \notin {"wrap"} /\ screen_pc[w] \notin {"wrap", "scroll"}
        BY <1>1
      <4> QED BY Zenon, <4>1, <4>2, ScreenWrapping, ScreenScrolling
    <3> QED BY <1>2, <1>3, <2>1, <2>3, <3>1 DEF Screen!Bounded
  <2>4. CASE c \notin {"cr", "nl"}
    <3>1. /\ Screen!Cardinality(Screen!In({"wrap"})') \in Nat /\ Screen!Cardinality(Screen!In({"wrap"})) \in Nat
          /\ Screen!Cardinality(Screen!In({"wrap", "scroll"})') \in Nat /\ Screen!Cardinality(Screen!In({"wrap", "scroll"})) \in Nat
          /\ Screen!Cardinality(Screen!In({"wrap"})') = Screen!Cardinality(Screen!In({"wrap"})) + (IF back THEN 1 ELSE 0)
          /\ Screen!Cardinality(Screen!In({"wrap", "scroll"})') = Screen!Cardinality(Screen!In({"wrap", "scroll"})) + (IF back THEN 1 ELSE 0)
      <4>1. CASE back
        <5>1. screen_pc' = [screen_pc EXCEPT ![w] = "wrap"]
          BY <1>2, <2>4, <4>1
        <5> QED BY Zenon, <1>1, <4>1, <5>1, ScreenWrapping, ScreenScrolling DEF Screen!IInv
      <4>2. CASE ~back
        <5>1. screen_pc' = [screen_pc EXCEPT ![w] = "advance"]
          BY <1>2, <2>4, <4>2
        <5>2. /\ Screen!Cardinality(Screen!In({"wrap"})') = Screen!Cardinality(Screen!In({"wrap"})) /\ Screen!Cardinality(Screen!In({"wrap"})) \in Nat
              /\ Screen!Cardinality(Screen!In({"wrap", "scroll"})') = Screen!Cardinality(Screen!In({"wrap", "scroll"}))
              /\ Screen!Cardinality(Screen!In({"wrap", "scroll"})) \in Nat
          <6>1. Screen!Types /\ screen_pc[w] \notin {"wrap"} /\ screen_pc[w] \notin {"wrap", "scroll"}
            BY <1>1 DEF Screen!IInv
          <6>2. "advance" \notin {"wrap"} /\ "advance" \notin {"wrap", "scroll"}
            OBVIOUS
          <6> QED BY Zenon, <5>1, <6>1, <6>2, ScreenWrapping, ScreenScrolling
        <5> QED BY <4>2, <5>2
      <4> QED BY <4>1, <4>2
    <3>2. cursor_x' <= cursor_x /\ cursor_y' = cursor_y
      BY <1>2, <1>3, <2>4
    <3> QED BY <1>3, <1>6, <2>1, <3>1, <3>2 DEF Screen!Bounded
  <2> QED BY <2>2, <2>3, <2>4
<1> QED BY <1>4, <1>8, <1>9 DEF Screen!IInv, Screen!InsideUnlessRaced

\* What is known of the writer in efifb_putchar that is alone there.
LEMMA ScreenIsAlone ==
  ASSUME Screen!IInv, NEW w \in Writers, screen_pc[w] \notin Screen!Between, ~screen_raced
  PROVE  Screen!Mirrors /\ Screen!Fits /\ Screen!Halfway(w) /\ \A v \in Writers \ {w} : screen_pc[v] \in Screen!Between
BY DEF Screen!IInv, Screen!Alone

\* The cursor advances.
LEMMA ScreenAdvances == ASSUME Screen!Finiteness, Screen!Sane, Screen!IInv, NEW w \in Writers, Screen!Advance(w) PROVE Screen!IInv'
<1>1. /\ screen_pc[w] = "advance" /\ cursor_x' = cursor_x + 1 /\ screen_pc' = [screen_pc EXCEPT ![w] = "wrap"]
      /\ UNCHANGED <<cells, cursor_y, gfx_mode, open, drawing, text, row, col, top, screen_raced, outside>>
  BY DEF Screen!Advance, Screen!textVars
<1>2. /\ wc \in Nat \ {0} /\ hc \in Nat \ {0} /\ cursor_x \in Nat /\ cursor_y \in Nat
  BY DEF Screen!Sane, Screen!IInv, Screen!Types
<1>3. Screen!Types'
  BY <1>1 DEF Screen!IInv, Screen!Types, Screen!Rows, Screen!Cols, Screen!Line, Screen!Between
<1>4. Screen!Bounded'
  <2>1. /\ cursor_x <= wc - 1 + Screen!Cardinality(Screen!In({"wrap"}))
        /\ cursor_y + (IF cursor_x >= wc THEN 1 ELSE 0) <= hc - 1 + Screen!Cardinality(Screen!In({"wrap", "scroll"}))
    BY DEF Screen!IInv, Screen!Bounded
  <2>2. /\ Screen!Cardinality(Screen!In({"wrap"})') = Screen!Cardinality(Screen!In({"wrap"})) + 1 /\ Screen!Cardinality(Screen!In({"wrap"})) \in Nat
        /\ Screen!Cardinality(Screen!In({"wrap", "scroll"})') = Screen!Cardinality(Screen!In({"wrap", "scroll"})) + 1
        /\ Screen!Cardinality(Screen!In({"wrap", "scroll"})) \in Nat
    BY Zenon, <1>1, ScreenWrapping, ScreenScrolling DEF Screen!IInv
  <2> QED BY <1>1, <1>2, <2>1, <2>2 DEF Screen!Bounded
<1>5. ASSUME ~screen_raced' PROVE Screen!Alone'
  <2>1. Screen!Types /\ Screen!Mirrors /\ Screen!Fits /\ Screen!Halfway(w) /\ \A v \in Writers \ {w} : screen_pc[v] \in Screen!Between
    BY <1>1, <1>5, ScreenIsAlone DEF Screen!Between, Screen!IInv
  <2>2. Screen!Mirrors' /\ Screen!Fits'
    BY <1>1, <2>1 DEF Screen!Mirrors, Screen!Rows, Screen!Fits, Screen!Below, Screen!BlankRow, Screen!Cols
  <2>3. Screen!OnText' \/ Screen!EndOfRow(wc)'
    BY <1>1, <1>2, <2>1 DEF Screen!Halfway, Screen!EndOfRow, Screen!OnText
  <2>4. Screen!Halfway(w)' /\ "wrap" \notin Screen!Between
    <3>1. screen_pc'[w] = "wrap"
      BY <1>1, <2>1 DEF Screen!Types
    <3> QED BY <2>3, <3>1 DEF Screen!Halfway, Screen!Between
  <2> QED BY Zenon, <1>1, <2>1, <2>2, <2>4, ScreenOthersIdle
<1> QED BY <1>1, <1>3, <1>4, <1>5 DEF Screen!IInv, Screen!InsideUnlessRaced

\* efifb_check_scroll: the end of the line.
LEMMA ScreenWraps == ASSUME Screen!Finiteness, Screen!Sane, Screen!IInv, NEW w \in Writers, Screen!Wrap(w) PROVE Screen!IInv'
<1>1. /\ screen_pc[w] = "wrap" /\ screen_pc' = [screen_pc EXCEPT ![w] = "scroll"]
      /\ cursor_x' = IF cursor_x >= wc THEN 0 ELSE cursor_x
      /\ cursor_y' = IF cursor_x >= wc THEN cursor_y + 1 ELSE cursor_y
      /\ UNCHANGED <<cells, gfx_mode, open, drawing, text, row, col, top, screen_raced, outside>>
  BY DEF Screen!Wrap, Screen!AtEnd, Screen!textVars
<1>2. /\ wc \in Nat \ {0} /\ hc \in Nat \ {0} /\ cursor_x \in Nat /\ cursor_y \in Nat
  BY DEF Screen!Sane, Screen!IInv, Screen!Types
<1>3. Screen!Types'
  <2>1. cursor_x' \in Nat /\ cursor_y' \in Nat
    BY <1>1, <1>2
  <2> QED BY <1>1, <2>1 DEF Screen!IInv, Screen!Types, Screen!Rows, Screen!Cols, Screen!Line, Screen!Between
<1>4. Screen!Bounded'
  <2>1. /\ cursor_x <= wc - 1 + Screen!Cardinality(Screen!In({"wrap"}))
        /\ cursor_y + (IF cursor_x >= wc THEN 1 ELSE 0) <= hc - 1 + Screen!Cardinality(Screen!In({"wrap", "scroll"}))
    BY DEF Screen!IInv, Screen!Bounded
  <2>2. /\ Screen!Cardinality(Screen!In({"wrap"})') \in Nat
        /\ Screen!Cardinality(Screen!In({"wrap", "scroll"})') = Screen!Cardinality(Screen!In({"wrap", "scroll"}))
        /\ Screen!Cardinality(Screen!In({"wrap", "scroll"})) \in Nat
    BY Zenon, <1>1, ScreenWrapping, ScreenScrolling DEF Screen!IInv
  <2>3. cursor_x' <= wc - 1 /\ cursor_x' \in Nat
    BY <1>1, <1>2
  <2>4. cursor_y' + (IF cursor_x' >= wc THEN 1 ELSE 0) <= hc - 1 + Screen!Cardinality(Screen!In({"wrap", "scroll"}))
    BY <1>1, <1>2, <2>1, <2>2, <2>3
  <2> QED BY <1>2, <2>2, <2>3, <2>4 DEF Screen!Bounded
<1>5. ASSUME ~screen_raced' PROVE Screen!Alone'
  <2>1. Screen!Types /\ Screen!Mirrors /\ Screen!Fits /\ Screen!Halfway(w) /\ \A v \in Writers \ {w} : screen_pc[v] \in Screen!Between
    BY <1>1, <1>5, ScreenIsAlone DEF Screen!Between, Screen!IInv
  <2>2. Screen!Mirrors' /\ Screen!Fits'
    BY <1>1, <2>1 DEF Screen!Mirrors, Screen!Rows, Screen!Fits, Screen!Below, Screen!BlankRow, Screen!Cols
  <2>3. Screen!OnText'
    <3>1. col \in Nat /\ col < wc /\ row \in Nat /\ top \in Nat
      BY <2>1, ScreenSizes DEF Screen!Types
    <3>2. CASE Screen!OnText
      BY <1>1, <1>2, <3>1, <3>2 DEF Screen!OnText
    <3>3. CASE Screen!EndOfRow(wc)
      BY <1>1, <1>2, <3>1, <3>3 DEF Screen!OnText, Screen!EndOfRow
    <3> QED BY <1>1, <2>1, <3>2, <3>3 DEF Screen!Halfway
  <2>4. Screen!Halfway(w)' /\ "scroll" \notin Screen!Between
    <3>1. screen_pc'[w] = "scroll"
      BY <1>1, <2>1 DEF Screen!Types
    <3> QED BY <2>3, <3>1 DEF Screen!Halfway, Screen!Between
  <2> QED BY Zenon, <1>1, <2>1, <2>2, <2>4, ScreenOthersIdle
<1> QED BY <1>1, <1>3, <1>4, <1>5 DEF Screen!IInv, Screen!InsideUnlessRaced

\* efifb_check_scroll: the end of the screen.
LEMMA ScreenScrolls == ASSUME Screen!Finiteness, Screen!Sane, Screen!IInv, NEW w \in Writers, Screen!Scroll(w) PROVE Screen!IInv'
<1>1. /\ screen_pc[w] = "scroll" /\ screen_pc' = [screen_pc EXCEPT ![w] = "next"]
      /\ cursor_y >= hc => cells' = Screen!Scrolled /\ cursor_x' = 0 /\ cursor_y' = hc - 1 /\ top' = IF screen_raced THEN top ELSE top + 1
      /\ ~(cursor_y >= hc) => UNCHANGED <<cells, cursor_x, cursor_y, top>>
      /\ UNCHANGED <<gfx_mode, open, drawing, text, row, col, screen_raced, outside>>
  BY DEF Screen!Scroll
<1>2. /\ wc \in Nat \ {0} /\ hc \in Nat \ {0} /\ cursor_x \in Nat /\ cursor_y \in Nat /\ Screen!Rows = 0 .. hc - 1
      /\ Screen!BlankRow \in Screen!Line /\ cells \in [Screen!Rows -> Screen!Line] /\ row \in Nat /\ top \in Nat
  BY ScreenSizes DEF Screen!IInv, Screen!Types
<1>3. Screen!Types'
  <2>1. Screen!Scrolled \in [Screen!Rows -> Screen!Line]
    <3>1. \A y \in Screen!Rows : y < hc - 1 => y + 1 \in Screen!Rows
      BY <1>2
    <3> QED BY <1>2, <3>1 DEF Screen!Scrolled
  <2>2. cells' \in [Screen!Rows -> Screen!Line] /\ cursor_x' \in Nat /\ cursor_y' \in Nat /\ top' \in Nat
    BY <1>1, <1>2, <2>1
  <2>3. Screen!Rows' = Screen!Rows /\ Screen!Cols' = Screen!Cols /\ Screen!Line' = Screen!Line
    BY DEF Screen!Rows, Screen!Cols, Screen!Line, Screen!Blank, Screen!Other
  <2> QED BY <1>1, <2>2, <2>3 DEF Screen!IInv, Screen!Types, Screen!Between
<1>4. Screen!Bounded'
  <2>1. /\ cursor_x <= wc - 1 + Screen!Cardinality(Screen!In({"wrap"}))
        /\ cursor_y + (IF cursor_x >= wc THEN 1 ELSE 0) <= hc - 1 + Screen!Cardinality(Screen!In({"wrap", "scroll"}))
    BY DEF Screen!IInv, Screen!Bounded
  <2>2. /\ Screen!Cardinality(Screen!In({"wrap"})') = Screen!Cardinality(Screen!In({"wrap"})) /\ Screen!Cardinality(Screen!In({"wrap"})) \in Nat
        /\ Screen!Cardinality(Screen!In({"wrap", "scroll"})') + 1 = Screen!Cardinality(Screen!In({"wrap", "scroll"}))
        /\ Screen!Cardinality(Screen!In({"wrap", "scroll"})') \in Nat /\ Screen!Cardinality(Screen!In({"wrap", "scroll"})) \in Nat
    <3>1. "next" \notin {"wrap"} /\ "next" \notin {"wrap", "scroll"} /\ screen_pc[w] \notin {"wrap"} /\ screen_pc[w] \in {"wrap", "scroll"}
      BY <1>1
    <3> QED BY Zenon, <1>1, <3>1, ScreenWrapping, ScreenScrolling DEF Screen!IInv
  <2>3. Screen!Cardinality(Screen!In({"wrap"})) <= Screen!Cardinality(Screen!In({"wrap", "scroll"})')
    <3>1. Screen!In({"wrap"}) \subseteq Screen!In({"wrap", "scroll"})' /\ Screen!In({"wrap", "scroll"})' \subseteq Writers
      BY <1>1 DEF Screen!In, Screen!IInv, Screen!Types
    <3>2. Screen!IsFiniteSet(Screen!In({"wrap", "scroll"})')
      BY Zenon, <3>1 DEF Screen!Finiteness, Screen!Sane
    <3> QED BY <3>1, <3>2 DEF Screen!Finiteness
  <2>4. CASE cursor_y >= hc
    BY <1>1, <1>2, <2>2, <2>4 DEF Screen!Bounded
  <2>5. CASE ~(cursor_y >= hc)
    BY <1>1, <1>2, <2>1, <2>2, <2>3, <2>5 DEF Screen!Bounded
  <2> QED BY <2>4, <2>5
<1>5. ASSUME ~screen_raced' PROVE Screen!Alone'
  <2>1. /\ Screen!Types /\ Screen!Mirrors /\ Screen!Fits /\ Screen!OnText /\ ~screen_raced
        /\ \A v \in Writers \ {w} : screen_pc[v] \in Screen!Between
    BY <1>1, <1>5, ScreenIsAlone DEF Screen!Between, Screen!IInv, Screen!Halfway
  <2>2. CASE ~(cursor_y >= hc)
    <3>1. Screen!Mirrors' /\ Screen!Fits'
      BY <1>1, <2>1, <2>2 DEF Screen!Mirrors, Screen!Rows, Screen!Fits, Screen!Below, Screen!BlankRow, Screen!Cols
    <3>2. Screen!OnText' /\ ~Screen!Below'
      BY <1>1, <1>2, <2>1, <2>2 DEF Screen!OnText, Screen!Below
    <3> QED BY <1>1, <2>1, <3>1, <3>2, ScreenOthersIdle DEF Screen!Halfway, Screen!Types
  <2>3. CASE cursor_y >= hc
    <3>1. /\ row = top + hc + 1 /\ cursor_y = hc /\ text[row] = Screen!BlankRow /\ col = 0 /\ Len(text) = row
          /\ cells' = Screen!Scrolled /\ cursor_x' = 0 /\ cursor_y' = hc - 1 /\ top' = top + 1
      BY <1>1, <1>2, <2>1, <2>3 DEF Screen!Fits, Screen!OnText, Screen!Below
    <3>2. ASSUME NEW y \in Screen!Rows PROVE cells'[y] = text'[top' + y + 1]
      <4>1. y \in Nat /\ y <= hc - 1 /\ top' + y + 1 = top + (y + 1) + 1
        BY <1>2, <3>1
      <4>2. CASE y < hc - 1
        <5>1. y + 1 \in Screen!Rows /\ cells'[y] = cells[y + 1]
          BY <1>2, <3>1, <4>1, <4>2 DEF Screen!Scrolled
        <5> QED BY <1>1, <2>1, <4>1, <5>1 DEF Screen!Mirrors
      <4>3. CASE ~(y < hc - 1)
        <5>1. cells'[y] = Screen!BlankRow /\ top' + y + 1 = row
          BY <1>2, <3>1, <4>1, <4>3 DEF Screen!Scrolled
        <5> QED BY <1>1, <3>1, <5>1
      <4> QED BY <4>2, <4>3
    <3>3. Screen!Mirrors'
      BY <3>2 DEF Screen!Mirrors, Screen!Rows
    <3>4. Screen!Fits' /\ Screen!OnText' /\ ~Screen!Below'
      BY <1>1, <1>2, <3>1 DEF Screen!Fits, Screen!OnText, Screen!Below
    <3> QED BY <1>1, <2>1, <3>3, <3>4, ScreenOthersIdle DEF Screen!Halfway, Screen!Types
  <2> QED BY <2>2, <2>3
<1> QED BY <1>1, <1>3, <1>4, <1>5 DEF Screen!IInv, Screen!InsideUnlessRaced

\* A step outside efifb_putchar that leaves the screen and the text alone.
LEMMA ScreenSameText ==
  ASSUME Screen!IInv, UNCHANGED <<cells, cursor_x, cursor_y, text, row, col, top, screen_raced, outside>>,
         \A w \in Writers : screen_pc'[w] = screen_pc[w] \/ (screen_pc[w] \in Screen!Between /\ screen_pc'[w] \in Screen!Between)
  PROVE  Screen!Bounded' /\ Screen!InsideUnlessRaced' /\ (~screen_raced' => Screen!Alone')
<1>1. Screen!In({"wrap"})' = Screen!In({"wrap"}) /\ Screen!In({"wrap", "scroll"})' = Screen!In({"wrap", "scroll"})
  BY DEF Screen!In, Screen!Between
<1>2. Screen!Bounded' /\ Screen!InsideUnlessRaced'
  BY <1>1 DEF Screen!IInv, Screen!Bounded, Screen!InsideUnlessRaced
<1>3. Screen!Mirrors' = Screen!Mirrors /\ Screen!Below' = Screen!Below /\ Screen!OnText' = Screen!OnText
  BY DEF Screen!Mirrors, Screen!Rows, Screen!Below, Screen!OnText
<1>4. Screen!Fits' = Screen!Fits
  BY DEF Screen!Fits, Screen!Below, Screen!BlankRow, Screen!Cols
<1>5. \A x : Screen!EndOfRow(x)' = Screen!EndOfRow(x)
  BY DEF Screen!EndOfRow
<1>6. ASSUME ~screen_raced', NEW w \in Writers PROVE Screen!Halfway(w)'
  <2>1. Screen!Halfway(w)
    BY <1>6 DEF Screen!IInv, Screen!Alone
  <2> QED BY <1>3, <1>5, <2>1 DEF Screen!Halfway, Screen!Between
<1>7. \A w \in Writers : (screen_pc'[w] \in Screen!Between') <=> (screen_pc[w] \in Screen!Between)
  BY DEF Screen!Between
<1> QED BY Zenon, <1>2, <1>3, <1>4, <1>6, <1>7 DEF Screen!IInv, Screen!Alone

\* Pixels that a user of graphics draws.
LEMMA ScreenPixels ==
  ASSUME Screen!Sane, Screen!IInv, NEW u \in Users, NEW x \in Screen!Cols, NEW y \in Screen!Rows, Screen!Pixels(u, x, y)
  PROVE  Screen!IInv'
<1>1. /\ cells' = [cells EXCEPT ![y][x] = Screen!Other]
      /\ text' = IF screen_raced THEN text ELSE [text EXCEPT ![top + y + 1][x] = Screen!Other]
      /\ UNCHANGED <<cursor_x, cursor_y, gfx_mode, screen_pc, open, drawing, row, col, top, screen_raced, outside>>
  BY DEF Screen!Pixels
<1>2. /\ hc \in Nat \ {0} /\ Screen!Rows = 0 .. hc - 1 /\ cells \in [Screen!Rows -> Screen!Line] /\ text \in Seq(Screen!Line)
      /\ row \in Nat /\ top \in Nat /\ y \in Nat
  BY ScreenSizes DEF Screen!IInv, Screen!Types
<1>3. cells' \in [Screen!Rows -> Screen!Line]
  <2>1. [cells[y] EXCEPT ![x] = Screen!Other] \in Screen!Line
    BY <1>2 DEF Screen!Line
  <2> QED BY <1>1, <1>2, <2>1
<1>4. ~screen_raced => Screen!Mirrors /\ Screen!Fits /\ Len(text) >= top + hc
  BY <1>2 DEF Screen!IInv, Screen!Alone, Screen!Fits, Screen!Below
<1>5. ~screen_raced =>
        /\ top + y + 1 \in 1 .. Len(text) /\ text' \in Seq(Screen!Line) /\ Len(text') = Len(text)
        /\ text'[top + y + 1] = [text[top + y + 1] EXCEPT ![x] = Screen!Other]
        /\ \A i \in 1 .. Len(text) : i # top + y + 1 => text'[i] = text[i]
  <2> SUFFICES ASSUME ~screen_raced PROVE
        /\ top + y + 1 \in 1 .. Len(text) /\ text' \in Seq(Screen!Line) /\ Len(text') = Len(text)
        /\ text'[top + y + 1] = [text[top + y + 1] EXCEPT ![x] = Screen!Other]
        /\ \A i \in 1 .. Len(text) : i # top + y + 1 => text'[i] = text[i]
    OBVIOUS
  <2>1. top + y + 1 \in 1 .. Len(text)
    BY <1>2, <1>4
  <2>2. [text[top + y + 1] EXCEPT ![x] = Screen!Other] \in Screen!Line
    <3>1. text[top + y + 1] \in Screen!Line
      BY <1>2, <2>1
    <3> QED BY <3>1 DEF Screen!Line
  <2>3. text' = [text EXCEPT ![top + y + 1][x] = Screen!Other]
    BY <1>1
  <2>4. text' = [text EXCEPT ![top + y + 1] = [text[top + y + 1] EXCEPT ![x] = Screen!Other]]
    BY Zenon, <2>3
  <2> DEFINE i == top + y + 1
             l == [text[i] EXCEPT ![x] = Screen!Other]
  <2> HIDE DEF i, l
  <2>5. i \in 1 .. Len(text) /\ l \in Screen!Line /\ text' = [text EXCEPT ![i] = l]
    BY <2>1, <2>2, <2>4 DEF i, l
  <2>6. text' \in Seq(Screen!Line) /\ Len(text') = Len(text) /\ text'[i] = l /\ \A j \in 1 .. Len(text) : j # i => text'[j] = text[j]
    BY <1>2, <2>5
  <2> QED BY <2>5, <2>6 DEF i, l
<1>6. Screen!Types'
  <2>1. text' \in Seq(Screen!Line)
    BY <1>1, <1>2, <1>5
  <2>2. Screen!Rows' = Screen!Rows /\ Screen!Cols' = Screen!Cols /\ Screen!Line' = Screen!Line /\ Screen!Between' = Screen!Between
    BY DEF Screen!Rows, Screen!Cols, Screen!Line, Screen!Blank, Screen!Other, Screen!Between
  <2> QED BY <1>1, <1>3, <2>1, <2>2 DEF Screen!IInv, Screen!Types
<1>7. Screen!Bounded' /\ Screen!InsideUnlessRaced'
  BY <1>1 DEF Screen!IInv, Screen!Bounded, Screen!In, Screen!InsideUnlessRaced
<1>8. ASSUME ~screen_raced' PROVE Screen!Alone'
  <2>1. Screen!Mirrors'
    <3>1. ASSUME NEW z \in Screen!Rows PROVE cells'[z] = text'[top + z + 1]
      <4>1. cells[z] = text[top + z + 1] /\ top + z + 1 \in 1 .. Len(text) /\ z \in Nat
        BY <1>1, <1>2, <1>4, <1>8 DEF Screen!Mirrors
      <4>2. CASE z = y
        <5>1. cells'[z] = [cells[z] EXCEPT ![x] = Screen!Other]
          BY <1>1, <1>2, <4>2
        <5> QED BY <1>1, <1>5, <1>8, <4>1, <4>2, <5>1
      <4>3. CASE z # y
        BY <1>1, <1>2, <1>5, <1>8, <4>1, <4>3
      <4> QED BY <4>2, <4>3
    <3> QED BY <1>1, <3>1 DEF Screen!Mirrors, Screen!Rows
  <2>2. Screen!Fits'
    <3>1. Screen!Fits /\ Len(text') = Len(text) /\ \A i \in 1 .. Len(text) : i # top + y + 1 => text'[i] = text[i]
      BY <1>1, <1>4, <1>5, <1>8
    <3>2. Screen!Below => row \in 1 .. Len(text) /\ row # top + y + 1
      BY <1>2, <3>1 DEF Screen!Fits, Screen!Below
    <3>3. Screen!Below' = Screen!Below /\ Screen!BlankRow' = Screen!BlankRow
      BY <1>1 DEF Screen!Below, Screen!BlankRow, Screen!Cols, Screen!Blank
    <3> QED BY <1>1, <3>1, <3>2, <3>3 DEF Screen!Fits
  <2>3. Screen!Below' = Screen!Below /\ Screen!OnText' = Screen!OnText /\ \A w \in Writers : Screen!Halfway(w)' = Screen!Halfway(w)
    BY <1>1 DEF Screen!Below, Screen!OnText, Screen!Halfway, Screen!EndOfRow
  <2>4. Screen!Alone /\ Screen!Between' = Screen!Between
    BY <1>1, <1>8 DEF Screen!IInv, Screen!Between
  <2> QED BY Zenon, <1>1, <2>1, <2>2, <2>3, <2>4 DEF Screen!Alone
<1> QED BY <1>6, <1>7, <1>8 DEF Screen!IInv

\* Every step of the writers and of the users of /dev/fb0.
LEMMA ScreenNextIInv == ASSUME Screen!Finiteness, Screen!Sane, Screen!IInv, Screen!Next PROVE Screen!IInv'
<1>1. ASSUME NEW w \in Writers, Screen!efifb_write(w) \/ Screen!Return(w) PROVE Screen!IInv'
  <2>1. /\ screen_pc' \in [Writers -> Screen!Between \cup {"advance", "wrap", "scroll"}]
        /\ \A v \in Writers : screen_pc'[v] = screen_pc[v] \/ (screen_pc[v] \in Screen!Between /\ screen_pc'[v] \in Screen!Between)
    BY <1>1 DEF Screen!efifb_write, Screen!Return, Screen!Between, Screen!IInv, Screen!Types
  <2>2. UNCHANGED <<cells, cursor_x, cursor_y, gfx_mode, open, drawing, text, row, col, top, screen_raced, outside>>
    BY <1>1 DEF Screen!efifb_write, Screen!Return, Screen!textVars
  <2>3. Screen!Types'
    BY <2>1, <2>2 DEF Screen!IInv, Screen!Types, Screen!Rows, Screen!Cols, Screen!Line, Screen!Between
  <2> QED BY <2>1, <2>2, <2>3, ScreenSameText DEF Screen!IInv
<1>2. ASSUME NEW u \in Users, \/ Screen!efifb_open(u) \/ Screen!efifb_close(u) \/ Screen!efifb_file_write(u)
                              \/ Screen!efifb_mmap(u) \/ Screen!StopsDrawing(u)
      PROVE Screen!IInv'
  <2>1. /\ UNCHANGED <<cells, cursor_x, cursor_y, screen_pc, text, row, col, top, screen_raced, outside>>
        /\ gfx_mode' \in BOOLEAN /\ open' \subseteq Users /\ drawing' \subseteq Users
    BY <1>2 DEF Screen!efifb_open, Screen!efifb_close, Screen!efifb_file_write, Screen!efifb_mmap, Screen!StopsDrawing,
                Screen!textVars, Screen!IInv, Screen!Types
  <2>2. Screen!Types'
    BY <2>1 DEF Screen!IInv, Screen!Types, Screen!Rows, Screen!Cols, Screen!Line, Screen!Between
  <2> QED BY <2>1, <2>2, ScreenSameText DEF Screen!IInv
<1> QED BY <1>1, <1>2, ScreenPutchar, ScreenAdvances, ScreenWraps, ScreenScrolls, ScreenPixels DEF Screen!Next

\* A step that leaves the variables alone keeps the invariant.
LEMMA ScreenStutterIInv == ASSUME Screen!IInv, UNCHANGED Screen!vars PROVE Screen!IInv'
<1>1. Screen!Types'
  BY DEF Screen!vars, Screen!IInv, Screen!Types, Screen!Rows, Screen!Cols, Screen!Line, Screen!Between
<1> QED BY <1>1, ScreenSameText DEF Screen!vars, Screen!IInv

\* In such a state the properties hold.
LEMMA ScreenIInvSafe == ASSUME Screen!Finiteness, Screen!Sane, Screen!IInv PROVE Screen!TypeOK /\ Screen!ShowsLastRows /\ Screen!InsideUnlessRaced
<1>1. /\ Screen!Cardinality(Writers) \in Nat
      /\ Screen!Cardinality(Screen!In({"wrap"})) \in Nat /\ Screen!Cardinality(Screen!In({"wrap"})) <= Screen!Cardinality(Writers)
      /\ Screen!Cardinality(Screen!In({"wrap", "scroll"})) \in Nat /\ Screen!Cardinality(Screen!In({"wrap", "scroll"})) <= Screen!Cardinality(Writers)
  BY DEF Screen!Finiteness, Screen!In, Screen!Sane
<1>2. cursor_x \in 0 .. wc + Screen!Cardinality(Writers) /\ cursor_y \in 0 .. hc + Screen!Cardinality(Writers)
  BY <1>1 DEF Screen!IInv, Screen!Bounded, Screen!Types, Screen!Sane
<1>3. Screen!TypeOK
  BY <1>2 DEF Screen!IInv, Screen!Types, Screen!TypeOK, Screen!Line
<1>4. Screen!ShowsLastRows
  <2> SUFFICES ASSUME ~screen_raced, \A w \in Writers : screen_pc[w] \in Screen!Between
               PROVE  /\ cursor_x = col /\ cursor_y = row - (Len(text) - hc) - 1
                      /\ \A y \in Screen!Rows : cells[y] = text[Len(text) - hc + y + 1]
    BY DEF Screen!ShowsLastRows
  <2>1. /\ cursor_x = col /\ cursor_y + top + 1 = row /\ Len(text) = top + hc
        /\ \A y \in Screen!Rows : cells[y] = text[top + y + 1]
    BY ScreenAtRest
  <2>2. Len(text) - hc = top /\ top \in Nat /\ row \in Nat /\ cursor_y \in Nat
    BY <2>1 DEF Screen!Sane, Screen!IInv, Screen!Types
  <2> QED BY <2>1, <2>2
<1> QED BY <1>3, <1>4 DEF Screen!IInv
-----------------------------------------------------------------------------
(* The queue of sleepers: sleep_queue.c.                                   *)

CONSTANTS Sleepers, Queue, Times, Tick

VARIABLES next, prev, delta, status, walk, in, want, slept, odd, undef

Sleep == INSTANCE SleepQueue WITH Tasks <- Sleepers

ASSUME SleepSane == Sleep!Sane

\* The times that are asked for have a bound.
LEMMA SleepLimits == ASSUME Sleep!Sane PROVE Sleep!Limit \in Nat /\ \A n \in Times : n + Tick <= Sleep!Limit
<1>1. \E m \in {n + Tick : n \in Times} : \A n \in Times : n + Tick <= m
  <2>1. PICK m \in Times : \A n \in Times : n <= m
    BY DEF Sleep!Sane
  <2>2. \A n \in Times : n + Tick <= m + Tick
    BY <2>1 DEF Sleep!Sane
  <2> QED BY <2>2
<1>2. Sleep!Limit \in {n + Tick : n \in Times} /\ \A n \in Times : n + Tick <= Sleep!Limit
  BY <1>1 DEF Sleep!Limit
<1>3. PICK n \in Times : Sleep!Limit = n + Tick
  BY Zenon, <1>2
<1>4. n \in Nat /\ Tick \in Nat
  BY DEF Sleep!Sane
<1> QED BY <1>2, <1>3, <1>4

\* The three kinds of walk.
LEMMA SleepWalkIs ==
  ASSUME Sleep!Types
  PROVE  \/ walk = Sleep!Idle /\ walk.by # "sleeper" /\ walk.by # "tick"
         \/ /\ walk.by = "sleeper" /\ walk.task \in Sleepers /\ walk.cur \in Sleep!Nodes /\ walk.left \in 0 .. Sleep!Limit
            /\ walk # Sleep!Idle /\ walk \in [by : {"sleeper"}, task : Sleepers, cur : Sleep!Nodes, left : 0 .. Sleep!Limit]
         \/ /\ walk.by = "tick" /\ walk.cur \in Sleep!Nodes /\ walk.tmp \in Sleep!Nodes /\ walk.ns \in 1 .. Tick
            /\ walk # Sleep!Idle /\ walk \in [by : {"tick"}, cur : Sleep!Nodes, tmp : Sleep!Nodes, ns : 1 .. Tick]
BY DEF Sleep!Types, Sleep!Walks, Sleep!Idle

\* An empty queue.
LEMMA SleepInitIInv == ASSUME Sleep!Sane, Sleep!Init PROVE Sleep!IInv
<1> USE DEF Sleep!Init
<1>1. Sleep!Limit \in Nat /\ Tick <= Sleep!Limit
  BY SleepLimits DEF Sleep!Sane
<1>2. Sleep!TypeOK
  BY <1>1 DEF Sleep!TypeOK
<1>3. Sleep!Types
  BY <1>1, <1>2 DEF Sleep!Types, Sleep!Sane
<1>4. Sleep!Sleeper = Queue
  BY DEF Sleep!Sleeper, Sleep!Nodes
<1>5. Sleep!Alone
  BY <1>4 DEF Sleep!Alone, Sleep!Around, Sleep!Idle, Sleep!Sane
<1>6. Sleep!Timed
  BY <1>4 DEF Sleep!Timed
<1> QED BY <1>3, <1>5, <1>6 DEF Sleep!IInv

\* sys_clock_nanosleep, to the walk along the queue.
LEMMA SleepNanosleep ==
  ASSUME Sleep!Sane, Sleep!IInv, NEW t \in Sleepers, NEW time \in Times, Sleep!sys_clock_nanosleep(t, time)
  PROVE  Sleep!IInv'
<1>1. /\ Sleep!Free /\ t \notin in
      /\ walk' = [by |-> "sleeper", task |-> t, cur |-> next[Queue], left |-> time]
      /\ want' = [want EXCEPT ![t] = time]
      /\ undef' = IF next[t] = t THEN "no" ELSE "overwritten"
      /\ UNCHANGED <<next, prev, delta, status, in, slept, odd>>
  BY DEF Sleep!sys_clock_nanosleep
<1>2. time \in Nat /\ Tick \in Nat /\ Sleep!Limit \in Nat /\ time + Tick <= Sleep!Limit
  BY SleepLimits DEF Sleep!Sane
<1>3. Sleep!Types'
  <2>1. next[Queue] \in Sleep!Nodes
    BY Zenon DEF Sleep!IInv, Sleep!Types, Sleep!TypeOK, Sleep!Nodes
  <2>2. walk' \in Sleep!Walks
    BY <1>1, <1>2, <2>1 DEF Sleep!Walks
  <2>3. Sleep!TypeOK'
    BY <1>1 DEF Sleep!IInv, Sleep!Types, Sleep!TypeOK
  <2>4. want' \in [Sleepers -> Nat] /\ \A u \in Sleepers : want'[u] + Tick <= Sleep!Limit
    BY <1>1, <1>2 DEF Sleep!IInv, Sleep!Types
  <2> QED BY <1>1, <2>2, <2>3, <2>4 DEF Sleep!IInv, Sleep!Types
<1>4. ASSUME Sleep!Clean' PROVE Sleep!Alone' /\ Sleep!Timed'
  <2>1. Sleep!Clean /\ Sleep!Alone /\ Sleep!Timed /\ Sleep!Sleeper' = Sleep!Sleeper /\ t # Sleep!Sleeper /\ walk = Sleep!Idle
    BY Zenon, <1>1, <1>4 DEF Sleep!Clean, Sleep!IInv, Sleep!Sleeper, Sleep!Alone, Sleep!Sane, Sleep!Free
  <2>2. next[t] = t
    BY <2>1 DEF Sleep!Alone, Sleep!Around, Sleep!Nodes, Sleep!Sane
  <2>3. walk'.by = "sleeper" /\ walk'.task = t /\ walk'.cur = Sleep!Sleeper /\ walk'.left = time /\ want'[t] = time
    BY Zenon, <1>1 DEF Sleep!Sleeper, Sleep!IInv, Sleep!Types
  <2>4. Sleep!Alone'
    BY Zenon, <1>1, <2>1, <2>2, <2>3 DEF Sleep!Alone, Sleep!Around
  <2>5. \A u \in Sleepers : u # t => want'[u] = want[u]
    BY Zenon, <1>1 DEF Sleep!IInv, Sleep!Types
  <2>6. Sleep!Sleeper \in in \cup {Queue} /\ in \subseteq Sleepers
    BY Zenon, <2>1 DEF Sleep!Alone, Sleep!IInv, Sleep!Types, Sleep!TypeOK
  <2>7. walk.by # "tick" /\ walk'.by # "tick"
    BY Zenon, <2>1, <2>3 DEF Sleep!Idle
  <2>8. Sleep!Timed'
    BY <1>1, <2>1, <2>3, <2>5, <2>6, <2>7 DEF Sleep!Timed
  <2> QED BY Zenon, <2>4, <2>8
<1> QED BY <1>3, <1>4 DEF Sleep!IInv

\* The walk passes a descriptor.
LEMMA SleepPassing == ASSUME Sleep!Sane, Sleep!IInv, Sleep!Pass PROVE Sleep!IInv'
<1>1. /\ walk.by = "sleeper" /\ ~Sleep!Touch /\ Sleep!Passes
      /\ walk' = [walk EXCEPT !.cur = next[@], !.left = @ - delta[walk.cur]]
      /\ UNCHANGED <<next, prev, delta, status, in, want, slept, odd, undef>>
  BY DEF Sleep!Pass
<1>2. /\ walk.task \in Sleepers /\ walk.cur \in Sleep!Nodes /\ walk.left \in 0 .. Sleep!Limit /\ walk # Sleep!Idle
      /\ walk \in [by : {"sleeper"}, task : Sleepers, cur : Sleep!Nodes, left : 0 .. Sleep!Limit]
  BY <1>1, SleepWalkIs DEF Sleep!IInv
<1>3. walk.cur \in in /\ walk.cur \in Sleepers /\ walk.left >= delta[walk.cur] /\ walk.cur # Queue
  BY <1>1, <1>2 DEF Sleep!Touch, Sleep!Passes, Sleep!IInv, Sleep!Types, Sleep!TypeOK
<1>4. delta[walk.cur] \in 0 .. Sleep!Limit /\ next[walk.cur] \in Sleep!Nodes /\ Sleep!Limit \in Nat
  BY <1>2, <1>3, SleepLimits DEF Sleep!IInv, Sleep!Types, Sleep!TypeOK
<1>5. /\ walk' \in [by : {"sleeper"}, task : Sleepers, cur : Sleep!Nodes, left : 0 .. Sleep!Limit]
      /\ walk'.by = "sleeper" /\ walk'.task = walk.task /\ walk'.cur = next[walk.cur]
  <2>1. walk.left - delta[walk.cur] \in 0 .. Sleep!Limit
    BY <1>2, <1>3, <1>4
  <2>2. walk' = [by |-> "sleeper", task |-> walk.task, cur |-> next[walk.cur], left |-> walk.left - delta[walk.cur]]
    BY Zenon, <1>1, <1>2
  <2> QED BY <1>2, <1>4, <2>1, <2>2
<1>6. Sleep!Types'
  BY <1>1, <1>5 DEF Sleep!IInv, Sleep!Types, Sleep!TypeOK, Sleep!Walks
<1>7. ASSUME Sleep!Clean' PROVE Sleep!Alone' /\ Sleep!Timed'
  <2>1. Sleep!Clean /\ Sleep!Alone /\ Sleep!Timed /\ Sleep!Sleeper' = Sleep!Sleeper
    BY <1>1, <1>7 DEF Sleep!Clean, Sleep!IInv, Sleep!Sleeper
  <2>2. Sleep!Sleeper # Queue
    BY <1>1, <1>3, <2>1 DEF Sleep!Alone
  <2>3. next[walk.cur] \in in \cup {Queue}
    BY <1>2, <1>3, <2>1 DEF Sleep!Alone, Sleep!Around
  <2>4. Sleep!Alone'
    BY <1>1, <1>5, <2>1, <2>2, <2>3 DEF Sleep!Alone, Sleep!Around
  <2>5. Sleep!Timed'
    BY <1>1, <1>5, <2>1 DEF Sleep!Timed
  <2> QED BY <2>4, <2>5
<1> QED BY <1>6, <1>7 DEF Sleep!IInv
\* Linking a descriptor in keeps the links within the list.
LEMMA SleepLinks ==
  ASSUME Sleep!Types, NEW list \in Sleep!Nodes, NEW node \in Sleep!Nodes, Sleep!list_add_tail(list, node)
  PROVE  next' \in [Sleep!Nodes -> Sleep!Nodes] /\ prev' \in [Sleep!Nodes -> Sleep!Nodes]
BY DEF Sleep!list_add_tail, Sleep!Types, Sleep!TypeOK

\* The walk ends, and the descriptor is linked in.
LEMMA SleepEnqueuing == ASSUME Sleep!Sane, Sleep!IInv, Sleep!Enqueue PROVE Sleep!IInv'
<1> DEFINE t == walk.task
<1>1. /\ undef = "no" /\ walk.by = "sleeper" /\ ~Sleep!Touch /\ ~Sleep!Passes
      /\ in' = in \cup {t} /\ walk' = Sleep!Idle
      /\ status' = [status EXCEPT ![t] = "sleeping"]
      /\ UNCHANGED <<want, slept>>
  BY DEF Sleep!Enqueue
<1>2. walk.task \in Sleepers /\ walk.cur \in Sleep!Nodes /\ walk.left \in 0 .. Sleep!Limit /\ walk # Sleep!Idle /\ Sleep!Limit \in Nat
  BY <1>1, SleepWalkIs, SleepLimits DEF Sleep!IInv
<1>3. status' \in [Sleepers -> {"running", "sleeping"}] /\ in' \subseteq Sleepers /\ t \in Sleep!Nodes /\ Queue \in Sleep!Nodes
  BY <1>1, <1>2 DEF Sleep!IInv, Sleep!Types, Sleep!TypeOK, Sleep!Nodes
<1>4. CASE next[Queue] = Queue
  <2>1. Sleep!list_add_tail(Queue, t) /\ delta' = [delta EXCEPT ![t] = walk.left] /\ UNCHANGED <<odd, undef>>
    BY <1>4 DEF Sleep!Enqueue
  <2>2. next' \in [Sleep!Nodes -> Sleep!Nodes] /\ prev' \in [Sleep!Nodes -> Sleep!Nodes]
    BY <1>3, <2>1, SleepLinks DEF Sleep!IInv
  <2>3. Sleep!TypeOK'
    BY <1>1, <1>2, <1>3, <2>1, <2>2 DEF Sleep!IInv, Sleep!Types, Sleep!TypeOK
  <2>4. Sleep!Types'
    BY Zenon, <1>1, <2>3 DEF Sleep!IInv, Sleep!Types
  <2>5. ASSUME Sleep!Clean' PROVE Sleep!Alone' /\ Sleep!Timed'
    <3>1. Sleep!Clean /\ Sleep!Alone /\ Sleep!Timed /\ Sleep!Sleeper = Queue /\ t \notin in /\ walk.left = want[t] /\ t # Queue
      BY Zenon, <1>1, <1>2, <1>4, <2>1, <2>5 DEF Sleep!Clean, Sleep!IInv, Sleep!Sleeper, Sleep!Alone, Sleep!Sane
    <3>2. \A n \in Sleep!Nodes : next[n] = n /\ prev[n] = n
      BY <3>1 DEF Sleep!Alone, Sleep!Around
    <3>3. Sleep!Sleeper' = t
      BY <1>3, <2>1, <3>1, <3>2 DEF Sleep!list_add_tail, Sleep!Sleeper, Sleep!IInv, Sleep!Types, Sleep!TypeOK
    <3>4. \A n \in Sleep!Nodes : next'[n] = Sleep!Around(n)' /\ prev'[n] = Sleep!Around(n)'
      BY Zenon, <1>3, <2>1, <3>1, <3>2, <3>3 DEF Sleep!list_add_tail, Sleep!Around, Sleep!IInv, Sleep!Types, Sleep!TypeOK
    <3>5. \A u \in Sleepers : status'[u] = "sleeping" <=> u = t
      BY Zenon, <1>1, <1>2, <3>1 DEF Sleep!Alone, Sleep!IInv, Sleep!Types, Sleep!TypeOK, Sleep!Sane
    <3>6. Sleep!Alone'
      BY Zenon, <1>1, <2>1, <3>1, <3>3, <3>4, <3>5 DEF Sleep!Alone, Sleep!Idle
    <3>7. delta'[t] = want[t] /\ slept[t] = 0 /\ want[t] \in Nat
      BY <1>2, <2>1, <3>1 DEF Sleep!Alone, Sleep!IInv, Sleep!Types, Sleep!TypeOK
    <3>8. walk'.by # "tick" /\ walk.by # "tick"
      BY <1>1 DEF Sleep!Idle
    <3>9. Sleep!Timed'
      <4>1. \A u \in in' : u # t => slept'[u] >= want'[u] \/ "spurious" \in odd'
        <5>1. Queue \notin in
          BY DEF Sleep!IInv, Sleep!Types, Sleep!TypeOK, Sleep!Sane
        <5> QED BY <1>1, <2>1, <3>1, <5>1 DEF Sleep!Timed
      <4>2. delta'[t] + slept'[t] = want'[t] + 0 /\ want'[t] + 0 <= want'[t] + 0
        BY <1>1, <3>7
      <4> QED BY Zenon, <1>1, <3>3, <3>7, <3>8, <4>1, <4>2 DEF Sleep!Timed
    <3> QED BY <3>6, <3>9
  <2> QED BY <2>4, <2>5 DEF Sleep!IInv
<1>5. CASE next[Queue] # Queue
  <2>1. /\ odd' = odd \cup {"second"}
        /\ IF walk.cur = Queue THEN undef' = "overwritten" /\ UNCHANGED <<next, prev, delta>>
           ELSE /\ Sleep!list_add_tail(t, walk.cur)
                /\ delta' = [delta EXCEPT ![t] = walk.left, ![walk.cur] = @ - walk.left]
                /\ UNCHANGED undef
    BY <1>5 DEF Sleep!Enqueue
  <2>2. next' \in [Sleep!Nodes -> Sleep!Nodes] /\ prev' \in [Sleep!Nodes -> Sleep!Nodes]
    BY <1>2, <1>3, <2>1, SleepLinks DEF Sleep!IInv, Sleep!Types, Sleep!TypeOK
  <2>3. delta' \in [Sleepers -> 0 .. Sleep!Limit]
    <3>1. CASE walk.cur = Queue
      BY <2>1, <3>1 DEF Sleep!IInv, Sleep!Types, Sleep!TypeOK
    <3>2. CASE walk.cur # Queue
      <4>1. walk.cur \in Sleepers
        BY <1>2, <3>2 DEF Sleep!Nodes
      <4>2. delta[walk.cur] \in 0 .. Sleep!Limit /\ ~(walk.left >= delta[walk.cur])
        BY <1>1, <3>2, <4>1 DEF Sleep!Passes, Sleep!IInv, Sleep!Types, Sleep!TypeOK
      <4>3. delta[walk.cur] - walk.left \in 0 .. Sleep!Limit /\ walk.left - walk.left \in 0 .. Sleep!Limit
        BY <1>2, <4>2
      <4>4. delta' = [delta EXCEPT ![t] = walk.left, ![walk.cur] = @ - walk.left]
        BY <2>1, <3>2
      <4> QED BY <1>2, <4>1, <4>3, <4>4 DEF Sleep!IInv, Sleep!Types, Sleep!TypeOK
    <3> QED BY Zenon, <3>1, <3>2
  <2>4. undef' \in {"no", "overwritten", "dangling"}
    BY <1>1, <2>1
  <2>5. Sleep!Types'
    BY <1>1, <1>3, <2>2, <2>3, <2>4 DEF Sleep!IInv, Sleep!Types, Sleep!TypeOK
  <2>6. ~Sleep!Clean'
    BY <2>1 DEF Sleep!Clean
  <2> QED BY <2>5, <2>6 DEF Sleep!IInv
<1> QED BY <1>4, <1>5

\* sys_clock_nanosleep returns.
LEMMA SleepReturns == ASSUME Sleep!Sane, Sleep!IInv, NEW t \in Sleepers, Sleep!Return(t) PROVE Sleep!IInv'
<1>1. /\ Sleep!Free /\ t \in in /\ status[t] = "running" /\ in' = in \ {t}
      /\ want' = [want EXCEPT ![t] = 0] /\ slept' = [slept EXCEPT ![t] = 0]
      /\ UNCHANGED <<next, prev, delta, status, walk, odd, undef>>
  BY DEF Sleep!Return
<1>2. Tick \in Nat /\ Sleep!Limit \in Nat /\ 0 + Tick <= Sleep!Limit
  BY SleepLimits DEF Sleep!Sane
<1>3. Sleep!Types'
  BY <1>1, <1>2 DEF Sleep!IInv, Sleep!Types, Sleep!TypeOK
<1>4. ASSUME Sleep!Clean' PROVE Sleep!Alone' /\ Sleep!Timed'
  <2>1. Sleep!Clean /\ Sleep!Alone /\ Sleep!Timed /\ Sleep!Sleeper' = Sleep!Sleeper /\ walk.by # "sleeper" /\ walk.by # "tick"
    BY <1>1, <1>4 DEF Sleep!Clean, Sleep!IInv, Sleep!Sleeper, Sleep!Free, Sleep!Idle
  <2>2. t # Sleep!Sleeper
    BY <1>1, <2>1 DEF Sleep!Alone
  <2>3. \A u \in Sleepers \ {t} : want'[u] = want[u] /\ slept'[u] = slept[u]
    BY <1>1 DEF Sleep!IInv, Sleep!Types
  <2>4. slept'[t] = 0
    BY Zenon, <1>1 DEF Sleep!IInv, Sleep!Types
  <2>5. Sleep!Alone'
    BY Zenon, <1>1, <2>1, <2>2, <2>3, <2>4 DEF Sleep!Alone, Sleep!Around
  <2>6. in \subseteq Sleepers /\ Sleep!Sleeper \in in \cup {Queue}
    BY Zenon, <2>1 DEF Sleep!Alone, Sleep!IInv, Sleep!Types, Sleep!TypeOK
  <2>7. Sleep!Timed'
    BY <1>1, <2>1, <2>2, <2>3, <2>6 DEF Sleep!Timed
  <2> QED BY <2>5, <2>7
<1> QED BY <1>3, <1>4 DEF Sleep!IInv

\* send_signal to a sleeper.
LEMMA SleepSignals == ASSUME Sleep!Sane, Sleep!IInv, NEW t \in Sleepers, Sleep!send_signal(t) PROVE Sleep!IInv'
<1>1. ~Sleep!Clean'
  BY DEF Sleep!send_signal, Sleep!Clean
<1>2. Sleep!Types'
  BY DEF Sleep!send_signal, Sleep!IInv, Sleep!Types, Sleep!TypeOK
<1> QED BY <1>1, <1>2 DEF Sleep!IInv

\* The timer's interrupt begins with the first descriptor.
LEMMA SleepInterrupts ==
  ASSUME Sleep!Sane, Sleep!IInv, NEW vector \in {"timer", "spurious"}, Sleep!interrupt_handler(vector)
  PROVE  Sleep!IInv'
<1>1. /\ Sleep!Free
      /\ walk' = [by |-> "tick", cur |-> next[Queue], tmp |-> next[next[Queue]], ns |-> Tick]
      /\ slept' = [t \in Sleepers |-> IF vector = "timer" /\ status[t] = "sleeping" /\ slept[t] < Sleep!Limit
                                   THEN slept[t] + Tick ELSE slept[t]]
      /\ odd' = IF vector = "timer" THEN odd ELSE odd \cup {"spurious"}
      /\ UNCHANGED <<next, prev, delta, status, in, want, undef>>
  BY DEF Sleep!interrupt_handler
<1>2. next[Queue] \in Sleep!Nodes /\ next[next[Queue]] \in Sleep!Nodes
  BY DEF Sleep!IInv, Sleep!Types, Sleep!TypeOK, Sleep!Nodes
<1>3. Sleep!Types'
  <2>1. walk' \in Sleep!Walks
    BY <1>1, <1>2 DEF Sleep!Walks, Sleep!Sane
  <2>2. slept' \in [Sleepers -> Nat]
    BY <1>1 DEF Sleep!IInv, Sleep!Types, Sleep!Sane
  <2> QED BY Zenon, <1>1, <2>1, <2>2 DEF Sleep!IInv, Sleep!Types, Sleep!TypeOK
<1>4. ASSUME Sleep!Clean' PROVE Sleep!Alone' /\ Sleep!Timed'
  <2>1. Sleep!Clean /\ Sleep!Alone /\ Sleep!Timed /\ Sleep!Sleeper' = Sleep!Sleeper /\ walk.by # "sleeper" /\ walk.by # "tick"
    BY Zenon, <1>1, <1>4 DEF Sleep!Clean, Sleep!IInv, Sleep!Sleeper, Sleep!Free, Sleep!Idle
  <2>2. in \subseteq Sleepers /\ Sleep!Sleeper \in in \cup {Queue} /\ Sleep!Sleeper \in Sleep!Nodes
    BY <1>2, <2>1 DEF Sleep!Alone, Sleep!IInv, Sleep!Types, Sleep!TypeOK, Sleep!Sleeper
  <2>3. Sleep!Sleeper # Queue => next[Sleep!Sleeper] = Queue
    BY Zenon, <2>1, <2>2 DEF Sleep!Alone, Sleep!Around
  <2>4. walk'.by = "tick" /\ walk'.cur = Sleep!Sleeper /\ walk'.tmp = next[Sleep!Sleeper] /\ walk'.ns = Tick
    BY Zenon, <1>1 DEF Sleep!Sleeper
  <2>5. \A t \in Sleepers : t # Sleep!Sleeper => slept'[t] = slept[t]
    BY Zenon, <1>1, <2>1 DEF Sleep!Alone
  <2>6. Sleep!Alone'
    <3>1. \A t \in Sleepers \ in' : slept'[t] = 0
      <4>1. \A t \in Sleepers \ in : t # Sleep!Sleeper
        BY <2>2 DEF Sleep!Sane
      <4> QED BY <1>1, <2>1, <2>5, <4>1 DEF Sleep!Alone
    <3> QED BY Zenon, <1>1, <2>1, <2>3, <2>4, <3>1 DEF Sleep!Alone, Sleep!Around
  <2>7. ASSUME Sleep!Sleeper # Queue
        PROVE  /\ delta[Sleep!Sleeper] + slept'[Sleep!Sleeper] <= want[Sleep!Sleeper] + Tick
               /\ "spurious" \notin odd' => delta[Sleep!Sleeper] + slept'[Sleep!Sleeper] = want[Sleep!Sleeper] + Tick
    <3>1. Sleep!Sleeper \in Sleepers /\ status[Sleep!Sleeper] = "sleeping"
      BY <2>1, <2>2, <2>7 DEF Sleep!Alone
    <3>2. /\ delta[Sleep!Sleeper] \in Nat /\ slept[Sleep!Sleeper] \in Nat /\ want[Sleep!Sleeper] \in Nat /\ Tick \in Nat \ {0}
          /\ Sleep!Limit \in Nat /\ want[Sleep!Sleeper] + Tick <= Sleep!Limit
      BY <3>1, SleepLimits DEF Sleep!IInv, Sleep!Types, Sleep!TypeOK, Sleep!Sane
    <3>3. /\ delta[Sleep!Sleeper] + slept[Sleep!Sleeper] <= want[Sleep!Sleeper]
          /\ "spurious" \notin odd => delta[Sleep!Sleeper] + slept[Sleep!Sleeper] = want[Sleep!Sleeper]
      BY <2>1, <2>7, <3>2 DEF Sleep!Timed
    <3>4. slept[Sleep!Sleeper] < Sleep!Limit
      BY <3>2, <3>3
    <3>5. slept'[Sleep!Sleeper] = IF vector = "timer" THEN slept[Sleep!Sleeper] + Tick ELSE slept[Sleep!Sleeper]
      BY <1>1, <3>1, <3>4
    <3> DEFINE d == delta[Sleep!Sleeper]  e == slept[Sleep!Sleeper]  f == slept'[Sleep!Sleeper]  w == want[Sleep!Sleeper]
    <3>6. d + f <= w + Tick
      BY <3>2, <3>3, <3>5
    <3>7. ASSUME "spurious" \notin odd' PROVE d + f = w + Tick
      <4>1. vector = "timer" /\ odd' = odd
        BY <1>1, <3>7
      <4>2. f = e + Tick /\ d + e = w
        BY Zenon, <4>1, <3>7, <3>3, <3>5
      <4> QED BY <4>2, <3>2
    <3> QED BY Zenon, <3>6, <3>7
  <2>8. Sleep!Timed'
    <3>1. "spurious" \in odd => "spurious" \in odd'
      BY Zenon, <1>1
    <3>2. \A t \in in' : t # Sleep!Sleeper' => slept'[t] >= want'[t] \/ "spurious" \in odd'
      BY <1>1, <2>1, <2>2, <2>5, <3>1 DEF Sleep!Timed
    <3> QED BY Zenon, <1>1, <2>1, <2>4, <2>7, <3>2 DEF Sleep!Timed, Sleep!Sane
  <2> QED BY Zenon, <2>6, <2>8
<1> QED BY Zenon, <1>3, <1>4 DEF Sleep!IInv

\* sleep_queue_tick, one descriptor.
LEMMA SleepTicks == ASSUME Sleep!Sane, Sleep!IInv, Sleep!sleep_queue_tick PROVE Sleep!IInv'
<1> DEFINE t == walk.cur
           woken == Sleep!Due(delta[t], walk.ns) /\ status[t] = "sleeping"
           left == walk.ns - delta[t]
<1>1. /\ undef = "no" /\ walk.by = "tick" /\ walk.cur # Queue /\ ~Sleep!Touch
      /\ delta' = [delta EXCEPT ![t] = IF Sleep!Due(@, walk.ns) THEN 0 ELSE @ - walk.ns]
      /\ walk' = IF woken /\ left > 0
                 THEN [walk EXCEPT !.ns = left, !.cur = walk.tmp, !.tmp = Sleep!Unlinked(t)[walk.tmp]]
                 ELSE Sleep!Idle
      /\ IF woken THEN /\ next' = Sleep!Unlinked(t)
                       /\ prev' = [prev EXCEPT ![next[t]] = prev[t], ![t] = t]
                       /\ status' = [status EXCEPT ![t] = Sleep!Woken]
         ELSE UNCHANGED <<next, prev, status>>
      /\ UNCHANGED <<in, want, slept, odd, undef>>
  BY DEF Sleep!sleep_queue_tick
<1>2. /\ walk.cur \in Sleep!Nodes /\ walk.tmp \in Sleep!Nodes /\ walk.ns \in 1 .. Tick /\ walk # Sleep!Idle
      /\ walk \in [by : {"tick"}, cur : Sleep!Nodes, tmp : Sleep!Nodes, ns : 1 .. Tick]
  BY <1>1, SleepWalkIs DEF Sleep!IInv
<1>3. t \in Sleepers /\ t \in in /\ t \in Sleep!Nodes
  BY <1>1, <1>2 DEF Sleep!Touch, Sleep!Nodes
<1>4. /\ delta[t] \in 0 .. Sleep!Limit /\ walk.ns \in Nat /\ Tick \in Nat /\ Sleep!Limit \in Nat /\ next[t] \in Sleep!Nodes /\ prev[t] \in Sleep!Nodes
      /\ Sleep!Unlinked(t) \in [Sleep!Nodes -> Sleep!Nodes]
  BY <1>2, <1>3, SleepLimits DEF Sleep!IInv, Sleep!Types, Sleep!TypeOK, Sleep!Sane, Sleep!Unlinked
<1>5. /\ woken \in BOOLEAN
      /\ woken => delta[t] <= walk.ns /\ status[t] = "sleeping"
  BY DEF Sleep!Due
<1>6. Sleep!Types'
  <2>1. delta' \in [Sleepers -> 0 .. Sleep!Limit]
    BY <1>1, <1>3, <1>4 DEF Sleep!Due, Sleep!IInv, Sleep!Types, Sleep!TypeOK
  <2>2. next' \in [Sleep!Nodes -> Sleep!Nodes] /\ prev' \in [Sleep!Nodes -> Sleep!Nodes] /\ status' \in [Sleepers -> {"running", "sleeping"}]
    <3>1. CASE woken
      BY <1>1, <1>3, <1>4, <3>1 DEF Sleep!IInv, Sleep!Types, Sleep!TypeOK, Sleep!Woken
    <3>2. CASE ~woken
      BY <1>1, <3>2 DEF Sleep!IInv, Sleep!Types, Sleep!TypeOK
    <3> QED BY <3>1, <3>2
  <2>3. walk' \in Sleep!Walks \cup {Sleep!Idle}
    <3>1. ASSUME woken, left > 0 PROVE walk' \in Sleep!Walks
      <4>1. left \in 1 .. Tick /\ Sleep!Unlinked(t)[walk.tmp] \in Sleep!Nodes
        BY <1>2, <1>4, <1>5, <3>1
      <4>2. walk' = [by |-> "tick", cur |-> walk.tmp, tmp |-> Sleep!Unlinked(t)[walk.tmp], ns |-> left]
        BY Zenon, <1>1, <1>2, <3>1
      <4> QED BY Zenon, <1>2, <4>1, <4>2 DEF Sleep!Walks
    <3> QED BY Zenon, <1>1, <3>1
  <2> QED BY <1>1, <2>1, <2>2, <2>3 DEF Sleep!IInv, Sleep!Types, Sleep!TypeOK
<1>7. ASSUME Sleep!Clean' PROVE Sleep!Alone' /\ Sleep!Timed'
  <2>1. Sleep!Clean /\ Sleep!Alone /\ Sleep!Timed
    BY <1>1, <1>7 DEF Sleep!Clean, Sleep!IInv
  <2>2. t = Sleep!Sleeper /\ Sleep!Sleeper # Queue /\ walk.tmp = Queue /\ walk.ns = Tick /\ status[t] = "sleeping"
    BY <1>1, <1>3, <2>1 DEF Sleep!Alone
  <2>3. next[t] = Queue /\ prev[t] = Queue
    BY <1>3, <2>1, <2>2 DEF Sleep!Alone, Sleep!Around
  <2>4. /\ delta[t] + slept[t] <= want[t] + Tick
        /\ "spurious" \notin odd => delta[t] + slept[t] = want[t] + Tick
        /\ slept[t] \in Nat /\ want[t] \in Nat /\ delta[t] \in Nat
    BY <1>1, <1>3, <1>4, <2>1, <2>2 DEF Sleep!Timed, Sleep!IInv, Sleep!Types
  <2>5. Queue \in Sleep!Nodes /\ in \subseteq Sleepers /\ Queue \notin Sleepers
    BY DEF Sleep!Nodes, Sleep!IInv, Sleep!Types, Sleep!TypeOK, Sleep!Sane
  <2>6. CASE woken
    <3>1. \A n \in Sleep!Nodes : next'[n] = n /\ prev'[n] = n
      BY <1>1, <1>3, <2>1, <2>2, <2>3, <2>5, <2>6 DEF Sleep!Alone, Sleep!Around, Sleep!Unlinked, Sleep!IInv, Sleep!Types, Sleep!TypeOK
    <3>2. Sleep!Sleeper' = Queue
      BY <2>5, <3>1 DEF Sleep!Sleeper
    <3>3. \A u \in Sleepers : status'[u] # "sleeping"
      BY <1>1, <1>3, <2>1, <2>2, <2>6 DEF Sleep!Alone, Sleep!IInv, Sleep!Types, Sleep!TypeOK, Sleep!Woken
    <3>4. walk' # Sleep!Idle => walk'.by = "tick" /\ walk'.cur = Queue
      BY <1>1, <1>2, <2>2, <2>6
    <3>5. walk' = Sleep!Idle => walk'.by # "tick" /\ walk'.by # "sleeper"
      BY DEF Sleep!Idle
    <3>6. Sleep!Alone'
      <4>1. \A n \in Sleep!Nodes : Sleep!Around(n)' = n
        BY <3>2 DEF Sleep!Around
      <4>2. \A u \in Sleepers : status'[u] = "sleeping" <=> u = Sleep!Sleeper'
        BY <2>5, <3>2, <3>3
      <4> QED BY <1>1, <2>1, <3>1, <3>2, <3>4, <3>5, <4>1, <4>2 DEF Sleep!Alone
    <3>7. \A u \in in : slept[u] >= want[u] \/ "spurious" \in odd
      <4>1. slept[t] >= want[t] \/ "spurious" \in odd
        BY <1>4, <1>5, <2>2, <2>4, <2>6
      <4> QED BY Zenon, <2>1, <2>2, <4>1 DEF Sleep!Timed
    <3>8. Sleep!Timed'
      BY <1>1, <3>2, <3>7 DEF Sleep!Timed
    <3> QED BY <3>6, <3>8
  <2>7. CASE ~woken
    <3>1. UNCHANGED <<next, prev, status>> /\ walk' = Sleep!Idle /\ ~(delta[t] <= walk.ns)
      BY <1>1, <2>2, <2>7 DEF Sleep!Due
    <3>2. Sleep!Sleeper' = Sleep!Sleeper /\ delta'[t] = delta[t] - Tick /\ delta[t] > Tick
      BY <1>1, <1>3, <1>4, <2>2, <3>1 DEF Sleep!Sleeper, Sleep!Due, Sleep!IInv, Sleep!Types, Sleep!TypeOK
    <3>3. walk'.by # "tick" /\ walk'.by # "sleeper"
      BY <3>1 DEF Sleep!Idle
    <3>4. Sleep!Alone'
      BY Zenon, <1>1, <2>1, <3>1, <3>2, <3>3 DEF Sleep!Alone, Sleep!Around
    <3>5. /\ delta'[t] + slept[t] <= want[t] + 0 /\ delta'[t] > 0
          /\ "spurious" \notin odd => delta'[t] + slept[t] = want[t] + 0
      BY <1>4, <2>4, <3>2
    <3>6. Sleep!Timed'
      BY <1>1, <2>1, <2>2, <3>2, <3>3, <3>5 DEF Sleep!Timed
    <3> QED BY <3>4, <3>6
  <2> QED BY <2>6, <2>7
<1> QED BY <1>6, <1>7 DEF Sleep!IInv

\* The tick ends, or follows a link to a descriptor that is gone.
LEMMA SleepTickOver == ASSUME Sleep!Sane, Sleep!IInv, Sleep!TickEnds \/ Sleep!Dangling PROVE Sleep!IInv'
<1>1. UNCHANGED <<next, prev, delta, status, in, want, slept, odd>> /\ walk' = Sleep!Idle
  BY DEF Sleep!TickEnds, Sleep!Dangling
<1>2. Sleep!Types'
  BY <1>1 DEF Sleep!IInv, Sleep!Types, Sleep!TypeOK, Sleep!TickEnds, Sleep!Dangling
<1>3. ASSUME Sleep!Clean' PROVE Sleep!Alone' /\ Sleep!Timed'
  <2>1. Sleep!Clean /\ Sleep!Alone /\ Sleep!Timed /\ Sleep!Sleeper' = Sleep!Sleeper
    BY <1>1, <1>3 DEF Sleep!Clean, Sleep!IInv, Sleep!Sleeper
  <2>2. ~Sleep!Touch
    <3>1. CASE walk.by = "sleeper"
      BY <2>1, <3>1 DEF Sleep!Alone, Sleep!Touch
    <3>2. CASE walk.by = "tick"
      BY <2>1, <3>2 DEF Sleep!Alone, Sleep!Touch
    <3> QED BY <3>1, <3>2, SleepWalkIs DEF Sleep!IInv, Sleep!Touch
  <2>3. walk.by = "tick" /\ walk.cur = Queue /\ UNCHANGED undef
    BY <2>2 DEF Sleep!TickEnds, Sleep!Dangling
  <2>4. Sleep!Sleeper = Queue /\ walk'.by # "tick" /\ walk'.by # "sleeper"
    BY Zenon, <1>1, <2>1, <2>3 DEF Sleep!Alone, Sleep!Idle
  <2>5. Sleep!Alone'
    BY Zenon, <1>1, <2>1, <2>3, <2>4 DEF Sleep!Alone, Sleep!Around
  <2>6. Sleep!Timed'
    BY <1>1, <2>1, <2>4 DEF Sleep!Timed
  <2> QED BY <2>5, <2>6
<1> QED BY <1>2, <1>3 DEF Sleep!IInv

\* Every step of sleepers and of the timer.
LEMMA SleepNextIInv == ASSUME Sleep!Sane, Sleep!IInv, Sleep!Next PROVE Sleep!IInv'
BY SleepNanosleep, SleepPassing, SleepEnqueuing, SleepReturns, SleepSignals, SleepInterrupts, SleepTicks, SleepTickOver DEF Sleep!Next

\* A step that leaves the variables alone keeps the invariant.
LEMMA SleepStutterIInv == ASSUME Sleep!IInv, UNCHANGED Sleep!vars PROVE Sleep!IInv'
<1>1. Sleep!Types' /\ Sleep!Clean' = Sleep!Clean /\ Sleep!Sleeper' = Sleep!Sleeper
  BY Zenon DEF Sleep!vars, Sleep!IInv, Sleep!Types, Sleep!TypeOK, Sleep!Clean, Sleep!Sleeper
<1>2. Sleep!Alone => Sleep!Alone'
  BY Zenon, <1>1 DEF Sleep!vars, Sleep!Alone, Sleep!Around
<1>3. Sleep!Timed => Sleep!Timed'
  BY <1>1 DEF Sleep!vars, Sleep!Timed
<1> QED BY <1>1, <1>2, <1>3 DEF Sleep!IInv

\* In such a state the properties hold.
LEMMA SleepIInvSafe == ASSUME Sleep!Sane, Sleep!IInv PROVE Sleep!TypeOK /\ Sleep!WokenOnTick /\ Sleep!SoundAlone
<1>1. Sleep!TypeOK
  BY DEF Sleep!IInv, Sleep!Types
<1>2. Sleep!SoundAlone
  BY DEF Sleep!SoundAlone, Sleep!IInv, Sleep!Clean, Sleep!Alone
<1>3. Sleep!WokenOnTick
  <2> SUFFICES ASSUME walk = Sleep!Idle, Sleep!Clean, NEW t \in in
               PROVE  IF status[t] = "sleeping" THEN slept[t] = 0 \/ slept[t] < want[t]
                      ELSE slept[t] >= want[t] \/ "spurious" \in odd
    BY DEF Sleep!WokenOnTick, Sleep!Clean
  <2>1. Sleep!Alone /\ Sleep!Timed /\ walk.by # "tick" /\ t \in Sleepers /\ Queue \notin Sleepers
    BY DEF Sleep!IInv, Sleep!Idle, Sleep!Types, Sleep!TypeOK, Sleep!Sane
  <2>2. CASE t = Sleep!Sleeper
    <3>1. delta[t] \in Nat /\ slept[t] \in Nat /\ want[t] \in Nat
      BY <2>1, SleepLimits DEF Sleep!IInv, Sleep!Types, Sleep!TypeOK
    <3>2. delta[t] + slept[t] <= want[t] + 0 /\ (slept[t] = 0 \/ delta[t] > 0)
      BY Zenon, <2>1, <2>2 DEF Sleep!Timed
    <3> QED BY <2>1, <2>2, <3>1, <3>2 DEF Sleep!Alone
  <2>3. CASE t # Sleep!Sleeper
    BY <2>1, <2>3 DEF Sleep!Alone, Sleep!Timed
  <2> QED BY <2>2, <2>3
<1> QED BY <1>1, <1>2, <1>3
-----------------------------------------------------------------------------
(* The scan of the PCI Express bus: pcie.c.                                *)

CONSTANTS Devs, Fns, MaxDepth, Word

VARIABLES kind, multi, bar, reg, depth, scan_at, started, read, deep

Pcie == INSTANCE Pcie WITH at <- scan_at

ASSUME PcieSane == Pcie!Sane

\* The scan of a device begins with function 1 if there are more than one.
LEMMA PcieBegins ==
  ASSUME Pcie!Types, \A d \in Devs : kind[d][0] = "none" => ~multi[d], NEW d \in Devs
  PROVE  Pcie!DeviceAt(d) = [dev |-> d, fn |-> IF multi[d] THEN 1 ELSE 0]
BY DEF Pcie!DeviceAt, Pcie!Types, Pcie!Kind, Pcie!pcie_is_bridge, Pcie!More

\* A device has a last function.
LEMMA PcieLastFn == ASSUME Pcie!Sane PROVE Pcie!LastOf(Fns) \in Fns /\ \A f \in Fns : f <= Pcie!LastOf(Fns)
<1>1. \E n \in Fns : \A m \in Fns : m <= n
  BY DEF Pcie!Sane
<1> QED BY <1>1 DEF Pcie!LastOf

\* A step past a function adds that one to those it is past.
LEMMA PcieMoves ==
  ASSUME Pcie!Sane, Pcie!IInv, scan_at # Pcie!Done, scan_at' = Pcie!After, UNCHANGED <<kind, multi>>
  PROVE  /\ scan_at' \in [dev : Devs, fn : Fns] \cup {Pcie!Done}
         /\ scan_at' # Pcie!Done => Pcie!Seen(scan_at.dev, scan_at.fn)'
         /\ ~Pcie!Passed(scan_at.dev, scan_at.fn)
         /\ \A d \in Devs, f \in Fns : Pcie!Passed(d, f)' <=> Pcie!Passed(d, f) \/ (d = scan_at.dev /\ f = scan_at.fn)
<1>1. scan_at \in [dev : Devs, fn : Fns] /\ scan_at.dev \in Nat /\ scan_at.fn \in Nat /\ Devs \subseteq Nat /\ Fns \subseteq Nat
  BY DEF Pcie!IInv, Pcie!Types, Pcie!Sane
<1>2. ~Pcie!Passed(scan_at.dev, scan_at.fn)
  BY <1>1 DEF Pcie!Passed
<1>3. ASSUME NEW d \in Devs, NEW f \in Fns, d = scan_at.dev, f = scan_at.fn PROVE Pcie!Seen(d, f)
  BY Zenon, <1>3 DEF Pcie!IInv
<1>4. CASE scan_at.fn # 0
  <2>1. scan_at' = [dev |-> scan_at.dev, fn |-> IF scan_at.fn = Pcie!LastOf(Fns) THEN 0 ELSE scan_at.fn + 1] /\ scan_at' # Pcie!Done
    BY <1>1, <1>4 DEF Pcie!After, Pcie!Done
  <2>2. scan_at' \in [dev : Devs, fn : Fns]
    BY <1>1, <2>1, PcieLastFn DEF Pcie!Sane
  <2>3. multi[scan_at.dev]
    BY <1>4 DEF Pcie!IInv, Pcie!Seen
  <2>4. \A d \in Devs, f \in Fns : Pcie!Passed(d, f)' <=> Pcie!Passed(d, f) \/ (d = scan_at.dev /\ f = scan_at.fn)
    <3> SUFFICES ASSUME NEW d \in Devs, NEW f \in Fns PROVE Pcie!Passed(d, f)' <=> Pcie!Passed(d, f) \/ (d = scan_at.dev /\ f = scan_at.fn)
      OBVIOUS
    <3>1. f <= Pcie!LastOf(Fns) /\ Pcie!LastOf(Fns) \in Nat /\ f \in Nat /\ d \in Nat
      BY Zenon, <1>1, PcieLastFn
    <3>2. scan_at'.dev = scan_at.dev /\ scan_at'.fn = IF scan_at.fn = Pcie!LastOf(Fns) THEN 0 ELSE scan_at.fn + 1
      BY <2>1
    <3> QED BY <1>1, <1>4, <2>1, <2>3, <3>1, <3>2 DEF Pcie!Passed, Pcie!Seen
  <2> QED BY <1>2, <2>1, <2>2, <2>3, <2>4 DEF Pcie!Seen
<1>5. CASE scan_at.fn = 0
  <2>1. scan_at' = Pcie!DeviceAt(scan_at.dev + 1)
    BY <1>5 DEF Pcie!After
  <2>2. CASE scan_at.dev + 1 \in Devs
    <3>1. scan_at' = [dev |-> scan_at.dev + 1, fn |-> IF multi[scan_at.dev + 1] THEN 1 ELSE 0]
      BY <2>1, <2>2, PcieBegins DEF Pcie!IInv
    <3>2. scan_at'.dev = scan_at.dev + 1 /\ scan_at'.fn = (IF multi[scan_at.dev + 1] THEN 1 ELSE 0) /\ scan_at' # Pcie!Done
      BY <1>1, <3>1 DEF Pcie!Done
    <3>3. scan_at' \in [dev : Devs, fn : Fns]
      BY <2>2, <3>1 DEF Pcie!Sane
    <3>4. \A d \in Devs, f \in Fns : Pcie!Passed(d, f)' <=> Pcie!Passed(d, f) \/ (d = scan_at.dev /\ f = scan_at.fn)
      <4> SUFFICES ASSUME NEW d \in Devs, NEW f \in Fns PROVE Pcie!Passed(d, f)' <=> Pcie!Passed(d, f) \/ (d = scan_at.dev /\ f = scan_at.fn)
        OBVIOUS
      <4>1. f \in Nat /\ d \in Nat
        BY <1>1
      <4> QED BY <1>1, <1>5, <3>2, <4>1 DEF Pcie!Passed, Pcie!Seen
    <3> QED BY Zenon, <1>2, <3>2, <3>3, <3>4 DEF Pcie!Seen
  <2>3. CASE scan_at.dev + 1 \notin Devs
    <3>1. scan_at' = Pcie!Done /\ \A d \in Devs : d <= scan_at.dev
      BY <1>1, <2>1, <2>3 DEF Pcie!DeviceAt, Pcie!Sane
    <3>2. \A d \in Devs, f \in Fns : Pcie!Passed(d, f)' <=> Pcie!Passed(d, f) \/ (d = scan_at.dev /\ f = scan_at.fn)
      BY <1>1, <1>5, <3>1 DEF Pcie!Passed, Pcie!Seen
    <3> QED BY <1>2, <3>1, <3>2
  <2> QED BY <2>2, <2>3
<1> QED BY Zenon, <1>4, <1>5

\* The driver's calls are numbers.
LEMMA PcieCounts == ASSUME Pcie!Types, NEW d \in Devs, NEW f \in Fns PROVE started[d][f] \in Int
<1>1. started \in [Devs -> [Fns -> Int]]
  BY DEF Pcie!Types
<1>2. started[d] \in [Fns -> Int]
  BY Zenon, <1>1
<1> QED BY <1>2

\* pcie_init, before the first device.
LEMMA PcieInitIInv == ASSUME Pcie!Sane, Pcie!Init PROVE Pcie!IInv
<1>1. 0 \in Devs /\ 0 \in Fns /\ 1 \in Fns /\ Devs \subseteq Nat /\ Fns \subseteq Nat
  BY DEF Pcie!Sane
<1>2. \A d \in Devs : kind[d][0] = "none" => ~multi[d]
  BY DEF Pcie!Init
<1>3. Pcie!Types
  <2>1. Pcie!DeviceAt(0) \in [dev : Devs, fn : Fns]
    BY <1>1 DEF Pcie!Init, Pcie!DeviceAt
  <2>2. bar.base \in Int
    BY DEF Pcie!Init, Pcie!Bars
  <2>3. reg \in [Devs -> [Fns -> Int]] /\ started \in [Devs -> [Fns -> Int]]
    BY <2>2 DEF Pcie!Init
  <2>4. depth \in 1 .. MaxDepth /\ deep = FALSE
    BY DEF Pcie!Init, Pcie!Sane
  <2> QED BY Zenon, <2>1, <2>3, <2>4 DEF Pcie!Init, Pcie!Types
<1>4. scan_at = [dev |-> 0, fn |-> IF multi[0] THEN 1 ELSE 0] /\ scan_at # Pcie!Done
  BY <1>1, <1>2, <1>3, PcieBegins DEF Pcie!Init, Pcie!Done
<1>5. \A d \in Devs, f \in Fns : ~Pcie!Passed(d, f)
  BY <1>1, <1>4 DEF Pcie!Passed, Pcie!Seen
<1>6. Pcie!BarKept
  BY Zenon DEF Pcie!BarKept, Pcie!Init, Pcie!NoRead
<1> QED BY <1>1, <1>2, <1>3, <1>4, <1>5, <1>6 DEF Pcie!IInv, Pcie!Init, Pcie!Seen

\* Sizing a register writes back what it held, but for the low bits of an address of ports.
LEMMA PcieSizes ==
  ASSUME Pcie!Sane, Pcie!IInv, NEW d \in Devs, NEW f \in Fns, Pcie!pcie_get_bar(d, f), UNCHANGED bar,
         started' = [started EXCEPT ![d][f] = @ + 1]
  PROVE  Pcie!BarKept' /\ reg' \in [Devs -> [Fns -> Int]]
<1> DEFINE m == Pcie!Masked(bar.base)
<1>1. PICK k \in Nat : Word = 8 * k /\ k > 1
  BY DEF Pcie!Sane
<1>2. /\ bar.size \in {1, 2, 4, 8, Word} /\ bar.base \in {0, 8, 9, 10} /\ bar.high \in {0, 1} /\ bar.type \in {"mem32", "mem64", "io"}
      /\ bar.base % bar.size = 0 /\ (bar.size < 4 => bar.type = "io") /\ (bar.size = Word => bar.type = "mem64")
  BY DEF Pcie!IInv, Pcie!Types, Pcie!Bars
<1>3. bar.size = Word => bar.base = 0
  BY <1>1, <1>2
<1>4. m \in {0, 8} /\ Pcie!Masked(m) = m /\ (bar.size >= 4 => m = bar.base)
  <2>1. m \in {0, 8} /\ Pcie!Masked(m) = m
    BY <1>2 DEF Pcie!Masked
  <2>2. CASE bar.size \in {4, 8}
    BY <1>2, <2>1, <2>2 DEF Pcie!Masked
  <2>3. CASE bar.size = Word
    BY <1>3, <2>1, <2>3 DEF Pcie!Masked
  <2>4. bar.size >= 4 => bar.size \in {4, 8} \/ bar.size = Word
    BY <1>2
  <2> QED BY <2>1, <2>2, <2>3, <2>4
<1>5. Pcie!Masked(reg[d][f]) = m /\ (bar.size >= 4 => reg[d][f] = bar.base)
  <2>1. reg[d][f] \in {bar.base, m}
    BY DEF Pcie!IInv, Pcie!BarKept
  <2> QED BY <1>4, <2>1
<1>6. Pcie!Writes(m) = m
  <2>1. CASE bar.size = Word
    <3>1. m = 0 /\ 0 \div Word = 0
      BY <1>1, <1>2, <1>3, <1>4, <2>1
    <3> QED BY <1>1, <2>1, <3>1 DEF Pcie!Writes
  <2>2. CASE bar.size \in {1, 2, 4, 8}
    BY <1>4, <2>2 DEF Pcie!Writes
  <2> QED BY <1>2, <2>1, <2>2
<1>7. bar.size >= 4 => (Word - Pcie!Masked(Pcie!Writes(Word - 1))) % Word = bar.size % Word
  <2>1. CASE bar.size = 4
    <3>1. (Word - 1) \div 4 = 2 * k - 1 /\ (Word - 4) \div 4 = 2 * k - 1
      BY <1>1
    <3>2. Pcie!Writes(Word - 1) = Word - 4
      BY <1>1, <2>1, <3>1 DEF Pcie!Writes
    <3>3. Pcie!Masked(Word - 4) = Word - 4
      BY <1>1, <3>1 DEF Pcie!Masked
    <3> QED BY <1>1, <2>1, <3>2, <3>3
  <2>2. CASE bar.size = 8
    <3>1. (Word - 1) \div 8 = k - 1 /\ (Word - 8) \div 4 = 2 * k - 2
      BY <1>1
    <3>2. Pcie!Writes(Word - 1) = Word - 8
      BY <1>1, <2>2, <3>1 DEF Pcie!Writes
    <3>3. Pcie!Masked(Word - 8) = Word - 8
      BY <1>1, <3>1 DEF Pcie!Masked
    <3> QED BY <1>1, <2>2, <3>2, <3>3
  <2>3. CASE bar.size = Word
    <3>1. (Word - 1) \div Word = 0
      BY <1>1
    <3>2. Pcie!Writes(Word - 1) = 0 /\ Pcie!Masked(0) = 0
      BY <1>1, <2>3, <3>1 DEF Pcie!Writes, Pcie!Masked
    <3> QED BY <1>1, <2>3, <3>2
  <2> QED BY <1>2, <2>1, <2>2, <2>3
<1>8. reg' = [reg EXCEPT ![d][f] = m] /\ reg' \in [Devs -> [Fns -> Int]]
  <2>1. reg' = [reg EXCEPT ![d][f] = m]
    BY <1>5, <1>6 DEF Pcie!pcie_get_bar, Pcie!Back
  <2> QED BY <1>4, <2>1 DEF Pcie!IInv, Pcie!Types
<1>9. \A e \in Devs, g \in Fns : reg'[e][g] = IF started'[e][g] = 0 THEN bar.base ELSE m
  <2> TAKE e \in Devs, g \in Fns
  <2>1. reg[e][g] = IF started[e][g] = 0 THEN bar.base ELSE m
    BY DEF Pcie!IInv, Pcie!BarKept
  <2>2. started[d][f] \in Int /\ started[d][f] >= 0
    BY DEF Pcie!IInv, Pcie!Types
  <2>3. CASE e = d /\ g = f
    <3>1. started'[e][g] = started[d][f] + 1 /\ reg'[e][g] = m
      BY <1>8, <2>3 DEF Pcie!IInv, Pcie!Types
    <3> QED BY <2>2, <3>1
  <2>4. CASE ~(e = d /\ g = f)
    <3>1. started'[e][g] = started[e][g] /\ reg'[e][g] = reg[e][g]
      BY <1>8, <2>4 DEF Pcie!IInv, Pcie!Types
    <3> QED BY <2>1, <3>1
  <2> QED BY <2>3, <2>4
<1>10. /\ bar.type # "io" => read'.size = bar.size % Word
       /\ bar.type = "mem64" => read'.base = bar.high * Word + bar.base
       /\ bar.type = "mem32" => read'.base = bar.base
  <2>1. bar.type # "io" => bar.size >= 4
    BY <1>1, <1>2
  <2> QED BY <1>4, <1>5, <1>7, <2>1 DEF Pcie!pcie_get_bar
<1>11. Pcie!Masked(bar.base)' = m
  BY DEF Pcie!Masked
<1> QED BY Zenon, <1>8, <1>9, <1>10, <1>11 DEF Pcie!BarKept

\* scan_device, one function.
LEMMA PcieNextIInv == ASSUME Pcie!Sane, Pcie!IInv, Pcie!Next PROVE Pcie!IInv'
<1>1. Devs \subseteq Nat /\ Fns \subseteq Nat /\ MaxDepth \in Nat /\ depth \in 1 .. MaxDepth
  BY DEF Pcie!Sane, Pcie!IInv, Pcie!Types
<1>2. ASSUME Pcie!Busy PROVE /\ scan_at # Pcie!Done /\ ~deep /\ scan_at \in [dev : Devs, fn : Fns] /\ scan_at.dev \in Devs /\ scan_at.fn \in Fns
                             /\ scan_at = [dev |-> scan_at.dev, fn |-> scan_at.fn] /\ Pcie!Seen(scan_at.dev, scan_at.fn)
  BY <1>2 DEF Pcie!Busy, Pcie!IInv, Pcie!Types
<1>3. CASE Pcie!scan_bus
  <2>1. Pcie!Busy /\ Pcie!pcie_is_bridge(scan_at) /\ UNCHANGED <<kind, multi, bar, reg, started, read>>
    BY Zenon, <1>3 DEF Pcie!scan_bus
  <2>2. Pcie!FoundBridge /\ Pcie!FoundBridge'
    BY Zenon, <1>2, <2>1 DEF Pcie!FoundBridge, Pcie!Seen, Pcie!pcie_is_bridge, Pcie!Kind
  <2>3. Pcie!BarKept'
    BY Zenon, <2>1 DEF Pcie!IInv, Pcie!BarKept
  <2>4. CASE depth = MaxDepth
    <3>1. deep' = TRUE /\ UNCHANGED <<depth, scan_at>>
      BY <1>3, <2>4 DEF Pcie!scan_bus
    <3>2. \A d, f : Pcie!Passed(d, f)' <=> Pcie!Passed(d, f)
      BY Zenon, <2>1, <3>1 DEF Pcie!Passed, Pcie!Seen
    <3> QED BY <2>1, <2>2, <2>3, <3>1, <3>2 DEF Pcie!IInv, Pcie!Types, Pcie!pcie_is_bridge, Pcie!Kind, Pcie!Seen
  <2>5. CASE depth # MaxDepth
    <3>1. depth' = depth + 1 /\ scan_at' = Pcie!DeviceAt(0) /\ UNCHANGED deep /\ 0 \in Devs /\ 0 \in Fns /\ 1 \in Fns
      BY <1>3, <2>5 DEF Pcie!scan_bus, Pcie!BusOfBridge, Pcie!Sane
    <3>2. scan_at' = [dev |-> 0, fn |-> IF multi[0] THEN 1 ELSE 0] /\ scan_at' # Pcie!Done
      BY <3>1, PcieBegins DEF Pcie!IInv, Pcie!Done
    <3>3. \A d \in Devs, f \in Fns : ~Pcie!Passed(d, f)'
      BY <1>1, <2>1, <3>2 DEF Pcie!Passed, Pcie!Seen
    <3>4. Pcie!Types'
      BY <1>1, <2>1, <2>5, <3>1, <3>2 DEF Pcie!IInv, Pcie!Types
    <3>5. \A d \in Devs, f \in Fns : started[d][f] \in Int /\ started[d][f] <= depth
      <4> SUFFICES ASSUME NEW d \in Devs, NEW f \in Fns PROVE started[d][f] \in Int /\ started[d][f] <= depth
        BY Zenon
      <4>1. started[d][f] \in Int
        BY PcieCounts DEF Pcie!IInv
      <4>2. started[d][f] <= depth \/ started[d][f] <= depth - 1
        BY Zenon DEF Pcie!IInv
      <4> QED BY <1>1, <4>1, <4>2
    <3> QED BY <1>1, <2>1, <2>2, <2>3, <3>1, <3>2, <3>3, <3>4, <3>5 DEF Pcie!IInv, Pcie!Seen
  <2> QED BY <2>4, <2>5
<1>4. CASE Pcie!scan_device
  <2>1. Pcie!Busy /\ ~Pcie!pcie_is_bridge(scan_at) /\ Pcie!Kind(scan_at) # "driver" /\ scan_at' = Pcie!After
        /\ UNCHANGED <<kind, multi, bar, reg, depth, started, read, deep>>
    BY Zenon, <1>4 DEF Pcie!scan_device, Pcie!Skipped
  <2>2. /\ scan_at' \in [dev : Devs, fn : Fns] \cup {Pcie!Done}
        /\ scan_at' # Pcie!Done => Pcie!Seen(scan_at.dev, scan_at.fn)'
        /\ ~Pcie!Passed(scan_at.dev, scan_at.fn)
        /\ \A d \in Devs, f \in Fns : Pcie!Passed(d, f)' <=> Pcie!Passed(d, f) \/ (d = scan_at.dev /\ f = scan_at.fn)
    BY Zenon, <1>2, <2>1, PcieMoves
  <2>3. Pcie!Types'
    BY <2>1, <2>2 DEF Pcie!IInv, Pcie!Types
  <2>4. Pcie!BarKept'
    BY Zenon, <2>1 DEF Pcie!IInv, Pcie!BarKept
  <2>5. ASSUME NEW d \in Devs, NEW f \in Fns
        PROVE  /\ Pcie!Passed(d, f)' => ~Pcie!pcie_is_bridge([dev |-> d, fn |-> f])'
               /\ started'[d][f] >= 0 /\ started'[d][f] <= IF Pcie!Passed(d, f)' THEN depth' ELSE depth' - 1
               /\ depth' = 1 => started'[d][f] = IF kind'[d][f] = "driver" /\ Pcie!Passed(d, f)' THEN 1 ELSE 0
    <3>1. CASE d = scan_at.dev /\ f = scan_at.fn
      <4>1. ~Pcie!pcie_is_bridge([dev |-> d, fn |-> f])' /\ kind[d][f] # "driver"
        BY <1>2, <2>1, <3>1 DEF Pcie!pcie_is_bridge, Pcie!Kind
      <4>2. started[d][f] \in Int /\ started[d][f] <= depth - 1 /\ started[d][f] >= 0
        BY Zenon, <2>2, <3>1, PcieCounts DEF Pcie!IInv
      <4>3. depth = 1 => started[d][f] = 0
        BY Zenon, <2>2, <3>1 DEF Pcie!IInv
      <4> QED BY <1>1, <2>1, <2>2, <3>1, <4>1, <4>2, <4>3
    <3>2. CASE ~(d = scan_at.dev /\ f = scan_at.fn)
      <4>1. Pcie!Passed(d, f)' <=> Pcie!Passed(d, f)
        BY Zenon, <2>2, <3>2
      <4> QED BY <2>1, <4>1 DEF Pcie!IInv, Pcie!pcie_is_bridge, Pcie!Kind
    <3> QED BY Zenon, <3>1, <3>2
  <2>6. Pcie!FoundBridge' = Pcie!FoundBridge
    BY Zenon, <2>1 DEF Pcie!FoundBridge, Pcie!pcie_is_bridge, Pcie!Kind
  <2> QED BY Zenon, <2>1, <2>2, <2>3, <2>4, <2>5, <2>6 DEF Pcie!IInv
<1>5. CASE Pcie!pcie_dispatch_driver
  <2>1. /\ Pcie!Busy /\ Pcie!Kind(scan_at) = "driver" /\ scan_at' = Pcie!After
        /\ started' = [started EXCEPT ![scan_at.dev][scan_at.fn] = @ + 1] /\ Pcie!pcie_get_bar(scan_at.dev, scan_at.fn)
        /\ UNCHANGED <<kind, multi, bar, depth, deep>>
    BY Zenon, <1>5 DEF Pcie!pcie_dispatch_driver
  <2>2. /\ scan_at' \in [dev : Devs, fn : Fns] \cup {Pcie!Done}
        /\ scan_at' # Pcie!Done => Pcie!Seen(scan_at.dev, scan_at.fn)'
        /\ ~Pcie!Passed(scan_at.dev, scan_at.fn)
        /\ \A d \in Devs, f \in Fns : Pcie!Passed(d, f)' <=> Pcie!Passed(d, f) \/ (d = scan_at.dev /\ f = scan_at.fn)
    BY Zenon, <1>2, <2>1, PcieMoves
  <2>3. Pcie!BarKept' /\ reg' \in [Devs -> [Fns -> Int]]
    BY Zenon, <1>2, <2>1, PcieSizes
  <2>4. Pcie!Types'
    <3>1. started[scan_at.dev][scan_at.fn] \in Int /\ started[scan_at.dev] \in [Fns -> Int]
      BY Zenon, <1>2, <2>1, PcieCounts DEF Pcie!IInv, Pcie!Types
    <3>2. started' \in [Devs -> [Fns -> Int]]
      BY <1>2, <2>1, <3>1 DEF Pcie!IInv, Pcie!Types
    <3> QED BY Zenon, <2>1, <2>2, <2>3, <3>2 DEF Pcie!IInv, Pcie!Types
  <2>5. ASSUME NEW d \in Devs, NEW f \in Fns
        PROVE  /\ Pcie!Passed(d, f)' => ~Pcie!pcie_is_bridge([dev |-> d, fn |-> f])'
               /\ started'[d][f] >= 0 /\ started'[d][f] <= IF Pcie!Passed(d, f)' THEN depth' ELSE depth' - 1
               /\ depth' = 1 => started'[d][f] = IF kind'[d][f] = "driver" /\ Pcie!Passed(d, f)' THEN 1 ELSE 0
    <3>1. CASE d = scan_at.dev /\ f = scan_at.fn
      <4>1. ~Pcie!pcie_is_bridge([dev |-> d, fn |-> f])' /\ kind[d][f] = "driver"
        BY Zenon, <1>2, <2>1, <3>1 DEF Pcie!pcie_is_bridge, Pcie!Kind
      <4>2. started[d][f] \in Int /\ started[d][f] <= depth - 1 /\ started[d][f] >= 0
        BY Zenon, <2>2, <3>1, PcieCounts DEF Pcie!IInv
      <4>3. depth = 1 => started[d][f] = 0
        BY Zenon, <2>2, <3>1 DEF Pcie!IInv
      <4>4. started'[d][f] = started[d][f] + 1
        BY Zenon, <2>1, <3>1 DEF Pcie!IInv, Pcie!Types
      <4> QED BY <1>1, <2>1, <2>2, <3>1, <4>1, <4>2, <4>3, <4>4
    <3>2. CASE ~(d = scan_at.dev /\ f = scan_at.fn)
      <4>1. Pcie!Passed(d, f)' <=> Pcie!Passed(d, f)
        BY <2>2, <3>2
      <4>2. started'[d][f] = started[d][f]
        BY Zenon, <1>2, <2>1, <3>2 DEF Pcie!IInv, Pcie!Types
      <4> QED BY <2>1, <4>1, <4>2 DEF Pcie!IInv, Pcie!pcie_is_bridge, Pcie!Kind
    <3> QED BY Zenon, <3>1, <3>2
  <2>6. Pcie!FoundBridge' = Pcie!FoundBridge
    BY Zenon, <2>1 DEF Pcie!FoundBridge, Pcie!pcie_is_bridge, Pcie!Kind
  <2> QED BY Zenon, <2>1, <2>2, <2>3, <2>4, <2>5, <2>6 DEF Pcie!IInv
<1> QED BY Zenon, <1>3, <1>4, <1>5 DEF Pcie!Next

\* A step that leaves the variables alone keeps the invariant.
LEMMA PcieStutterIInv == ASSUME Pcie!IInv, UNCHANGED Pcie!vars PROVE Pcie!IInv'
<1>1. Pcie!Types' /\ Pcie!BarKept' /\ Pcie!FoundBridge' = Pcie!FoundBridge
  BY DEF Pcie!vars, Pcie!IInv, Pcie!Types, Pcie!BarKept, Pcie!FoundBridge, Pcie!pcie_is_bridge, Pcie!Kind
<1>2. \A d, f : (Pcie!Seen(d, f)' <=> Pcie!Seen(d, f)) /\ (Pcie!Passed(d, f)' <=> Pcie!Passed(d, f))
  BY Zenon DEF Pcie!vars, Pcie!Seen, Pcie!Passed
<1> QED BY <1>1, <1>2 DEF Pcie!vars, Pcie!IInv, Pcie!pcie_is_bridge, Pcie!Kind, Pcie!Seen

\* In such a state the properties hold.
LEMMA PcieIInvSafe == ASSUME Pcie!Sane, Pcie!IInv PROVE Pcie!TypeOK /\ Pcie!DriversOnce /\ Pcie!DeepOnlyForBridge /\ Pcie!BarKept
<1>1. Pcie!TypeOK
  <2>1. \A d \in Devs, f \in Fns : reg[d][f] \in {0, 8, 9, 10} /\ started[d][f] \in 0 .. MaxDepth
    <3> SUFFICES ASSUME NEW d \in Devs, NEW f \in Fns PROVE reg[d][f] \in {0, 8, 9, 10} /\ started[d][f] \in 0 .. MaxDepth
      OBVIOUS
    <3>1. started[d][f] \in Int /\ started[d][f] >= 0 /\ started[d][f] <= depth /\ depth \in Int /\ depth <= MaxDepth
      <4>1. started[d][f] \in Int /\ depth \in Int /\ depth <= MaxDepth
        BY PcieCounts DEF Pcie!IInv, Pcie!Types, Pcie!Sane
      <4>2. started[d][f] >= 0 /\ (started[d][f] <= depth \/ started[d][f] <= depth - 1)
        BY Zenon DEF Pcie!IInv
      <4> QED BY <4>1, <4>2
    <3>2. reg[d][f] \in {0, 8, 9, 10}
      <4>1. bar.base \in {0, 8, 9, 10} /\ reg[d][f] \in {bar.base, Pcie!Masked(bar.base)}
        BY DEF Pcie!IInv, Pcie!Types, Pcie!BarKept, Pcie!Bars
      <4> QED BY <4>1 DEF Pcie!Masked
    <3> QED BY <3>1, <3>2 DEF Pcie!Sane
  <2>2. {0, 8, 9, 10} \subseteq 0 .. Word - 1
    BY DEF Pcie!Sane
  <2> QED BY Zenon, <2>1, <2>2 DEF Pcie!IInv, Pcie!Types, Pcie!TypeOK
<1>2. scan_at = Pcie!Done => ~Pcie!FoundBridge
  BY Zenon DEF Pcie!IInv, Pcie!FoundBridge, Pcie!Passed, Pcie!Seen
<1>3. Pcie!DeepOnlyForBridge
  BY Zenon, <1>2 DEF Pcie!IInv, Pcie!DeepOnlyForBridge
<1>4. Pcie!DriversOnce
  <2>1. depth \in Nat /\ depth >= 1
    BY DEF Pcie!IInv, Pcie!Types, Pcie!Sane
  <2>2. scan_at = Pcie!Done => depth = 1
    BY <1>2, <2>1 DEF Pcie!IInv
  <2> QED BY Zenon, <2>2 DEF Pcie!IInv, Pcie!DriversOnce, Pcie!Passed, Pcie!Seen
<1> QED BY Zenon, <1>1, <1>3, <1>4 DEF Pcie!IInv
-----------------------------------------------------------------------------
(* The keyboard, for the number of CPUs and the keys that are pressed: ps2.c. *)

CONSTANTS Openers, Ring, Keys1, Keys2

VARIABLES mod, owner, cur_tty, ringbuffer, ring_head, ring_tail, irq, opening, has, held, lost, queue,
          kbd_raced

Kbd(C, K) == INSTANCE Keyboard WITH Cpus <- C, Keys <- K, raced <- kbd_raced, Tasks <- Openers

ASSUME KbdSane == Kbd(1, Keys1)!Sane /\ Kbd(2, Keys2)!Sane

\* The remainder that dev/ps2.c takes of an index that is at most one round too far.
LEMMA KbdRemainder ==
  ASSUME NEW C, NEW K, Ring \in Nat \ {0}, NEW p \in 0 .. Ring - 1, NEW n \in 0 .. Ring
  PROVE  /\ (p + n) % Ring = Kbd(C, K)!After(p, n)
         /\ n < Ring => (Kbd(C, K)!After(p, n) - p) % Ring = n
         /\ Kbd(C, K)!After(p, n) \in 0 .. Ring - 1
<1>1. CASE p + n < Ring
  BY <1>1 DEF Kbd!After
<1>2. CASE p + n >= Ring
  <2>1. p + n < 2 * Ring
    OBVIOUS
  <2>2. (p + n) % Ring = p + n - Ring
    BY <2>1, <1>2
  <2>3. n < Ring => (n - Ring) % Ring = n
    OBVIOUS
  <2> QED BY <2>1, <2>2, <2>3, <1>2 DEF Kbd!After
<1> QED BY <1>1, <1>2

\* An event is queued by interrupt_handler when there is room.
LEMMA KbdRingPut ==
  ASSUME NEW C, NEW K, Ring \in Nat \ {0}, NEW h \in 0 .. Ring - 1, NEW t \in 0 .. Ring - 1,
         NEW ring \in [0 .. Ring - 1 -> Kbd(C, K)!Events], NEW q, NEW e \in Kbd(C, K)!Events, NEW r,
         Kbd(C, K)!RingOK(h, t, ring, q), (t + 1) % Ring # h,
         r = [ring EXCEPT ![t] = e] \/ (r = ring /\ e = Kbd(C, K)!NoEvent)
  PROVE  Kbd(C, K)!RingOK(h, (t + 1) % Ring, r, Append(q, e))
<1> DEFINE n == Len(q)
<1>1. q \in Seq(Kbd(C, K)!Events) /\ n \in Nat /\ n < Ring /\ t = Kbd(C, K)!After(h, n)
  BY DEF Kbd!RingOK
<1>2. (t + 1) % Ring = Kbd(C, K)!After(t, 1)
  BY KbdRemainder
<1>3. Kbd(C, K)!After(t, 1) = Kbd(C, K)!After(h, n + 1) /\ n + 1 < Ring
  BY <1>1, <1>2 DEF Kbd!After
<1>4. Append(q, e) \in Seq(Kbd(C, K)!Events) /\ Len(Append(q, e)) = n + 1
  BY <1>1
<1>5. ASSUME NEW i \in 1 .. n + 1, Append(q, e)[i] # Kbd(C, K)!NoEvent
      PROVE  r[Kbd(C, K)!After(h, i - 1)] = Append(q, e)[i]
  <2>1. CASE i = n + 1
    <3>1. Append(q, e)[i] = e
      BY <2>1, <1>1
    <3>2. Kbd(C, K)!After(h, i - 1) = t
      BY <2>1, <1>1
    <3> QED BY Zenon, <3>1, <3>2, <1>5
  <2>2. CASE i # n + 1
    <3>1. i \in 1 .. n /\ Append(q, e)[i] = q[i]
      BY <2>2, <1>1
    <3>2. Kbd(C, K)!After(h, i - 1) # t /\ Kbd(C, K)!After(h, i - 1) \in 0 .. Ring - 1
      BY <3>1, <1>1 DEF Kbd!After
    <3>3. ring[Kbd(C, K)!After(h, i - 1)] = q[i]
      BY Zenon, <3>1, <1>5 DEF Kbd!RingOK
    <3> QED BY Zenon, <3>1, <3>2, <3>3
  <2> QED BY Zenon, <2>1, <2>2
<1> QED BY Zenon, <1>2, <1>3, <1>4, <1>5 DEF Kbd!RingOK

\* kbd_read takes the oldest.
LEMMA KbdRingGet ==
  ASSUME NEW C, NEW K, Ring \in Nat \ {0}, NEW h \in 0 .. Ring - 1, NEW t \in 0 .. Ring - 1,
         NEW ring, NEW q, Kbd(C, K)!RingOK(h, t, ring, q), h # t
  PROVE  Kbd(C, K)!RingOK((h + 1) % Ring, t, ring, Tail(q))
<1> DEFINE n == Len(q)
<1>1. q \in Seq(Kbd(C, K)!Events) /\ n \in Nat /\ n < Ring /\ t = Kbd(C, K)!After(h, n)
  BY DEF Kbd!RingOK
<1>2. n > 0
  BY <1>1 DEF Kbd!After
<1>3. Tail(q) \in Seq(Kbd(C, K)!Events) /\ Len(Tail(q)) = n - 1 /\ \A i \in 1 .. n - 1 : Tail(q)[i] = q[i + 1]
  BY <1>1, <1>2
<1>4. (h + 1) % Ring = Kbd(C, K)!After(h, 1)
  BY KbdRemainder
<1>5. \A i \in 0 .. n - 1 : Kbd(C, K)!After(Kbd(C, K)!After(h, 1), i) = Kbd(C, K)!After(h, i + 1)
  BY <1>1 DEF Kbd!After
<1>6. ASSUME NEW i \in 1 .. n - 1, Tail(q)[i] # Kbd(C, K)!NoEvent
      PROVE  ring[Kbd(C, K)!After(Kbd(C, K)!After(h, 1), i - 1)] = Tail(q)[i]
  <2>1. i + 1 \in 1 .. n /\ q[i + 1] = Tail(q)[i]
    BY <1>1, <1>3
  <2>2. ring[Kbd(C, K)!After(h, (i + 1) - 1)] = q[i + 1]
    BY Zenon, <2>1, <1>6 DEF Kbd!RingOK
  <2>3. Kbd(C, K)!After(Kbd(C, K)!After(h, 1), i - 1) = Kbd(C, K)!After(h, i) /\ (i + 1) - 1 = i
    BY <1>1, <1>5
  <2> QED BY Zenon, <2>1, <2>2, <2>3
<1>7. t = Kbd(C, K)!After(Kbd(C, K)!After(h, 1), n - 1)
  BY <1>1, <1>2, <1>5
<1> QED BY <1>1, <1>2, <1>3, <1>4, <1>6, <1>7 DEF Kbd!RingOK
\* The state that ps2_init leaves satisfies the invariant.
LEMMA KbdInitIInv == ASSUME NEW C, NEW K, Kbd(C, K)!Sane, Kbd(C, K)!Init PROVE Kbd(C, K)!IInv
<1>0. Kbd(C, K)!NoEvent \in Kbd(C, K)!Events
  BY DEF Kbd!NoEvent, Kbd!Events, Kbd!None
<1>1. Kbd(C, K)!TypeOK /\ Kbd(C, K)!IrqOK
  <2>1. ringbuffer \in [0 .. Ring - 1 -> Kbd(C, K)!Events]
    BY <1>0 DEF Kbd!Init
  <2>2. Kbd(C, K)!TypeOK
    <3>1. {ring_head, ring_tail} \subseteq 0 .. Ring - 1
      BY DEF Kbd!Init, Kbd!Sane
    <3>2. mod = {} /\ owner = Kbd(C, K)!Nobody /\ cur_tty = FALSE /\ opening = {} /\ has = {} /\ held = {} /\ lost = {} /\ kbd_raced = FALSE
      BY Zenon DEF Kbd!Init
    <3> QED BY <2>1, <3>1, <3>2, Zenon DEF Kbd!TypeOK
  <2>3. Kbd(C, K)!IrqOK
    BY Zenon DEF Kbd!Init, Kbd!IrqOK, Kbd!Idle, Kbd!None
  <2> QED BY Zenon, <2>2, <2>3
<1>2. Kbd(C, K)!RingOK(ring_head, ring_tail, ringbuffer, queue)
  BY DEF Kbd!Init, Kbd!Sane, Kbd!RingOK, Kbd!After
<1>3. Kbd(C, K)!KeyToOneReader /\ Kbd(C, K)!OneOwner /\ Kbd(C, K)!OneOpens /\ Kbd(C, K)!ModifiersAreHeld
  BY Zenon DEF Kbd!Init, Kbd!KeyToOneReader, Kbd!OneOwner, Kbd!OneOpens, Kbd!ModifiersAreHeld
<1> QED BY Zenon, <1>1, <1>2, <1>3 DEF Kbd!IInv

\* interrupt_handler, to the question for the owner.
LEMMA KbdHandlerIInv ==
  ASSUME NEW C, NEW K, Kbd(C, K)!Sane, Kbd(C, K)!IInv, NEW key \in K, NEW down \in BOOLEAN, Kbd(C, K)!interrupt_handler(key, down)
  PROVE  Kbd(C, K)!IInv'
<1> USE DEF Kbd!IInv
<1> DEFINE mods == Kbd(C, K)!Modifiers(key, down)
           char == Kbd(C, K)!Char(key, "shift" \in mods)
<1>1. mods \subseteq {"shift", "ctrl"} /\ char \in {"c", "C", "tab", Kbd(C, K)!None}
  BY Zenon DEF Kbd!Modifiers, Kbd!Modifier, Kbd!Char, Kbd!TypeOK
<1>2. UNCHANGED <<owner, cur_tty, ringbuffer, ring_head, ring_tail, opening, has, queue, kbd_raced>>
  BY DEF Kbd!interrupt_handler
<1>3. Kbd(C, K)!TypeOK'
  <2>1. Kbd(C, K)!Modifier(key) \subseteq {"shift", "ctrl"} /\ (Kbd(C, K)!Modifier(key) # {} => key \in Kbd(C, K)!Shifts \cup Kbd(C, K)!Ctrls)
    BY Zenon DEF Kbd!Modifier
  <2>2. held' \subseteq Kbd(C, K)!Shifts \cup Kbd(C, K)!Ctrls /\ lost' \subseteq {"shift", "ctrl"} /\ mod' = mods
    BY Zenon, <2>1 DEF Kbd!interrupt_handler, Kbd!TypeOK
  <2> QED BY Zenon, <1>1, <1>2, <2>2 DEF Kbd!TypeOK
<1>4. irq' = Kbd(C, K)!Idle \/ irq' = [key |-> key, down |-> down, char |-> char,
                                       tty |-> (Kbd(C, K)!ToTty /\ down) /\ char # Kbd(C, K)!None, moved |-> FALSE]
  BY Zenon DEF Kbd!interrupt_handler
<1>5. Kbd(C, K)!ModifiersAreHeld'
  <2> DEFINE Shifts == Kbd(C, K)!Shifts
             Ctrls == Kbd(C, K)!Ctrls
             Of(k) == Kbd(C, K)!Modifier(k)
  <2>1. /\ mod' = (IF down THEN mod \cup Of(key) ELSE mod \ Of(key))
        /\ held' = (IF down /\ Of(key) # {} THEN held \cup {key} ELSE held \ {key})
        /\ lost' = (IF ~down /\ Kbd(C, K)!Another(key) THEN lost \cup Of(key) ELSE lost \ Of(key))
    BY Zenon DEF Kbd!interrupt_handler, Kbd!Modifiers
  <2>2. Shifts \cap Ctrls = {} /\ held \subseteq Shifts \cup Ctrls
    BY Zenon DEF Kbd!Shifts, Kbd!Ctrls, Kbd!TypeOK
  <2>3. \A k \in Shifts : Of(k) = {"shift"}
    BY Zenon, <2>2 DEF Kbd!Modifier
  <2>4. \A k \in Ctrls : Of(k) = {"ctrl"}
    BY Zenon, <2>2 DEF Kbd!Modifier
  <2>5. \A k : k \notin Shifts \cup Ctrls => Of(k) = {}
    BY Zenon DEF Kbd!Modifier
  <2> HIDE DEF Shifts, Ctrls, Of
  <2>6. Kbd(C, K)!Another(key) <=> \E k \in held \ {key} : Of(k) = Of(key)
    BY Zenon DEF Kbd!Another, Of
  <2>7. /\ "shift" \in mod <=> held \cap Shifts # {} /\ "shift" \notin lost
        /\ "ctrl" \in mod <=> held \cap Ctrls # {} /\ "ctrl" \notin lost
    BY Zenon DEF Kbd!ModifiersAreHeld, Shifts, Ctrls
  <2>8. /\ "shift" \in mod' <=> held' \cap Shifts # {} /\ "shift" \notin lost'
        /\ "ctrl" \in mod' <=> held' \cap Ctrls # {} /\ "ctrl" \notin lost'
    <3>1. CASE key \in Shifts
      <4>1. Of(key) = {"shift"} /\ key \notin Ctrls
        BY Zenon, <2>2, <2>3, <3>1
      <4>2. Kbd(C, K)!Another(key) <=> (held \ {key}) \cap Shifts # {}
        <5>1. \A k \in held : Of(k) = Of(key) <=> k \in Shifts
          BY <2>2, <2>3, <2>4, <4>1
        <5> QED BY Zenon, <2>6, <5>1
      <4> QED BY Zenon, <2>1, <2>7, <3>1, <4>1, <4>2
    <3>2. CASE key \in Ctrls
      <4>1. Of(key) = {"ctrl"} /\ key \notin Shifts
        BY Zenon, <2>2, <2>4, <3>2
      <4>2. Kbd(C, K)!Another(key) <=> (held \ {key}) \cap Ctrls # {}
        <5>1. \A k \in held : Of(k) = Of(key) <=> k \in Ctrls
          BY <2>2, <2>3, <2>4, <4>1
        <5> QED BY Zenon, <2>6, <5>1
      <4> QED BY Zenon, <2>1, <2>7, <3>2, <4>1, <4>2
    <3>3. CASE key \notin Shifts \cup Ctrls
      <4>1. Of(key) = {} /\ held \ {key} = held
        BY Zenon, <2>2, <2>5, <3>3
      <4>2. mod' = mod /\ held' = held /\ lost' = lost
        BY Zenon, <2>1, <4>1
      <4> QED BY Zenon, <2>7, <4>2
    <3> QED BY Zenon, <3>1, <3>2, <3>3
  <2> QED BY Zenon, <2>8 DEF Kbd!ModifiersAreHeld, Shifts, Ctrls
<1>6. CASE irq' = Kbd(C, K)!Idle
  BY Zenon, <1>2, <1>3, <1>5, <1>6 DEF Kbd!IrqOK, Kbd!Idle, Kbd!None, Kbd!KeyToOneReader, Kbd!OneOwner, Kbd!OneOpens
<1>7. CASE irq' # Kbd(C, K)!Idle
  <2>1. /\ irq'.key = key /\ irq'.down = down /\ irq'.char = char
        /\ irq'.tty = ((Kbd(C, K)!ToTty /\ down) /\ char # Kbd(C, K)!None)
    BY <1>4, <1>7
  <2>2. Kbd(C, K)!IrqOK'
    <3> HIDE DEF mods, char
    <3>1. \E b \in BOOLEAN : b = ((Kbd(C, K)!ToTty /\ down) /\ char # Kbd(C, K)!None)
      BY Zenon
    <3>2. PICK b \in BOOLEAN :
             irq' = [key |-> key, down |-> down, char |-> char, tty |-> b, moved |-> FALSE]
      BY <1>4, <1>7, <3>1, Zenon
    <3> QED BY Zenon, <1>1, <3>2 DEF Kbd!IrqOK
  <2>3. Kbd(C, K)!KeyToOneReader'
    BY Zenon, <1>2, <2>1 DEF Kbd!KeyToOneReader, Kbd!ToTty
  <2> QED BY Zenon, <1>2, <1>3, <1>5, <2>2, <2>3 DEF Kbd!OneOwner, Kbd!OneOpens
<1> QED BY <1>6, <1>7

\* The rest of the handler: into the ring, or nowhere.
LEMMA KbdToRingIInv ==
  ASSUME NEW C, NEW K, Kbd(C, K)!Sane, Kbd(C, K)!IInv, Kbd(C, K)!ToRing
  PROVE  Kbd(C, K)!IInv'
<1> USE DEF Kbd!IInv
<1> DEFINE event == [key |-> IF irq.char # Kbd(C, K)!None THEN irq.char ELSE "ctrl", down |-> irq.down]
           written == irq.char # Kbd(C, K)!None \/ irq.key \in Kbd(C, K)!Ctrls
           e == IF written THEN event ELSE Kbd(C, K)!NoEvent
<1>1. UNCHANGED <<mod, owner, cur_tty, ring_head, opening, has, held, lost, kbd_raced>> /\ irq' = Kbd(C, K)!Idle
  BY Zenon DEF Kbd!ToRing
<1>2. e \in Kbd(C, K)!Events
  BY DEF Kbd!IrqOK, Kbd!Events, Kbd!NoEvent, Kbd!None
<1>3. CASE owner # Kbd(C, K)!Nobody /\ Kbd(C, K)!InTable(irq.key) /\ Kbd(C, K)!Room
  <2>1. /\ ringbuffer' = IF written THEN [ringbuffer EXCEPT ![ring_tail] = event] ELSE ringbuffer
        /\ ring_tail' = (ring_tail + 1) % Ring /\ queue' = Append(queue, e)
    BY <1>3 DEF Kbd!ToRing
  <2>2. ringbuffer' = [ringbuffer EXCEPT ![ring_tail] = e] \/ (ringbuffer' = ringbuffer /\ e = Kbd(C, K)!NoEvent)
    BY Zenon, <2>1
  <2>3. Kbd(C, K)!RingOK(ring_head, ring_tail', ringbuffer', queue')
    BY Zenon, <1>2, <1>3, <2>1, <2>2, KbdRingPut DEF Kbd!Room, Kbd!Sane, Kbd!TypeOK
  <2>4. ring_tail' \in 0 .. Ring - 1
    <3>1. 1 \in 0 .. Ring /\ Ring \in Nat \ {0} /\ ring_tail \in 0 .. Ring - 1
      BY DEF Kbd!Sane, Kbd!TypeOK
    <3>2. (ring_tail + 1) % Ring \in 0 .. Ring - 1
      BY Zenon, <3>1, KbdRemainder
    <3> QED BY Zenon, <2>1, <3>2
  <2>5. ringbuffer' \in [0 .. Ring - 1 -> Kbd(C, K)!Events]
    BY Zenon, <1>2, <2>2 DEF Kbd!TypeOK
  <2> QED BY Zenon, <1>1, <2>3, <2>4, <2>5 DEF Kbd!TypeOK, Kbd!IrqOK, Kbd!Idle, Kbd!None, Kbd!KeyToOneReader, Kbd!OneOwner, Kbd!OneOpens, Kbd!ModifiersAreHeld
<1>4. CASE ~(owner # Kbd(C, K)!Nobody /\ Kbd(C, K)!InTable(irq.key) /\ Kbd(C, K)!Room)
  <2>1. UNCHANGED <<ringbuffer, ring_tail, queue>>
    BY Zenon, <1>4 DEF Kbd!ToRing
  <2> QED BY Zenon, <1>1, <2>1 DEF Kbd!TypeOK, Kbd!IrqOK, Kbd!Idle, Kbd!None, Kbd!KeyToOneReader, Kbd!OneOwner, Kbd!OneOpens, Kbd!ModifiersAreHeld
<1> QED BY Zenon, <1>3, <1>4

\* The two halves of kbd_open, and kbd_close.
LEMMA KbdOwnerIInv ==
  ASSUME NEW C, NEW K, Kbd(C, K)!Sane, Kbd(C, K)!IInv, NEW t \in Openers, Kbd(C, K)!kbd_open(t) \/ Kbd(C, K)!Take(t) \/ Kbd(C, K)!kbd_close(t)
  PROVE  Kbd(C, K)!IInv'
<1> USE DEF Kbd!IInv
<1>1. UNCHANGED <<mod, cur_tty, ringbuffer, ring_head, ring_tail, held, lost, queue>>
  BY DEF Kbd!kbd_open, Kbd!Take, Kbd!kbd_close
<1>2. Kbd(C, K)!TypeOK'
  BY Zenon, <1>1 DEF Kbd!TypeOK, Kbd!kbd_open, Kbd!Take, Kbd!kbd_close
<1>3. Kbd(C, K)!IrqOK' /\ Kbd(C, K)!KeyToOneReader'
  BY Zenon, <1>1 DEF Kbd!kbd_open, Kbd!Take, Kbd!kbd_close, Kbd!Moved, Kbd!IrqOK, Kbd!Idle, Kbd!None, Kbd!KeyToOneReader
<1>4. CASE Kbd(C, K)!kbd_open(t)
  BY Zenon, <1>1, <1>2, <1>3, <1>4 DEF Kbd!kbd_open, Kbd!IsFree, Kbd!OneOwner, Kbd!OneOpens, Kbd!ModifiersAreHeld, Kbd!TypeOK
<1>5. CASE Kbd(C, K)!Take(t)
  BY Zenon, <1>1, <1>2, <1>3, <1>5 DEF Kbd!Take, Kbd!OneOwner, Kbd!OneOpens, Kbd!ModifiersAreHeld, Kbd!TypeOK, Kbd!Sane
<1>6. CASE Kbd(C, K)!kbd_close(t)
  BY Zenon, <1>1, <1>2, <1>3, <1>6 DEF Kbd!kbd_close, Kbd!OneOwner, Kbd!OneOpens, Kbd!ModifiersAreHeld, Kbd!TypeOK, Kbd!Sane
<1> QED BY Zenon, <1>4, <1>5, <1>6

\* kbd_read, and the terminal's registration.
LEMMA KbdReadIInv ==
  ASSUME NEW C, NEW K, Kbd(C, K)!Sane, Kbd(C, K)!IInv, Kbd(C, K)!ps2_set_tty \/ \E t \in Openers : Kbd(C, K)!kbd_read(t)
  PROVE  Kbd(C, K)!IInv'
<1> USE DEF Kbd!IInv
<1>1. CASE Kbd(C, K)!ps2_set_tty
  BY Zenon, <1>1 DEF Kbd!ps2_set_tty, Kbd!TypeOK, Kbd!IrqOK, Kbd!KeyToOneReader, Kbd!OneOwner, Kbd!OneOpens, Kbd!ModifiersAreHeld
<1>2. CASE \E t \in Openers : Kbd(C, K)!kbd_read(t)
  <2>1. /\ UNCHANGED <<mod, owner, cur_tty, ringbuffer, ring_tail, irq, opening, has, held, lost, kbd_raced>>
        /\ ring_head # ring_tail /\ ring_head' = (ring_head + 1) % Ring /\ queue' = Tail(queue)
    BY Zenon, <1>2 DEF Kbd!kbd_read
  <2>2. Kbd(C, K)!RingOK(ring_head', ring_tail, ringbuffer, queue')
    BY Zenon, <2>1, KbdRingGet DEF Kbd!Sane, Kbd!TypeOK
  <2>3. ring_head' \in 0 .. Ring - 1
    BY <2>1, KbdRemainder DEF Kbd!Sane, Kbd!TypeOK
  <2>4. Kbd(C, K)!TypeOK'
    BY Zenon, <2>1, <2>3 DEF Kbd!TypeOK
  <2>5. Kbd(C, K)!IrqOK' /\ Kbd(C, K)!KeyToOneReader' /\ Kbd(C, K)!OneOwner' /\ Kbd(C, K)!OneOpens'
    BY Zenon, <2>1 DEF Kbd!IrqOK, Kbd!KeyToOneReader, Kbd!OneOwner, Kbd!OneOpens
  <2>6. Kbd(C, K)!ModifiersAreHeld'
    BY Zenon, <2>1 DEF Kbd!ModifiersAreHeld
  <2> QED BY Zenon, <2>1, <2>2, <2>4, <2>5, <2>6
<1> QED BY <1>1, <1>2
-----------------------------------------------------------------------------
\* Every step.
LEMMA KbdNextIInv == ASSUME NEW C, NEW K, Kbd(C, K)!Sane, Kbd(C, K)!IInv, Kbd(C, K)!Next PROVE Kbd(C, K)!IInv'
BY KbdHandlerIInv, KbdToRingIInv, KbdOwnerIInv, KbdReadIInv DEF Kbd!Next

\* A step of another part.
LEMMA KbdStutterIInv == ASSUME NEW C, NEW K, Kbd(C, K)!IInv, UNCHANGED Kbd(C, K)!vars PROVE Kbd(C, K)!IInv'
<1>1. Kbd(C, K)!TypeOK' /\ Kbd(C, K)!RingOK(ring_head, ring_tail, ringbuffer, queue)'
  BY Zenon DEF Kbd!vars, Kbd!IInv, Kbd!TypeOK
<1>2. Kbd(C, K)!IrqOK' /\ Kbd(C, K)!KeyToOneReader' /\ Kbd(C, K)!OneOwner' /\ Kbd(C, K)!OneOpens'
  BY Zenon DEF Kbd!vars, Kbd!IInv, Kbd!IrqOK, Kbd!KeyToOneReader, Kbd!OneOwner, Kbd!OneOpens
<1>3. Kbd(C, K)!ModifiersAreHeld'
  BY Zenon DEF Kbd!vars, Kbd!IInv, Kbd!ModifiersAreHeld
<1> QED BY Zenon, <1>1, <1>2, <1>3 DEF Kbd!IInv

\* The ring of the driver holds what was queued.
LEMMA KbdIInvSafe == ASSUME NEW C, NEW K, Kbd(C, K)!Sane, Kbd(C, K)!IInv PROVE Kbd(C, K)!TypeOK /\ Kbd(C, K)!KeyboardSafe
<1>1. Ring \in Nat \ {0} /\ ring_head \in 0 .. Ring - 1 /\ queue \in Seq(Kbd(C, K)!Events) /\ Len(queue) \in 0 .. Ring - 1
  BY DEF Kbd!IInv, Kbd!TypeOK, Kbd!RingOK, Kbd!Sane
<1>2. Len(queue) = (ring_tail - ring_head) % Ring
  <2>1. ring_tail = Kbd(C, K)!After(ring_head, Len(queue)) /\ Len(queue) < Ring
    BY Zenon, <1>1 DEF Kbd!IInv, Kbd!RingOK
  <2>2. Len(queue) \in 0 .. Ring
    BY <1>1
  <2>3. (Kbd(C, K)!After(ring_head, Len(queue)) - ring_head) % Ring = Len(queue)
    BY Zenon, <1>1, <2>1, <2>2, KbdRemainder
  <2> QED BY <2>1, <2>3
<1>3. ASSUME NEW i \in DOMAIN queue, queue[i] # Kbd(C, K)!NoEvent
      PROVE  ringbuffer[(ring_head + i - 1) % Ring] = queue[i]
  <2>1. i \in 1 .. Len(queue) /\ i - 1 \in 0 .. Ring
    BY <1>1
  <2>2. (ring_head + i - 1) % Ring = Kbd(C, K)!After(ring_head, i - 1)
    <3>1. ring_head + i - 1 = ring_head + (i - 1)
      BY <1>1, <2>1
    <3> QED BY Zenon, <1>1, <2>1, <3>1, KbdRemainder
  <2> QED BY Zenon, <2>1, <2>2, <1>3 DEF Kbd!IInv, Kbd!RingOK
<1> QED BY Zenon, <1>2, <1>3 DEF Kbd!RingHoldsQueue, Kbd!IInv, Kbd!KeyboardSafe
-----------------------------------------------------------------------------
(* The log and the panic: klog.c, panic.c.                                 *)

CONSTANTS Cpus

VARIABLES panic_pc, lock, log_buffer, panic_cpu, nmi, toStop, garbled, unlocked, reported, nested

Panic == INSTANCE Panic WITH pc <- panic_pc

ASSUME PanicSane == Panic!Sane

\* The initial state of klog.c and panic.c satisfies the invariant.
LEMMA PanicInitIInv == ASSUME Panic!Init PROVE Panic!IInv
  BY Zenon DEF Panic!Init, Panic!IInv, Panic!TypeOK, Panic!OneReporter, Panic!Locked, Panic!OwnText, Panic!BufferUsers, Panic!GarbledOnlyUnlocked

\* Every step of klog, of a fault's dump and of a panic keeps it.
LEMMA PanicNextIInv == ASSUME Panic!Sane, Panic!IInv, Panic!Next PROVE Panic!IInv'
<1> USE DEF Panic!Sane
<1>1. ASSUME NEW c \in Cpus,
             Panic!klog(c) \/ Panic!Acquire(c) \/ Panic!Release(c) \/ Panic!UserFault(c) \/ Panic!Dumped(c) \/ Panic!panic(c)
               \/ Panic!panic_prepare(c) \/ Panic!Stopped(c) \/ Panic!NmiHalt(c) \/ Panic!panic_complete(c) \/ Panic!ReportFaults(c)
      PROVE  Panic!IInv'
  <2> USE DEF Panic!IInv, Panic!Goto
  <2>1. Panic!TypeOK'
    BY Zenon, <1>1 DEF Panic!TypeOK, Panic!klog, Panic!Acquire, Panic!Release, Panic!UserFault, Panic!Dumped, Panic!panic, Panic!panic_prepare, Panic!First, Panic!Stopped,
                Panic!NmiHalt, Panic!panic_complete, Panic!ReportFaults, Panic!Fill, Panic!Emit
  <2>2. Panic!OneReporter'
    BY Zenon, <1>1 DEF Panic!TypeOK, Panic!OneReporter, Panic!klog, Panic!Acquire, Panic!Release, Panic!UserFault, Panic!Dumped, Panic!panic, Panic!panic_prepare,
                Panic!First, Panic!Stopped, Panic!NmiHalt, Panic!panic_complete, Panic!ReportFaults
  <2>3. Panic!Locked'
    BY Zenon, <1>1 DEF Panic!TypeOK, Panic!Locked, Panic!klog, Panic!Acquire, Panic!LockFree, Panic!Release, Panic!UserFault, Panic!Dumped, Panic!panic, Panic!panic_prepare,
                Panic!First, Panic!Stopped, Panic!NmiHalt, Panic!panic_complete, Panic!ReportFaults
  <2>4. CASE Panic!Acquire(c)
    <3>1. log_buffer' = c /\ Panic!BufferUsers' \subseteq Panic!BufferUsers \cup {c} /\ garbled' = garbled
      BY <2>4 DEF Panic!TypeOK, Panic!BufferUsers, Panic!Acquire, Panic!Fill
    <3>2. (unlocked \/ Panic!BufferUsers \ {c} # {}) => unlocked'
      <4>1. \A d \in Panic!BufferUsers : panic_pc[d] # "filled"
        BY Zenon, <2>4 DEF Panic!Locked, Panic!BufferUsers, Panic!Acquire, Panic!LockFree
      <4> QED BY Zenon, <4>1, <2>4 DEF Panic!Acquire, Panic!Fill
    <3> QED BY Zenon, <2>1, <2>2, <2>3, <3>1, <3>2 DEF Panic!OwnText, Panic!GarbledOnlyUnlocked
  <2>5. CASE Panic!UserFault(c) \/ Panic!Stopped(c)
    <3>1. log_buffer' = c /\ Panic!BufferUsers' \subseteq Panic!BufferUsers \cup {c} /\ garbled' = garbled
      BY <2>5 DEF Panic!TypeOK, Panic!BufferUsers, Panic!UserFault, Panic!Stopped, Panic!Fill
    <3>2. (unlocked \/ Panic!BufferUsers \ {c} # {}) => unlocked'
      BY Zenon, <2>5 DEF Panic!UserFault, Panic!Stopped, Panic!Fill
    <3> QED BY <2>1, <2>2, <2>3, <3>1, <3>2 DEF Panic!OwnText, Panic!GarbledOnlyUnlocked
  <2>6. CASE Panic!Release(c) \/ Panic!Dumped(c) \/ Panic!panic_complete(c)
    <3>1. UNCHANGED <<log_buffer, unlocked>> /\ Panic!BufferUsers' \subseteq Panic!BufferUsers /\ c \in Panic!BufferUsers
      BY <2>6 DEF Panic!TypeOK, Panic!BufferUsers, Panic!Release, Panic!Dumped, Panic!panic_complete
    <3>2. garbled' => garbled \/ log_buffer # c
      BY Zenon, <2>6 DEF Panic!Release, Panic!Dumped, Panic!panic_complete, Panic!Emit
    <3> QED BY Zenon, <2>1, <2>2, <2>3, <3>1, <3>2 DEF Panic!OwnText, Panic!GarbledOnlyUnlocked
  <2>7. CASE Panic!klog(c) \/ Panic!panic(c) \/ Panic!panic_prepare(c) \/ Panic!NmiHalt(c) \/ Panic!ReportFaults(c)
    <3>1. UNCHANGED <<log_buffer, unlocked, garbled>> /\ Panic!BufferUsers' \subseteq Panic!BufferUsers
      BY Zenon, <2>7 DEF Panic!TypeOK, Panic!BufferUsers, Panic!klog, Panic!panic, Panic!panic_prepare, Panic!NmiHalt, Panic!ReportFaults
    <3> QED BY Zenon, <2>1, <2>2, <2>3, <3>1 DEF Panic!OwnText, Panic!GarbledOnlyUnlocked
  <2> QED BY Zenon, <1>1, <2>4, <2>5, <2>6, <2>7
<1>2. ASSUME NEW c \in Cpus, NEW d \in Cpus, Panic!smp_stop_cpus(c, d)
      PROVE  Panic!IInv'
  BY Zenon, <1>2 DEF Panic!IInv, Panic!TypeOK, Panic!OneReporter, Panic!Locked, Panic!OwnText, Panic!BufferUsers, Panic!GarbledOnlyUnlocked, Panic!smp_stop_cpus, Panic!Stops
<1> QED BY Zenon, <1>1, <1>2 DEF Panic!Next

\* A step of another part.
LEMMA PanicStutterIInv == ASSUME Panic!IInv, UNCHANGED Panic!vars PROVE Panic!IInv'
BY DEF Panic!vars, Panic!IInv, Panic!TypeOK, Panic!OneReporter, Panic!Locked, Panic!OwnText, Panic!BufferUsers, Panic!GarbledOnlyUnlocked

\* The properties follow.
LEMMA PanicIInvSafe == ASSUME Panic!IInv PROVE Panic!TypeOK /\ Panic!PanicSafe
BY DEF Panic!IInv, Panic!PanicSafe
-----------------------------------------------------------------------------
(* What holds in every state, for all Sane constants.                      *)

\* The scan starts the driver of each function once, keeps the registers it sizes,
\* and runs out of stack if, and only if, there is a bridge (scan_device,
\* pcie_dispatch_driver, pcie_get_bar).
ScanSafe == Pcie!TypeOK /\ Pcie!DriversOnce /\ Pcie!DeepOnlyForBridge /\ Pcie!BarKept

\* A sleeper that is alone on its CPU is woken by the tick that completes its time,
\* and earlier only by a spurious interrupt; a second sleeper or a signal alone
\* breaks the queue (sleep_queue_tick, sys_clock_nanosleep).
WokenOnTick == Sleep!TypeOK /\ Sleep!WokenOnTick /\ Sleep!SoundAlone

\* However many CPUs panic together, one reports; a line of the log is another CPU's
\* only after one wrote the buffer without the lock (panic_prepare, klog_nolock).
PanicSafe == Panic!TypeOK /\ Panic!PanicSafe

\* The keyboard's ring holds the events that were queued and not yet read; a key goes
\* to the terminal or to the ring; the device has one owner; a modifier counts as held
\* only while one of its keys is, and while one is unless its other key was released
\* (interrupt_handler, kbd_open), as long as no two CPUs meet in the driver.  Beside
\* the text the screen keeps what was on it and what /dev/fb0 draws, and nothing is
\* drawn outside of it unless two CPUs met in efifb_putchar.
ConsoleSafe ==
    /\ Kbd(1, Keys1)!TypeOK /\ Kbd(1, Keys1)!KeyboardSafe
    /\ Screen!TypeOK /\ Screen!ShowsLastRows /\ Screen!InsideUnlessRaced
-----------------------------------------------------------------------------
LOCAL INSTANCE FiniteSetTheorems

\* The facts about finite sets that the proof about the screen assumes.
LEMMA ScreenFiniteness == Screen!Finiteness
<1>1. \A S : Screen!Cardinality(S) = Cardinality(S) /\ Screen!IsFiniteSet(S) = IsFiniteSet(S)
  BY Zenon DEF Screen!Cardinality, Cardinality, Screen!IsFiniteSet, IsFiniteSet
<1>2. /\ Screen!IsFiniteSet({}) /\ Screen!Cardinality({}) = 0
      /\ \A S : Screen!IsFiniteSet(S) => Screen!Cardinality(S) \in Nat
  BY Zenon, <1>1, FS_EmptySet, FS_CardinalityType
<1>3. \A S, T : Screen!IsFiniteSet(S) /\ T \subseteq S =>
          Screen!IsFiniteSet(T) /\ Screen!Cardinality(T) <= Screen!Cardinality(S) /\ (Screen!Cardinality(T) = Screen!Cardinality(S) => T = S)
  BY Zenon, <1>1, FS_Subset
<1>4. \A S, x : Screen!IsFiniteSet(S) =>
          Screen!Cardinality(S \cup {x}) = IF x \in S THEN Screen!Cardinality(S) ELSE Screen!Cardinality(S) + 1
  BY Zenon, <1>1, FS_AddElement
<1>5. \A S, x : Screen!IsFiniteSet(S) =>
          Screen!Cardinality(S \ {x}) = IF x \in S THEN Screen!Cardinality(S) - 1 ELSE Screen!Cardinality(S)
  BY Zenon, <1>1, FS_RemoveElement
<1> QED BY ONLY <1>2, <1>3, <1>4, <1>5, Zenon DEF Screen!Finiteness

\* The scan starts each driver once and leaves the base address registers as they were,
\* for every number of devices and functions.
THEOREM ScanIsSafe == Pcie!Spec => []ScanSafe
<1>1. Pcie!Init => Pcie!IInv
  BY Zenon, PcieSane, PcieInitIInv
<1>2. Pcie!IInv /\ [Pcie!Next]_(Pcie!vars) => Pcie!IInv'
  BY Zenon, PcieSane, PcieNextIInv, PcieStutterIInv
<1>3. Pcie!IInv => ScanSafe
  BY Zenon, PcieSane, PcieIInvSafe DEF ScanSafe
<1> QED BY <1>1, <1>2, <1>3, PTL DEF Pcie!Spec

\* A sleeper that is alone wakes on the tick that completes its time, for all times
\* and any period of the timer.
THEOREM SleepersWake == Sleep!Spec => []WokenOnTick
<1>1. Sleep!Init => Sleep!IInv
  BY SleepSane, SleepInitIInv
<1>2. Sleep!IInv /\ [Sleep!Next]_(Sleep!vars) => Sleep!IInv'
  BY Zenon, SleepSane, SleepNextIInv, SleepStutterIInv
<1>3. Sleep!IInv => WokenOnTick
  BY Zenon, SleepSane, SleepIInvSafe DEF WokenOnTick
<1> QED BY <1>1, <1>2, <1>3, PTL DEF Sleep!Spec

\* However many CPUs panic at the same time, at most one is past panic_prepare and
\* reports; a line of the log is another CPU's only after one wrote klog's buffer
\* without its lock.
THEOREM PanicIsSafe == Panic!Spec => []PanicSafe
<1>1. Panic!Init => Panic!IInv
  BY Zenon, PanicSane, PanicInitIInv
<1>2. Panic!IInv /\ [Panic!Next]_(Panic!vars) => Panic!IInv'
  BY Zenon, PanicSane, PanicNextIInv, PanicStutterIInv
<1>3. Panic!IInv => PanicSafe
  BY Zenon, PanicSane, PanicIInvSafe DEF PanicSafe
<1> QED BY <1>1, <1>2, <1>3, PTL DEF Panic!Spec

\* The keyboard's ring holds what was queued, a key has one reader, the device one owner,
\* and the modifiers follow their keys, unless two CPUs met in kbd_open, for every size
\* of the ring, any number of CPUs and all keys; and the screen shows the end of the
\* page, with all that was drawn inside it, unless two CPUs met in efifb_putchar, for
\* every size of the screen and all that users of /dev/fb0 draw meanwhile.
THEOREM ConsoleIsSafe ==
  ASSUME NEW C, NEW K, Kbd(C, K)!Sane
  PROVE  Kbd(C, K)!Spec /\ Screen!Spec => []ConsoleSafe
<1>1. Kbd(C, K)!Init /\ Screen!Init => Kbd(C, K)!IInv /\ Screen!IInv
  BY Zenon, ScreenFiniteness, ScreenSane, KbdInitIInv, ScreenInitIInv
<1>2. Kbd(C, K)!IInv /\ [Kbd(C, K)!Next]_(Kbd(C, K)!vars) => Kbd(C, K)!IInv'
  BY Zenon, KbdNextIInv, KbdStutterIInv
<1>3. Screen!IInv /\ [Screen!Next]_(Screen!vars) => Screen!IInv'
  BY Zenon, ScreenFiniteness, ScreenSane, ScreenNextIInv, ScreenStutterIInv
<1>4. Kbd(C, K)!IInv => Kbd(1, Keys1)!TypeOK /\ Kbd(1, Keys1)!KeyboardSafe
  <2>1. Kbd(C, K)!IInv => Kbd(C, K)!TypeOK /\ Kbd(C, K)!KeyboardSafe
    BY Zenon, KbdIInvSafe
  <2>2. Kbd(C, K)!TypeOK => Kbd(1, Keys1)!TypeOK
    BY DEF Kbd!TypeOK, Kbd!Nobody, Kbd!None, Kbd!Events, Kbd!Shifts, Kbd!Ctrls
  <2>3. Kbd(C, K)!KeyboardSafe => Kbd(1, Keys1)!KeyboardSafe
    BY Zenon DEF Kbd!KeyboardSafe, Kbd!RingHoldsQueue, Kbd!KeyToOneReader, Kbd!OneOwner, Kbd!ModifiersAreHeld, Kbd!Nobody, Kbd!None, Kbd!NoEvent, Kbd!Idle, Kbd!Shifts, Kbd!Ctrls
  <2> QED BY Zenon, <2>1, <2>2, <2>3
<1>5. Screen!IInv => Screen!TypeOK /\ Screen!ShowsLastRows /\ Screen!InsideUnlessRaced
  BY Zenon, ScreenFiniteness, ScreenSane, ScreenIInvSafe
<1>6. Kbd(C, K)!IInv /\ Screen!IInv => ConsoleSafe
  BY Zenon, <1>4, <1>5 DEF ConsoleSafe
<1> QED BY <1>1, <1>2, <1>3, <1>6, PTL DEF Kbd!Spec, Screen!Spec
=============================================================================
