------------------------------- MODULE Screen --------------------------------
(***************************************************************************)
(* The text screen: /dev/console (dev/console.c) over the framebuffer with *)
(* its cursor (dev/efifb.c), and /dev/fb0, that switches to graphics while *)
(* it is open.  A character's cell stands for its 8 by 16 pixels.  Writers *)
(* take no lock, so those of two CPUs meet in the cursor; and whoever has  *)
(* /dev/fb0 draws over the text, which nobody draws again.                 *)
(***************************************************************************)
EXTENDS Integers, Sequences, FiniteSets

CONSTANTS Writers,   \* CPUs that write text
          Users,     \* openers of /dev/fb0
          wc, hc,    \* columns and rows: fb->wc, fb->hc
          MaxRows    \* bound on the rows of text that are written

VARIABLES cells, cursor_x, cursor_y, gfx_mode,
          pc,        \* pc[w]: the place of w in efifb_write and the putchar it calls
          open,      \* users with /dev/fb0 open
          drawing,   \* users that write to the framebuffer or have it mapped
          page,      \* history: the rows of the text as if the screen had no end, the first
                     \* of them with what was on the screen before
          row, col,  \* history: where the text is on the page
          top,       \* history: the rows that have left the screen
          raced,     \* history: a writer began while another was in efifb_putchar
          outside    \* history: a character was drawn outside the screen

vars == <<cells, cursor_x, cursor_y, gfx_mode, pc, open, drawing, page, row, col, top, raced, outside>>
textVars == <<page, row, col, top>>

Rows == 0 .. hc - 1
Cols == 0 .. wc - 1
Blank == "blank"
Other == "other"   \* pixels that are no text
BlankRow == [x \in Cols |-> Blank]
OtherRow == [x \in Cols |-> Other]
Chars == {"a", "cr", "nl", "del"}
Between == {"out", "next"}  \* places outside efifb_putchar

FirstPage == [i \in 1 .. hc |-> OtherRow]

\* efifb_init leaves what the firmware has drawn.
Init ==
    /\ cells = [y \in Rows |-> OtherRow] /\ cursor_x = 0 /\ cursor_y = 0 /\ gfx_mode = FALSE
    /\ pc = [w \in Writers |-> "out"] /\ open = {} /\ drawing = {}
    /\ page = FirstPage /\ row = 1 /\ col = 0 /\ top = 0
    /\ raced = FALSE /\ outside = FALSE
-----------------------------------------------------------------------------
(* The text without an end: a page that grows by rows.                     *)

Written(c) == [page EXCEPT ![row][IF c = "del" /\ col > 0 THEN col - 1 ELSE col] = IF c = "a" THEN c ELSE Blank]
WithRow(p) == IF row = Len(p) THEN Append(p, BlankRow) ELSE p
TypeOnPage(c) ==
    LET back == c = "del" /\ col > 0
        full == ~back /\ col + 1 = wc
    IN  /\ top' = top
        /\ CASE c = "cr" -> page' = page /\ row' = row /\ col' = 0
             [] c = "nl" -> page' = WithRow(page) /\ row' = row + 1 /\ col' = 0
             [] OTHER -> /\ page' = IF full THEN WithRow(Written(c)) ELSE Written(c)
                         /\ row' = IF full THEN row + 1 ELSE row
                         /\ col' = IF back THEN col - 1 ELSE IF full THEN 0 ELSE col + 1
-----------------------------------------------------------------------------
(* efifb_write and efifb_putchar, in steps.                                *)

\* The mode is asked for once, before the first character.
efifb_write(w) ==
    /\ pc[w] = "out" /\ ~gfx_mode /\ pc' = [pc EXCEPT ![w] = "next"]
    /\ UNCHANGED <<cells, cursor_x, cursor_y, gfx_mode, open, drawing, textVars, raced, outside>>
Return(w) ==
    /\ pc[w] = "next" /\ pc' = [pc EXCEPT ![w] = "out"]
    /\ UNCHANGED <<cells, cursor_x, cursor_y, gfx_mode, open, drawing, textVars, raced, outside>>

Draw(x, y, c) ==
    IF x \in Cols /\ y \in Rows
    THEN cells' = [cells EXCEPT ![y][x] = c] /\ UNCHANGED outside
    ELSE outside' = TRUE /\ UNCHANGED cells

\* efifb_putchar, to the step of the cursor.  In the first column a delete draws a
\* blank and advances.  The text is followed until two writers meet.
efifb_putchar(w, c) ==
    LET back == c = "del" /\ cursor_x >= 1
        x == IF back THEN cursor_x - 1 ELSE cursor_x
    IN  /\ pc[w] = "next" /\ row < MaxRows
        /\ raced' = (raced \/ \E v \in Writers : pc[v] \notin Between)
        /\ IF raced' THEN page' = FirstPage /\ row' = 1 /\ col' = 0 /\ top' = 0 ELSE TypeOnPage(c)
        /\ CASE c = "cr" -> cursor_x' = 0 /\ UNCHANGED <<cells, cursor_y, pc, outside>>
             [] c = "nl" -> /\ cursor_x' = 0 /\ cursor_y' = cursor_y + 1
                            /\ pc' = [pc EXCEPT ![w] = "wrap"] /\ UNCHANGED <<cells, outside>>
             [] OTHER -> /\ cursor_x' = x /\ Draw(x, cursor_y, IF c = "a" THEN c ELSE Blank)
                         /\ pc' = [pc EXCEPT ![w] = IF back THEN "wrap" ELSE "advance"]
                         /\ UNCHANGED cursor_y
        /\ UNCHANGED <<gfx_mode, open, drawing>>

Advance(w) ==
    /\ pc[w] = "advance"
    /\ cursor_x' = cursor_x + 1
    /\ pc' = [pc EXCEPT ![w] = "wrap"]
    /\ UNCHANGED <<cells, cursor_y, gfx_mode, open, drawing, textVars, raced, outside>>

\* Mutant: the line is one cell longer than the screen.
AtEndLate == cursor_x > wc
AtEnd == cursor_x >= wc

\* efifb_check_scroll: the end of the line.
Wrap(w) ==
    /\ pc[w] = "wrap"
    /\ cursor_x' = IF AtEnd THEN 0 ELSE cursor_x
    /\ cursor_y' = IF AtEnd THEN cursor_y + 1 ELSE cursor_y
    /\ pc' = [pc EXCEPT ![w] = "scroll"]
    /\ UNCHANGED <<cells, gfx_mode, open, drawing, textVars, raced, outside>>

\* Mutant: the last line is not cleared.
ScrolledDirty == [y \in Rows |-> cells[IF y < hc - 1 THEN y + 1 ELSE y]]
Scrolled == [y \in Rows |-> IF y < hc - 1 THEN cells[y + 1] ELSE BlankRow]

\* efifb_check_scroll: the end of the screen.
Scroll(w) ==
    /\ pc[w] = "scroll"
    /\ IF cursor_y >= hc
       THEN cells' = Scrolled /\ cursor_x' = 0 /\ cursor_y' = hc - 1 /\ top' = IF raced THEN top ELSE top + 1
       ELSE UNCHANGED <<cells, cursor_x, cursor_y, top>>
    /\ pc' = [pc EXCEPT ![w] = "next"]
    /\ UNCHANGED <<gfx_mode, open, drawing, page, row, col, raced, outside>>
-----------------------------------------------------------------------------
(* Graphics.                                                               *)

efifb_open(u) ==
    /\ u \notin open /\ open' = open \cup {u} /\ gfx_mode' = TRUE
    /\ UNCHANGED <<cells, cursor_x, cursor_y, pc, drawing, textVars, raced, outside>>

\* efifb_close: text comes back with the first of the users that closes, and what a
\* user has mapped stays.
efifb_close(u) ==
    /\ u \in open /\ open' = open \ {u} /\ gfx_mode' = FALSE
    /\ UNCHANGED <<cells, cursor_x, cursor_y, pc, drawing, textVars, raced, outside>>

\* efifb_file_write: a copy to the framebuffer begins; in text mode it is efifb_write.
efifb_file_write(u) ==
    /\ u \in open \ drawing /\ gfx_mode /\ drawing' = drawing \cup {u}
    /\ UNCHANGED <<cells, cursor_x, cursor_y, gfx_mode, pc, open, textVars, raced, outside>>
efifb_mmap(u) ==
    /\ u \in open \ drawing /\ drawing' = drawing \cup {u}
    /\ UNCHANGED <<cells, cursor_x, cursor_y, gfx_mode, pc, open, textVars, raced, outside>>

\* Pixels of one cell, which are then part of the page as well; and the end of the
\* copy or of the mapping.
Pixels(u, x, y) ==
    /\ u \in drawing
    /\ cells' = [cells EXCEPT ![y][x] = Other]
    /\ page' = IF raced THEN page ELSE [page EXCEPT ![top + y + 1][x] = Other]
    /\ UNCHANGED <<cursor_x, cursor_y, gfx_mode, pc, open, drawing, row, col, top, raced, outside>>
StopsDrawing(u) ==
    /\ u \in drawing /\ drawing' = drawing \ {u}
    /\ UNCHANGED <<cells, cursor_x, cursor_y, gfx_mode, pc, open, textVars, raced, outside>>

Next ==
    \/ \E w \in Writers : \/ efifb_write(w) \/ Return(w) \/ \E c \in Chars : efifb_putchar(w, c)
                          \/ Advance(w) \/ Wrap(w) \/ Scroll(w)
    \/ \E u \in Users : \/ efifb_open(u) \/ efifb_close(u) \/ efifb_file_write(u) \/ efifb_mmap(u)
                        \/ StopsDrawing(u) \/ \E x \in Cols, y \in Rows : Pixels(u, x, y)

Spec == Init /\ [][Next]_vars
-----------------------------------------------------------------------------
\* Type invariant.
TypeOK ==
    /\ cells \in [Rows -> [Cols -> {"a", Blank, Other}]] /\ gfx_mode \in BOOLEAN
    /\ pc \in [Writers -> Between \cup {"advance", "wrap", "scroll"}] /\ open \cup drawing \subseteq Users
    /\ cursor_x \in 0 .. wc + Cardinality(Writers) /\ cursor_y \in 0 .. hc + Cardinality(Writers)

\* Between the characters of one writer the screen shows the last rows of the page,
\* with the cursor where the text is, whatever the wraps, line feeds, carriage returns
\* and deletes at both ends of a line before it; of what was on the screen before, and
\* of what is drawn over the text at any time, nothing but the text's own cells and
\* the row that a scroll brings in is cleared (efifb_putchar and efifb_check_scroll).
ShowsLastRows ==
    (~raced /\ \A w \in Writers : pc[w] \in Between) =>
        LET above == Len(page) - hc
        IN  /\ cursor_x = col /\ cursor_y = row - above - 1
            /\ \A y \in Rows : cells[y] = page[above + y + 1]

\* A character is drawn outside the screen only if two CPUs were in efifb_putchar
\* at the same time.
InsideUnlessRaced == outside => raced
-----------------------------------------------------------------------------
(* Why they hold, in every state: the invariant that the steps keep.       *)

\* The screen has a row and a column, and there are finitely many CPUs.
Sane == wc \in Nat \ {0} /\ hc \in Nat \ {0} /\ IsFiniteSet(Writers)

\* What the proof uses of finite sets and the number of their elements: FiniteSetTheorems
\* states it.
Finiteness ==
    /\ IsFiniteSet({}) /\ Cardinality({}) = 0
    /\ \A S : IsFiniteSet(S) => Cardinality(S) \in Nat
    /\ \A S, T : IsFiniteSet(S) /\ T \subseteq S =>
          IsFiniteSet(T) /\ Cardinality(T) <= Cardinality(S) /\ (Cardinality(T) = Cardinality(S) => T = S)
    /\ \A S, x : IsFiniteSet(S) =>
          Cardinality(S \cup {x}) = IF x \in S THEN Cardinality(S) ELSE Cardinality(S) + 1
    /\ \A S, x : IsFiniteSet(S) =>
          Cardinality(S \ {x}) = IF x \in S THEN Cardinality(S) - 1 ELSE Cardinality(S)

Line == [Cols -> {"a", Blank, Other}]
Types ==
    /\ cells \in [Rows -> Line] /\ page \in Seq(Line) /\ row \in Nat /\ col \in Cols /\ top \in Nat
    /\ cursor_x \in Nat /\ cursor_y \in Nat /\ gfx_mode \in BOOLEAN /\ raced \in BOOLEAN /\ outside \in BOOLEAN
    /\ pc \in [Writers -> Between \cup {"advance", "wrap", "scroll"}] /\ open \subseteq Users /\ drawing \subseteq Users

In(places) == {w \in Writers : pc[w] \in places}

\* How far writers that meet can push the cursor.
Bounded ==
    /\ cursor_x <= wc - 1 + Cardinality(In({"wrap"}))
    /\ cursor_y + (IF cursor_x >= wc THEN 1 ELSE 0) <= hc - 1 + Cardinality(In({"wrap", "scroll"}))

\* The screen shows the page from below the rows that have left it; the text is in
\* one of those, or at the beginning of a blank row that is not shown yet.
Mirrors == \A y \in Rows : cells[y] = page[top + y + 1]
Below == row = top + hc + 1
Fits ==
    /\ top + 1 <= row /\ row <= top + hc + 1
    /\ Len(page) = IF Below THEN row ELSE top + hc
    /\ Below => page[row] = BlankRow /\ col = 0

\* The cursor is where the text is, or at the end of the row before.
OnText == cursor_x = col /\ cursor_y + top + 1 = row
EndOfRow(x) == cursor_x = x /\ col = 0 /\ cursor_y + top + 2 = row

\* What a writer that is alone in efifb_putchar has done.
Halfway(w) ==
    /\ pc[w] = "advance" => (cursor_x + 1 = col /\ cursor_y + top + 1 = row /\ ~Below) \/ EndOfRow(wc - 1)
    /\ pc[w] = "wrap" => OnText \/ EndOfRow(wc)
    /\ pc[w] = "scroll" => OnText
Alone ==
    /\ Mirrors /\ Fits
    /\ \A w \in Writers : Halfway(w) /\ \A v \in Writers \ {w} : pc[w] \in Between \/ pc[v] \in Between
    /\ (\A w \in Writers : pc[w] \in Between) => OnText /\ ~Below

IInv == Types /\ Bounded /\ InsideUnlessRaced /\ (~raced => Alone)
=============================================================================
