------------------------------- MODULE Screen -------------------------------
(* The terminal screen of one session (screen/grid.rs, performer.rs, mod.rs), *)
(* by whole rows. One buffer holds the scrollback and, behind it, the visible *)
(* rows; a boundary separates them and a second one the scrollback that the   *)
(* client already has. A row is the line that was last printed on it, or      *)
(* Blank. Columns and styles are in module Paint.                             *)
EXTENDS Integers, Sequences, FiniteSets

CONSTANTS
  Limit,       \* scrollback lines the session keeps
  MaxRows,     \* bound: height of the largest window
  MaxWrites,   \* bound: lines the program prints
  MaxHistory   \* bound: lines that scroll off the main screen

ASSUME ScreenAssumption ==
  /\ Limit \in Nat
  /\ MaxRows \in Nat \ {0}
  /\ MaxWrites \in Nat
  /\ MaxHistory \in Nat

VARIABLES
  grid,      \* Grid: cells (scrollback, then visible rows), back
             \* (scrollback_len), pending (pending_start), limit
  rows,      \* Grid::rows
  y,         \* Grid::cursor_y, from 0
  top,       \* Grid::scroll_top, from 0
  bottom,    \* Grid::scroll_bottom, included
  alt,       \* ScreenState::in_alt_screen
  saved,     \* ScreenState::saved_grid and saved_scroll_region
  written,   \* lines printed so far: the next line is written + 1
  off,       \* history: lines above the main screen, oldest first
  seen       \* history: how many of them were taken for the client

vars == <<grid, rows, y, top, bottom, alt, saved, written, off, seen>>

Blank == 0
Line == 0 .. MaxWrites
BlankRows(n) == [i \in 1 .. n |-> Blank]
Nothing == [cells |-> <<>>, limit |-> 0, top |-> 0, bottom |-> 0]

Lesser(a, b)  == IF a <= b THEN a ELSE b
Greater(a, b) == IF a >= b THEN a ELSE b

Scrollback == SubSeq(grid.cells, 1, grid.back)
Visible == SubSeq(grid.cells, grid.back + 1, Len(grid.cells))

Init ==
  /\ rows \in 1 .. MaxRows
  /\ grid = [cells |-> BlankRows(rows), back |-> 0, pending |-> 0, limit |-> Limit]
  /\ y = 0 /\ top = 0 /\ bottom = rows - 1
  /\ alt = FALSE /\ saved = Nothing
  /\ written = 0 /\ off = <<>> /\ seen = 0

-----------------------------------------------------------------------------
(* Scrolling. The code scrolls by one row at a time; n rows at once is the    *)
(* same. MovedUp and MovedDown are the removals and insertions in lo..hi.     *)

MovedUp(s, lo, hi, n) ==
  [i \in 1 .. Len(s) |->
     IF i \notin lo .. hi THEN s[i] ELSE IF i + n <= hi THEN s[i + n] ELSE Blank]

MovedDown(s, lo, hi, n) ==
  [i \in 1 .. Len(s) |->
     IF i \notin lo .. hi THEN s[i] ELSE IF i - n >= lo THEN s[i - n] ELSE Blank]

\* scroll_up keeps the top row as scrollback, by moving the boundary.
Captures == ~alt /\ top = 0 /\ grid.limit > 0

\* cells after n captured scrolls that drop the d oldest rows.
Captured(n, d) ==
  LET last == grid.back + bottom + 1   \* blank rows enter behind the region
      c == grid.cells
  IN  [i \in 1 .. Len(c) + n - d |->
         IF i + d <= last THEN c[i + d]
         ELSE IF i + d <= last + n THEN Blank ELSE c[i + d - n]]

\* Slip: the pending lines do not shift when the oldest line is dropped.
ScrolledUpPendingStays(n) ==
  IF Captures
  THEN LET d == Greater(grid.back + n - grid.limit, 0)
       IN  [grid EXCEPT !.cells = Captured(n, d), !.back = @ + n - d]
  ELSE [grid EXCEPT !.cells = MovedUp(@, grid.back + top + 1, grid.back + bottom + 1, n)]

ScrolledUp(n) ==
  IF Captures
  THEN LET d == Greater(grid.back + n - grid.limit, 0)
       IN  [grid EXCEPT !.cells = Captured(n, d),
                        !.back = @ + n - d,
                        !.pending = Greater(@ - d, 0)]
  ELSE [grid EXCEPT !.cells = MovedUp(@, grid.back + top + 1, grid.back + bottom + 1, n)]

ScrolledDown(n) ==
  [grid EXCEPT !.cells = MovedDown(@, grid.back + top + 1, grid.back + bottom + 1, n)]

\* The rows that n scrolls add to the scrollback.
PushedOff(n) ==
  IF Captures
  THEN [i \in 1 .. n |-> IF i <= bottom + 1 THEN grid.cells[grid.back + i] ELSE Blank]
  ELSE <<>>

ScrollUp(n) ==
  /\ grid' = ScrolledUp(n)
  /\ off' = off \o PushedOff(n)
  /\ Len(off') <= MaxHistory

\* A line feed scrolls at the bottom margin and else moves the cursor.
Feeds == IF y = bottom THEN 1 ELSE 0
FedY  == IF y = bottom THEN y ELSE Lesser(y + 1, rows - 1)

LineFeed ==
  /\ ScrollUp(Feeds)
  /\ y' = FedY
  /\ UNCHANGED <<rows, top, bottom, alt, saved, written, seen>>

ReverseIndex ==
  /\ grid' = ScrolledDown(IF y = top THEN 1 ELSE 0)
  /\ y' = IF y = top THEN y ELSE Greater(y - 1, 0)
  /\ UNCHANGED <<rows, top, bottom, alt, saved, written, off, seen>>

ScrollUpN ==
  /\ \E n \in 1 .. rows : ScrollUp(n)
  /\ UNCHANGED <<rows, y, top, bottom, alt, saved, written, seen>>

ScrollDownN ==
  /\ \E n \in 1 .. rows : grid' = ScrolledDown(n)
  /\ UNCHANGED <<rows, y, top, bottom, alt, saved, written, off, seen>>

\* Slip: the row is counted from the start of the buffer.
DeleteLinesOfBuffer ==
  /\ y \in top .. bottom
  /\ \E n \in 1 .. bottom - y + 1 :
       grid' = [grid EXCEPT !.cells = MovedUp(@, y + 1, bottom + 1, n)]
  /\ UNCHANGED <<rows, y, top, bottom, alt, saved, written, off, seen>>

\* The rows from the cursor to the bottom margin move; never into the scrollback.
DeleteLines ==
  /\ y \in top .. bottom
  /\ \E n \in 1 .. bottom - y + 1 :
       grid' = [grid EXCEPT !.cells = MovedUp(@, grid.back + y + 1, grid.back + bottom + 1, n)]
  /\ UNCHANGED <<rows, y, top, bottom, alt, saved, written, off, seen>>

\* Slip: the rows below the region move down too.
InsertLinesToEnd ==
  /\ y \in top .. bottom
  /\ \E n \in 1 .. bottom - y + 1 :
       grid' = [grid EXCEPT !.cells = MovedDown(@, grid.back + y + 1, Len(@), n)]
  /\ UNCHANGED <<rows, y, top, bottom, alt, saved, written, off, seen>>

InsertLines ==
  /\ y \in top .. bottom
  /\ \E n \in 1 .. bottom - y + 1 :
       grid' = [grid EXCEPT !.cells = MovedDown(@, grid.back + y + 1, grid.back + bottom + 1, n)]
  /\ UNCHANGED <<rows, y, top, bottom, alt, saved, written, off, seen>>

-----------------------------------------------------------------------------
(* Printing, erasing, the cursor, the region                                  *)

Put(g, row, line) == [g EXCEPT !.cells[g.back + row + 1] = line]

\* print: on the row of the cursor or, when a wrap was pending, on the next.
PrintLine ==
  /\ written < MaxWrites
  /\ written' = written + 1
  /\ \E wrap \in BOOLEAN :
       LET n == IF wrap THEN Feeds ELSE 0 IN
       /\ y' = IF wrap THEN FedY ELSE y
       /\ grid' = Put(IF n = 0 THEN grid ELSE ScrolledUp(1), y', written')
       /\ off' = IF n = 0 THEN off ELSE off \o PushedOff(1)
       /\ Len(off') <= MaxHistory
  /\ UNCHANGED <<rows, top, bottom, alt, saved, seen>>

\* Erase in line or display: whole rows go blank; a part of a row leaves it.
Erased(S) ==
  [grid EXCEPT !.cells = [i \in DOMAIN @ |->
                            IF i - grid.back - 1 \in S THEN Blank ELSE @[i]]]

Erase ==
  /\ \E S \in {{y}, y .. rows - 1, y + 1 .. rows - 1, 0 .. y, 0 .. y - 1, 0 .. rows - 1} :
       grid' = Erased(S)
  /\ UNCHANGED <<rows, y, top, bottom, alt, saved, written, off, seen>>

\* The grid after clear_scrollback.
NoScrollback(g) ==
  [g EXCEPT !.cells = SubSeq(@, g.back + 1, Len(@)), !.back = 0, !.pending = 0]

EraseScrollback ==
  /\ grid' = NoScrollback(grid)
  /\ off' = <<>> /\ seen' = 0
  /\ UNCHANGED <<rows, y, top, bottom, alt, saved, written>>

\* The movements, and the restored cursor, differ in how they clamp the row to
\* the screen: any row of it.
MoveCursor ==
  /\ y' \in 0 .. rows - 1
  /\ UNCHANGED <<grid, rows, top, bottom, alt, saved, written, off, seen>>

SetRegion ==
  /\ top' \in 0 .. rows - 1
  /\ bottom' \in top' .. rows - 1
  /\ y' \in {0, top'}            \* home, which origin mode moves to the region
  /\ UNCHANGED <<grid, rows, alt, saved, written, off, seen>>

\* DECALN: the alignment pattern is no line of the program.
Align ==
  /\ grid' = Erased(0 .. rows - 1)
  /\ top' = 0 /\ bottom' = rows - 1 /\ y' = 0
  /\ UNCHANGED <<rows, alt, saved, written, off, seen>>

-----------------------------------------------------------------------------
(* The alternate screen, the reset, the window                                *)

\* Visible rows cut or padded at the bottom to n.
Fitted(s, n) == [i \in 1 .. n |-> IF i <= Len(s) THEN s[i] ELSE Blank]

\* Slip: the scrollback is saved with the visible rows and also stays.
SavedRowsAll == grid.cells

\* drain_visible
SavedRows == Visible

EnterAlt ==
  /\ ~alt
  /\ alt' = TRUE
  /\ saved' = [cells |-> SavedRows, limit |-> grid.limit, top |-> top, bottom |-> bottom]
  /\ grid' = [grid EXCEPT !.cells = Scrollback \o BlankRows(rows), !.limit = 0]
  /\ y' = 0 /\ top' = 0 /\ bottom' = rows - 1
  /\ UNCHANGED <<rows, written, off, seen>>

ExitAlt ==
  /\ alt
  /\ alt' = FALSE
  /\ grid' = [grid EXCEPT !.cells = Scrollback \o Fitted(saved.cells, rows),
                          !.limit = saved.limit]
  /\ y' \in 0 .. rows - 1         \* mode 47 leaves it, 1049 restores and clamps it
  /\ top' = Lesser(saved.top, rows - 1)
  /\ bottom' = Greater(Lesser(saved.bottom, rows - 1), top')
  /\ saved' = Nothing
  /\ UNCHANGED <<rows, written, off, seen>>

\* Slip: a reset leaves the limit of the alternate screen.
ResetLimitStays == grid.limit

ResetLimit == IF alt THEN saved.limit ELSE grid.limit

\* RIS
Reset ==
  /\ grid' = NoScrollback([Erased(0 .. rows - 1) EXCEPT !.limit = ResetLimit])
  /\ y' = 0 /\ top' = 0 /\ bottom' = rows - 1
  /\ alt' = FALSE /\ saved' = Nothing
  /\ off' = <<>> /\ seen' = 0
  /\ UNCHANGED <<rows, written>>

\* take_and_render, or the history and the stale drain of a new client.
TakePending ==
  /\ grid' = [grid EXCEPT !.pending = grid.back]
  /\ seen' = Len(off)
  /\ UNCHANGED <<rows, y, top, bottom, alt, saved, written, off>>

\* Rows that a taller window takes back from the scrollback.
Restored(n) == IF alt \/ n <= rows THEN 0 ELSE Lesser(n - rows, grid.back)

\* The cursor moves down with its line.
ResizedY(n) == Lesser(y + Restored(n), n - 1)

Resize ==
  /\ \E n \in 1 .. MaxRows :
       LET k == Restored(n)
           b == grid.back - k
       IN  /\ rows' = n
           /\ grid' = [grid EXCEPT
                          !.cells = SubSeq(@, 1, b) \o Fitted(SubSeq(@, b + 1, Len(@)), n),
                          !.back = b,
                          !.pending = Lesser(@, b)]
           /\ y' = ResizedY(n)
           /\ off' = SubSeq(off, 1, Len(off) - k)
           /\ seen' = Lesser(seen, Len(off'))
           /\ top' = 0 /\ bottom' = n - 1
  /\ UNCHANGED <<alt, saved, written>>

-----------------------------------------------------------------------------
Next ==
  \/ LineFeed \/ ReverseIndex \/ ScrollUpN \/ ScrollDownN
  \/ DeleteLines \/ InsertLines \/ PrintLine \/ Erase \/ EraseScrollback
  \/ MoveCursor \/ SetRegion \/ Align
  \/ EnterAlt \/ ExitAlt \/ Reset \/ TakePending \/ Resize

Spec == Init /\ [][Next]_vars

-----------------------------------------------------------------------------
(* Properties                                                                 *)

\* Types, and what the code asserts in debug builds and relies on in release:
\* the buffer holds the scrollback and exactly the rows of the window, the
\* boundary of the pending lines is in the scrollback, the cursor and the
\* region are on the screen, and the limit is lifted only by the alternate
\* screen (Grid::check_invariants, visible_row, set_scroll_region).
GridInv ==
  /\ rows \in 1 .. MaxRows /\ written \in Line
  /\ alt \in BOOLEAN
  /\ grid \in [cells : Seq(Line), back : Nat, pending : Nat, limit : Nat]
  /\ Len(grid.cells) = grid.back + rows
  /\ grid.pending <= grid.back
  /\ grid.back <= Limit
  /\ grid.limit = (IF alt THEN 0 ELSE Limit)
  /\ y \in 0 .. rows - 1
  /\ bottom \in 0 .. rows - 1 /\ top \in 0 .. bottom
  /\ saved \in [cells : Seq(Line), limit : Nat, top : Nat, bottom : Nat]
  /\ alt => saved.limit = Limit /\ saved.top <= saved.bottom
  /\ off \in Seq(Line) /\ seen \in Nat

\* The scrollback is what scrolled off the main screen most recently, whatever
\* the alternate screen, the window and the region did in between.
ScrollbackIsHistory ==
  /\ grid.back <= Len(off)
  /\ Scrollback = SubSeq(off, Len(off) - grid.back + 1, Len(off))

\* The lines that wait for the client are exactly the ones it was not given and
\* that are still kept: none is skipped and none is sent twice.
PendingIsUnsent ==
  grid.pending = Greater(grid.back - (Len(off) - seen), 0)

\* Every line is in at most one place: scrollback, screen or saved screen.
OnePlace ==
  LET all == grid.cells \o saved.cells
  IN  \A i, j \in 1 .. Len(all) : i # j /\ all[i] = all[j] => all[i] = Blank

\* A row outside the scroll region never takes over the line of another row:
\* it keeps its own, or is printed on or erased.
OutsideStays ==
  [][rows' = rows /\ alt' = alt =>
       \A i \in 0 .. rows - 1 :
         i \notin top .. bottom => Visible'[i + 1] \in {Visible[i + 1], Blank, written + 1}]_vars

\* The cursor stays on its line when the window grows.
CursorKeepsLine ==
  [][rows' > rows => Visible'[y' + 1] = Visible[y + 1]]_vars
=============================================================================
