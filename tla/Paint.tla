-------------------------------- MODULE Paint --------------------------------
(* The cells and the styles of a terminal screen (screen/cell.rs, grid.rs,    *)
(* performer.rs, style.rs, render.rs), in a window of several rows with a     *)
(* scroll region, above which the scrollback holds one line (its limit is 1). *)
(* A wide character takes two cells, a base of width 2 and a continuation of  *)
(* width 0; which character a cell shows is left out, as are combining marks. *)
(* Styles are backgrounds, so an erased cell has the current one. Autowrap is *)
(* on.                                                                        *)
EXTENDS Integers, Sequences, FiniteSets, Functions

CONSTANTS
  Programs,  \* bound: the programs, as [cols, rows, styles, alt, watched]: the
             \* largest window, the colours used, whether the alternate screen
             \* is, whether a client is attached
  Slots,     \* StyleTable: identifiers beside the default one (65535)
  Default    \* Style::default

ASSUME PaintAssumption ==
  /\ Slots \in Nat
  /\ \A p \in Programs : /\ p.cols \in Nat \ {0} /\ p.rows \in Nat \ {0}
                         /\ Default \notin p.styles

VARIABLES
  program,   \* the element of Programs that runs
  cols,      \* Grid::cols
  rows,      \* Grid::rows
  x,         \* Grid::cursor_x
  y,         \* Grid::cursor_y
  wrap,      \* Grid::wrap_pending
  region,    \* Grid::scroll_top and scroll_bottom, as [top, bottom]
  style,     \* ScreenState::current_style
  scr,       \* the rows and the style table
  cache      \* RenderCache::row_hashes: the cells as each row was last painted

vars == <<program, cols, rows, x, y, wrap, region, style, scr, cache>>

Style == program.styles \cup {Default}
NoRow == <<>>
NoRows == <<>>

\* A cell, and for the properties the style it was written with: its ink.
Cell(w, id, ink) == [w |-> w, id |-> id, ink |-> ink]
DefaultCell == Cell(1, 0, Default)

\* A row, and for the properties whether half of a wide character was cut off in
\* it since it was blank (Margin).
Row(cells, cut) == [cells |-> cells, cut |-> cut]
RowOf(n, cell) == Row([i \in 0 .. n - 1 |-> cell], FALSE)
Blank(n, m) == [j \in 0 .. m - 1 |-> RowOf(n, DefaultCell)]

\* scr: visible, the rows of the window; above, the scrollback line; fresh,
\* whether it waits for the client; kept, the rows of the main screen while alt;
\* styles, the slots 1, 2, ... ; index, the identifier of a style; free, the free
\* slots, which the code keeps in ascending order.
NewScreen(n, m) ==
  [visible |-> Blank(n, m), above |-> NoRow, fresh |-> FALSE,
   alt |-> FALSE, kept |-> NoRows, styles |-> <<>>, index |-> <<>>, free |-> {}]

Whole(m) == [top |-> 0, bottom |-> m - 1]
Regions == {r \in [top : 0 .. rows - 1, bottom : 0 .. rows - 1] : r.top <= r.bottom}

Init ==
  /\ program \in Programs
  /\ cols = program.cols /\ rows = program.rows
  /\ x = 0 /\ y = 0 /\ wrap = FALSE /\ region = Whole(rows) /\ style = Default
  /\ scr = NewScreen(cols, rows)
  /\ cache = NoRows

-----------------------------------------------------------------------------
(* The style table                                                            *)

StyleOf(s, id) == IF id = 0 THEN Default ELSE s.styles[id]

\* Every row but the saved ones, and every row.
Shown(s) == Range(s.visible) \cup ({s.above} \ {NoRow})
Rows(s) == Shown(s) \cup Range(s.kept)

IdsIn(R) == UNION {{r.cells[i].id : i \in DOMAIN r.cells} : r \in R}

\* Slip: the saved main screen is not scanned.
UsedNotSaved(s) == IdsIn(Shown(s))

Used(s) == IdsIn(Rows(s))

Bind(f, a, v) == [b \in DOMAIN f \cup {a} |-> IF b = a THEN v ELSE f[b]]

\* compact_styles and reclaim: every slot that no cell refers to becomes free,
\* and what the slot holds leaves the index.
Compacted(s) ==
  LET dead == {id \in 1 .. Len(s.styles) : id \notin Used(s)}
      gone == {s.styles[id] : id \in dead}
  IN  [s EXCEPT !.free = dead,
                !.index = Restrict(@, DOMAIN @ \ gone)]

\* The slot that is popped from the free ones.
Popped(free) == CHOOSE id \in free : \A other \in free : other <= id

\* intern
Placed(s, st) ==
  IF st = Default \/ st \in DOMAIN s.index THEN s
  ELSE IF s.free # {}
       THEN LET id == Popped(s.free) IN
            [s EXCEPT !.free = @ \ {id},
                      !.styles[id] = st, !.index = Bind(@, st, id)]
       ELSE IF Len(s.styles) = Slots THEN s
            ELSE [s EXCEPT !.styles = Append(@, st),
                           !.index = Bind(@, st, Len(s.styles) + 1)]

IdOf(s, st) == IF st \in DOMAIN s.index THEN s.index[st] ELSE 0

\* intern_with_gc: a full table is compacted and tried again.
Interned(s, st) ==
  LET t == Placed(s, st)
      full == st # Default /\ IdOf(t, st) = 0
  IN  IF full THEN Placed(Compacted(t), st) ELSE t

\* The cell that is written with the current style, after interning it.
Inked(t, w) == LET id == IdOf(t, style) IN Cell(w, id, StyleOf(t, id))

-----------------------------------------------------------------------------
(* The cells of a row                                                         *)

Blanked(r, S) == [i \in DOMAIN r |-> IF i \in S THEN DefaultCell ELSE r[i]]

\* fixup_wide_char_at: half of a wide character takes the other half along.
Fixed(r, i) ==
  Blanked(r, IF i \notin DOMAIN r THEN {}
             ELSE IF r[i].w = 2 THEN {i, i + 1}
             ELSE IF r[i].w = 0 /\ i > 0 THEN {i - 1, i} ELSE {})

\* set_cell
WithCell(r, i, cell) ==
  LET a == [Fixed(r, i) EXCEPT ![i] = cell]
  IN  IF cell.w = 2 /\ i + 1 \in DOMAIN r
      THEN [Fixed(a, i + 1) EXCEPT ![i + 1] = [cell EXCEPT !.w = 0]]
      ELSE a

\* erase_cells
ErasedCells(r, from, to, blank) ==
  LET a == Fixed(Fixed(r, from), to)
  IN  [i \in DOMAIN r |-> IF i \in from .. to - 1 THEN blank ELSE a[i]]

\* Slip: the cell that moves to the cursor is not looked at.
DeletedPlainly(r, i, n, blank) ==
  LET a == Fixed(r, i)
  IN  [j \in DOMAIN r |-> IF j < i THEN a[j]
                          ELSE IF j + n \in DOMAIN r THEN a[j + n] ELSE blank]

\* csi_delete_character
Deleted(r, i, n, blank) ==
  LET a == Fixed(r, i)
      b == [j \in DOMAIN r |-> IF j < i THEN a[j]
                               ELSE IF j + n \in DOMAIN r THEN a[j + n]
                               ELSE blank]
      S == IF b[i].w # 0 THEN {}
           ELSE IF i > 0 /\ b[i - 1].w = 2 THEN {i - 1, i} ELSE {i}
  IN  [j \in DOMAIN r |-> IF j \in S THEN blank ELSE b[j]]

\* csi_insert_character
Inserted(r, i, n, blank) ==
  LET a == Fixed(r, i)
      b == [j \in DOMAIN r |-> IF j < i THEN a[j]
                               ELSE IF j - n >= i THEN a[j - n]
                               ELSE blank]
      last == Cardinality(DOMAIN r) - 1
      S == IF b[last].w = 1 THEN {}
           ELSE IF b[last].w = 0 /\ last > 0 /\ b[last - 1].w = 2 THEN {last - 1, last}
           ELSE {last}
  IN  [j \in DOMAIN r |-> IF j \in S THEN blank ELSE b[j]]

\* fix_wide_char_orphan_at_boundary, then Row::resize.
ResizedCells(r, n) ==
  LET last == n - 1
      S == IF n >= Cardinality(DOMAIN r) THEN {}
           ELSE IF r[last].w = 2 THEN {last}
           ELSE IF r[last].w = 0 /\ last > 0 THEN {last - 1, last} ELSE {}
      a == Blanked(r, S)
  IN  [i \in 0 .. n - 1 |-> IF i \in DOMAIN r THEN a[i] ELSE DefaultCell]

-----------------------------------------------------------------------------
(* The rows of the window                                                     *)

\* The rows from top to bottom move up by n, down if it is negative; blank ones
\* come in.
Shifted(f, top, bottom, n, blank) ==
  [j \in DOMAIN f |-> IF j \notin top .. bottom THEN f[j]
                      ELSE IF j + n \in top .. bottom THEN f[j + n] ELSE blank]

\* The rows in a window of n columns and m rows: the lowest ones go, or blank ones
\* come.
Fitted(f, n, m) ==
  [j \in 0 .. m - 1 |-> IF j \in DOMAIN f
                        THEN [f[j] EXCEPT !.cells = ResizedCells(@, n)]
                        ELSE RowOf(n, DefaultCell)]

\* scroll_up: a line that leaves the top of the main screen is the scrollback's.
ScrolledUp(s) ==
  LET t == Interned(s, style)
      u == [t EXCEPT !.visible =
              Shifted(@, region.top, region.bottom, 1, RowOf(cols, Inked(t, 1)))]
  IN  IF s.alt \/ region.top > 0 THEN u
      ELSE [u EXCEPT !.above = s.visible[0], !.fresh = TRUE]

ScrolledDown(s) ==
  LET t == Interned(s, style)
  IN  [t EXCEPT !.visible =
         Shifted(@, region.top, region.bottom, -1, RowOf(cols, Inked(t, 1)))]

\* The next line below row j: the region scrolls at its bottom, and the last row
\* of the window stays where it is.
Fed(s, j) ==
  IF j = region.bottom THEN [s |-> ScrolledUp(s), y |-> j]
  ELSE [s |-> s, y |-> IF j < rows - 1 THEN j + 1 ELSE j]

-----------------------------------------------------------------------------
(* What the program writes                                                    *)

\* A character of width w in column i of row j, and where it leaves the cursor.
Written(s, i, j, w) ==
  LET t == Interned(s, style)
  IN  [t EXCEPT !.visible[j].cells = WithCell(@, i, Inked(t, w))]

Advance(i, j, w) ==
  /\ x' = (IF i + w >= cols THEN cols - 1 ELSE i + w)
  /\ y' = j
  /\ wrap' = (i + w >= cols)
  /\ UNCHANGED <<program, cols, rows, region, style, cache>>

\* Where the next character goes, and the screen after the wrap that was pending.
Start == IF wrap THEN Fed(scr, y) ELSE [s |-> scr, y |-> y]
StartX == IF wrap THEN 0 ELSE x

PrintNarrow ==
  /\ scr' = Written(Start.s, StartX, Start.y, 1)
  /\ Advance(StartX, Start.y, 1)

PrintWide ==
  /\ StartX < cols - 1
  /\ scr' = Written(Start.s, StartX, Start.y, 2)
  /\ Advance(StartX, Start.y, 2)

\* No wide character fits into one column; a pending wrap is done all the same.
PrintWideNowhere ==
  /\ cols = 1
  /\ scr' = Start.s
  /\ x' = StartX /\ y' = Start.y /\ wrap' = FALSE
  /\ UNCHANGED <<program, cols, rows, region, style, cache>>

\* In the last column a wide character leaves a blank and wraps. The blank is put
\* over half of a wide character without a look at the other half.
Margin(s, j) ==
  LET t == Interned(s, style)
  IN  [t EXCEPT !.visible[j] =
         Row([@.cells EXCEPT ![cols - 1] = Inked(t, 1)],
             @.cut \/ @.cells[cols - 1].w # 1)]

PrintWideAtMargin ==
  /\ StartX = cols - 1 /\ cols >= 2
  /\ LET next == Fed(Margin(Start.s, Start.y), Start.y) IN
     /\ scr' = Written(next.s, 0, next.y, 2)
     /\ Advance(0, next.y, 2)

\* LF and IND, and NEL, which goes to the first column.
LineFeed ==
  /\ scr' = Fed(scr, y).s /\ y' = Fed(scr, y).y
  /\ x' \in {x, 0}
  /\ wrap' = FALSE
  /\ UNCHANGED <<program, cols, rows, region, style, cache>>

\* RI
ReverseIndex ==
  /\ IF y = region.top THEN scr' = ScrolledDown(scr) /\ y' = y
     ELSE scr' = scr /\ y' = IF y > 0 THEN y - 1 ELSE y
  /\ UNCHANGED <<program, cols, rows, x, wrap, region, style, cache>>

\* One of the lines that SU and SD scroll by.
ScrollLine ==
  /\ scr' \in {ScrolledUp(scr), ScrolledDown(scr)}
  /\ UNCHANGED <<program, cols, rows, x, y, wrap, region, style, cache>>

\* DECALN
Align ==
  /\ scr' = [scr EXCEPT !.visible = Blank(cols, rows)]
  /\ x' = 0 /\ y' = 0 /\ wrap' = FALSE /\ region' = Whole(rows)
  /\ UNCHANGED <<program, cols, rows, style, cache>>

SetStyle ==
  /\ style' \in Style
  /\ UNCHANGED <<program, cols, rows, x, y, wrap, region, scr, cache>>

MoveCursor ==
  /\ x' \in 0 .. cols - 1 /\ y' \in 0 .. rows - 1
  /\ wrap' = FALSE
  /\ UNCHANGED <<program, cols, rows, region, style, scr, cache>>

\* The cursor goes home, which is the top of the region in origin mode.
SetRegion ==
  /\ region' \in Regions
  /\ x' = 0 /\ y' \in {0, region'.top} /\ wrap' = FALSE
  /\ UNCHANGED <<program, cols, rows, style, scr, cache>>

\* What was saved, in a window that may have had another size: a pending wrap
\* can so come back in any column.
SavedCursor ==
  /\ x' \in 0 .. cols - 1 /\ y' \in 0 .. rows - 1
  /\ wrap' \in BOOLEAN
  /\ style' \in Style

\* DECRC
RestoreCursor ==
  SavedCursor /\ UNCHANGED <<program, cols, rows, region, scr, cache>>

\* The cell that erases, and the cells of the cursor's row.
Fill == Inked(Interned(scr, style), 1)
Line == scr.visible[y].cells

\* The window after a command of the current style has written its rows.
Redrawn(f) ==
  /\ scr' = [Interned(scr, style) EXCEPT !.visible = f]
  /\ UNCHANGED <<program, cols, rows, x, y, region, style, cache>>

\* The cursor's row has other cells, and the rows in S are erased.
Edited(cells, S) ==
  [j \in DOMAIN scr.visible |->
     IF j \in S THEN RowOf(cols, Fill)
     ELSE IF j = y THEN [scr.visible[j] EXCEPT !.cells = cells] ELSE scr.visible[j]]

\* Erase in line, and erase characters.
EraseLine ==
  /\ \E range \in {<<0, x + 1>>, <<0, cols>>} \cup ({x} \X (x + 1 .. cols)) :
       Redrawn(Edited(ErasedCells(Line, range[1], range[2], Fill), {}))
  /\ wrap' = wrap

\* Erase in display: from the cursor, up to the cursor, or all of it.
EraseDisplay ==
  /\ \/ Redrawn(Edited(ErasedCells(Line, x, cols, Fill), y + 1 .. rows - 1))
     \/ Redrawn(Edited(ErasedCells(Line, 0, x + 1, Fill), 0 .. y - 1))
     \/ Redrawn(Edited(Line, 0 .. rows - 1))
  /\ wrap' = wrap

\* Erase in display, mode 3.
EraseAbove ==
  /\ scr' = [Interned(scr, style) EXCEPT !.above = NoRow, !.fresh = FALSE]
  /\ UNCHANGED <<program, cols, rows, x, y, wrap, region, style, cache>>

DeleteCharacters ==
  /\ \E n \in 1 .. cols - x : Redrawn(Edited(Deleted(Line, x, n, Fill), {}))
  /\ wrap' = wrap

InsertCharacters ==
  /\ \E n \in 1 .. cols - x : Redrawn(Edited(Inserted(Line, x, n, Fill), {}))
  /\ wrap' = wrap

\* DL, and IL with the lines moving down.
MoveLines ==
  /\ y \in region.top .. region.bottom
  /\ \E n \in 1 .. region.bottom - y + 1, dir \in {1, -1} :
       Redrawn(Shifted(scr.visible, y, region.bottom, dir * n, RowOf(cols, Fill)))
  /\ wrap' = FALSE

EnterAlt ==
  /\ program.alt /\ ~scr.alt
  /\ scr' = [scr EXCEPT !.alt = TRUE, !.kept = scr.visible, !.visible = Blank(cols, rows)]
  /\ x' = 0 /\ y' = 0 /\ wrap' = FALSE /\ region' = Whole(rows)
  /\ UNCHANGED <<program, cols, rows, style, cache>>

\* The rows come back at the size of the window, with the region and with the
\* saved cursor (mode 1049) or without (47), and the styles are compacted.
ExitAlt ==
  /\ scr.alt
  /\ scr' = Compacted([scr EXCEPT !.alt = FALSE, !.kept = NoRows,
                                  !.visible = Fitted(scr.kept, cols, rows)])
  /\ region' \in Regions
  /\ SavedCursor \/ UNCHANGED <<x, y, wrap, style>>
  /\ UNCHANGED <<program, cols, rows, cache>>

\* RIS
Reset ==
  /\ scr' = NewScreen(cols, rows)
  /\ x' = 0 /\ y' = 0 /\ wrap' = FALSE /\ region' = Whole(rows) /\ style' = Default
  /\ UNCHANGED <<program, cols, rows, cache>>

\* The rows once a main screen that grows has taken the scrollback line back.
Taken(s) ==
  [s EXCEPT !.above = NoRow, !.fresh = FALSE,
            !.visible = [j \in 0 .. rows |-> IF j = 0 THEN s.above ELSE s.visible[j - 1]]]

Clamped(i, n) == IF i >= n THEN n - 1 ELSE i

Resize ==
  /\ cols' \in 1 .. program.cols /\ rows' \in 1 .. program.rows
  /\ LET takes == ~scr.alt /\ rows' > rows /\ scr.above # NoRow
         s == IF takes THEN Taken(scr) ELSE scr
     IN  /\ scr' = [s EXCEPT !.visible = Fitted(@, cols', rows')]
         /\ y' = Clamped(IF takes THEN y + 1 ELSE y, rows')
  /\ x' = Clamped(x, cols')
  /\ wrap' = FALSE /\ region' = Whole(rows')
  /\ UNCHANGED <<program, style, cache>>

-----------------------------------------------------------------------------
(* The client                                                                 *)

\* What a row's hash is taken of, beside the characters.
Hash(r) == [i \in DOMAIN r |-> <<r[i].w, r[i].id>>]

\* take_and_render: a line for the scrollback makes it a full redraw, else a row
\* whose hash is in the cache is skipped.
Painted ==
  [j \in DOMAIN scr.visible |->
     LET cells == scr.visible[j].cells
     IN  IF ~scr.fresh /\ j \in DOMAIN cache /\ Hash(cache[j]) = Hash(cells)
         THEN cache[j] ELSE cells]

\* A new client starts without a cache.
Render ==
  /\ program.watched
  /\ cache' \in {Painted, NoRows}
  /\ scr' = [scr EXCEPT !.fresh = FALSE]
  /\ UNCHANGED <<program, cols, rows, x, y, wrap, region, style>>

Next ==
  \/ PrintNarrow \/ PrintWide \/ PrintWideNowhere \/ PrintWideAtMargin
  \/ LineFeed \/ ReverseIndex \/ ScrollLine \/ Align
  \/ SetStyle \/ MoveCursor \/ SetRegion \/ RestoreCursor
  \/ EraseLine \/ EraseDisplay \/ EraseAbove
  \/ DeleteCharacters \/ InsertCharacters \/ MoveLines
  \/ EnterAlt \/ ExitAlt \/ Reset \/ Resize \/ Render

Spec == Init /\ [][Next]_vars

-----------------------------------------------------------------------------
(* Properties                                                                 *)

\* The halves of wide characters stay together, whatever is printed, erased,
\* inserted, deleted, scrolled, saved or cut off by a narrower window: on the
\* screen, in the scrollback and on the saved main screen, in every row but those
\* in which the last column of a wide character was overwritten by the blank that
\* another one leaves when it wraps there (Margin).
HalvesTogether ==
  \A r \in Rows(scr) : r.cut \/
    \A i \in DOMAIN r.cells :
      /\ r.cells[i].w = 0 => i > 0 /\ r.cells[i - 1].w = 2
      /\ r.cells[i].w = 2 => i + 1 \in DOMAIN r.cells /\ r.cells[i + 1].w = 0

\* Every cell keeps the style it was written with, on the screen, in the
\* scrollback and on the saved main screen, although identifiers are collected
\* and given to other styles (compact_styles, StyleTable::reclaim).
InkStays ==
  \A r \in Rows(scr) : \A i \in DOMAIN r.cells :
    StyleOf(scr, r.cells[i].id) = r.cells[i].ink

\* An incremental render skips unchanged rows (render.rs 227): a row that it
\* skips looks as it did when it was painted.
SkippedIsShown ==
  \A j \in DOMAIN cache \cap DOMAIN scr.visible : LET r == scr.visible[j].cells IN
    ~scr.fresh /\ Hash(cache[j]) = Hash(r) => cache[j] = r
=============================================================================
