----------------------------- MODULE Paint_proofs -----------------------------
(* Theorems about Paint: wide characters stay whole, and cells keep their     *)
(* style.                                                                     *)
EXTENDS Paint, FiniteSetTheorems, SequenceTheorems, WellFoundedInduction, TLAPS

Ink == {Default} \cup UNION {p.styles : p \in Programs}
CellSet == [w : {0, 1, 2}, id : Nat, ink : Ink]
RowsFor(n) == [0 .. n - 1 -> CellSet]
Cells(r) == {r[i] : i \in DOMAIN r}

\* Both halves of every wide character are there.
Halved(r) ==
  \A i \in DOMAIN r :
    /\ r[i].w = 0 => i > 0 /\ r[i - 1].w = 2
    /\ r[i].w = 2 => i + 1 \in DOMAIN r /\ r[i + 1].w = 0

LEMMA DefaultIsCell == DefaultCell \in CellSet /\ DefaultCell.w = 1
BY DEF DefaultCell, Cell, CellSet, Ink

-----------------------------------------------------------------------------
(* What becomes of the cells of a row: of any row, and of one that is Halved.  *)

LEMMA RowOfCell ==
  ASSUME NEW n \in Nat \ {0}, NEW cell \in CellSet, cell.w = 1
  PROVE  /\ RowOf(n, cell).cells \in RowsFor(n) /\ RowOf(n, cell) \in [cells : RowsFor(n), cut : BOOLEAN]
         /\ Cells(RowOf(n, cell).cells) = {cell} /\ Halved(RowOf(n, cell).cells)
<1>1. 0 \in 0 .. n - 1
  OBVIOUS
<1>2. RowOf(n, cell).cells = [i \in 0 .. n - 1 |-> cell] /\ RowOf(n, cell).cut = FALSE
      /\ RowOf(n, cell) = [cells |-> [i \in 0 .. n - 1 |-> cell], cut |-> FALSE]
  BY DEF RowOf, Row
<1>3. [i \in 0 .. n - 1 |-> cell] \in RowsFor(n)
  BY DEF RowsFor
<1> QED BY <1>1, <1>2, <1>3 DEF Cells, Halved

LEMMA CellsOf ==
  ASSUME NEW n \in Nat, NEW r \in RowsFor(n)
  PROVE  DOMAIN r = 0 .. n - 1 /\ Cells(r) \subseteq CellSet
         /\ \A i \in 0 .. n - 1 : r[i] \in Cells(r) /\ r[i] \in CellSet /\ r[i].w \in {0, 1, 2}
<1>1. DOMAIN r = 0 .. n - 1 /\ \A i \in 0 .. n - 1 : r[i] \in CellSet
  BY DEF RowsFor
<1> QED BY <1>1 DEF Cells, CellSet

Second(cell) == [cell EXCEPT !.w = 0]

\* Whatever the row was like, it gets no other cells than its own and the blank.
LEMMA FixedCells ==
  ASSUME NEW n \in Nat \ {0}, NEW r \in RowsFor(n), NEW i
  PROVE  Fixed(r, i) \in RowsFor(n) /\ Cells(Fixed(r, i)) \subseteq Cells(r) \cup {DefaultCell}
<1> DEFINE S == IF i \notin DOMAIN r THEN {}
                ELSE IF r[i].w = 2 THEN {i, i + 1}
                ELSE IF r[i].w = 0 /\ i > 0 THEN {i - 1, i} ELSE {}
<1>1. DOMAIN r = 0 .. n - 1 /\ \A j \in 0 .. n - 1 : r[j] \in Cells(r) /\ r[j] \in CellSet
  BY CellsOf
<1>2. Fixed(r, i) = [j \in 0 .. n - 1 |-> IF j \in S THEN DefaultCell ELSE r[j]]
  BY <1>1 DEF Fixed, Blanked
<1> HIDE DEF S
<1> QED BY <1>1, <1>2, DefaultIsCell DEF RowsFor, Cells

LEMMA WithCellCells ==
  ASSUME NEW n \in Nat \ {0}, NEW r \in RowsFor(n), NEW i \in 0 .. n - 1,
         NEW cell \in CellSet, Second(cell) \in CellSet
  PROVE  /\ WithCell(r, i, cell) \in RowsFor(n)
         /\ Cells(WithCell(r, i, cell)) \subseteq Cells(r) \cup {DefaultCell, cell, Second(cell)}
<1> DEFINE b == Fixed(r, i)
           a == [b EXCEPT ![i] = cell]
           d == Fixed(a, i + 1)
           e == [d EXCEPT ![i + 1] = Second(cell)]
<1>1. b \in RowsFor(n) /\ Cells(b) \subseteq Cells(r) \cup {DefaultCell}
  BY FixedCells
<1> HIDE DEF b
<1>2. a \in RowsFor(n) /\ Cells(a) \subseteq Cells(b) \cup {cell}
  BY <1>1 DEF RowsFor, Cells
<1> HIDE DEF a
<1>3. d \in RowsFor(n) /\ Cells(d) \subseteq Cells(a) \cup {DefaultCell}
  BY <1>2, FixedCells
<1> HIDE DEF d
<1>4. e \in RowsFor(n) /\ Cells(e) \subseteq Cells(d) \cup {Second(cell)}
  BY <1>3 DEF RowsFor, Cells
<1>5. WithCell(r, i, cell) = a \/ WithCell(r, i, cell) = e
  BY DEF WithCell, Second, a, b, d
<1> HIDE DEF e
<1> QED BY <1>1, <1>2, <1>3, <1>4, <1>5

LEMMA ErasedCellsCells ==
  ASSUME NEW n \in Nat \ {0}, NEW r \in RowsFor(n), NEW from, NEW to,
         NEW blank \in CellSet
  PROVE  /\ ErasedCells(r, from, to, blank) \in RowsFor(n)
         /\ Cells(ErasedCells(r, from, to, blank)) \subseteq Cells(r) \cup {DefaultCell, blank}
<1> DEFINE b == Fixed(r, from)
           a == Fixed(b, to)
           z == [i \in 0 .. n - 1 |-> IF i \in from .. to - 1 THEN blank ELSE a[i]]
<1>1. b \in RowsFor(n) /\ Cells(b) \subseteq Cells(r) \cup {DefaultCell}
  BY FixedCells
<1> HIDE DEF b
<1>2. a \in RowsFor(n) /\ Cells(a) \subseteq Cells(b) \cup {DefaultCell}
  BY <1>1, FixedCells
<1>3. ErasedCells(r, from, to, blank) = z
  BY DEF ErasedCells, RowsFor, a, b
<1> HIDE DEF a
<1>4. \A i \in 0 .. n - 1 : a[i] \in CellSet /\ a[i] \in Cells(a)
  BY <1>2, CellsOf
<1> QED BY <1>1, <1>2, <1>3, <1>4 DEF RowsFor, Cells

LEMMA DeletedCells ==
  ASSUME NEW n \in Nat \ {0}, NEW r \in RowsFor(n),
         NEW i \in 0 .. n - 1, NEW m \in 1 .. n - i, NEW blank \in CellSet
  PROVE  /\ Deleted(r, i, m, blank) \in RowsFor(n)
         /\ Cells(Deleted(r, i, m, blank)) \subseteq Cells(r) \cup {DefaultCell, blank}
<1> DEFINE a == Fixed(r, i)
           b == [j \in 0 .. n - 1 |-> IF j < i THEN a[j]
                                      ELSE IF j + m \in 0 .. n - 1 THEN a[j + m] ELSE blank]
           S == IF b[i].w # 0 THEN {}
                ELSE IF i > 0 /\ b[i - 1].w = 2 THEN {i - 1, i} ELSE {i}
           z == [j \in 0 .. n - 1 |-> IF j \in S THEN blank ELSE b[j]]
<1>1. a \in RowsFor(n) /\ Cells(a) \subseteq Cells(r) \cup {DefaultCell}
  BY FixedCells
<1>2. Deleted(r, i, m, blank) = z
  BY DEF Deleted, RowsFor
<1> HIDE DEF a
<1>3. \A j \in 0 .. n - 1 : a[j] \in CellSet /\ a[j] \in Cells(a)
  BY <1>1, CellsOf
<1>4. \A j \in 0 .. n - 1 : b[j] \in CellSet /\ b[j] \in Cells(a) \cup {blank}
  BY <1>3
<1> HIDE DEF b, S
<1>5. z \in RowsFor(n) /\ Cells(z) \subseteq Cells(a) \cup {blank}
  BY <1>4 DEF RowsFor, Cells
<1> QED BY <1>1, <1>2, <1>5

LEMMA InsertedCells ==
  ASSUME NEW n \in Nat \ {0}, NEW r \in RowsFor(n),
         NEW i \in 0 .. n - 1, NEW m \in 1 .. n - i, NEW blank \in CellSet
  PROVE  /\ Inserted(r, i, m, blank) \in RowsFor(n)
         /\ Cells(Inserted(r, i, m, blank)) \subseteq Cells(r) \cup {DefaultCell, blank}
<1> DEFINE a == Fixed(r, i)
           b == [j \in 0 .. n - 1 |-> IF j < i THEN a[j]
                                      ELSE IF j - m >= i THEN a[j - m] ELSE blank]
           last == n - 1
           S == IF b[last].w = 1 THEN {}
                ELSE IF b[last].w = 0 /\ last > 0 /\ b[last - 1].w = 2 THEN {last - 1, last}
                ELSE {last}
           z == [j \in 0 .. n - 1 |-> IF j \in S THEN blank ELSE b[j]]
<1>1. a \in RowsFor(n) /\ Cells(a) \subseteq Cells(r) \cup {DefaultCell}
  BY FixedCells
<1>2. Inserted(r, i, m, blank) = z
  <2>1. DOMAIN r = 0 .. n - 1
    BY DEF RowsFor
  <2>2. Cardinality(DOMAIN r) = n
    BY <2>1, FS_Interval
  <2> QED BY <2>1, <2>2 DEF Inserted
<1> HIDE DEF a
<1>3. \A j \in 0 .. n - 1 : a[j] \in CellSet /\ a[j] \in Cells(a)
  BY <1>1, CellsOf
<1>4. \A j \in 0 .. n - 1 : b[j] \in CellSet /\ b[j] \in Cells(a) \cup {blank}
  BY <1>3
<1> HIDE DEF b, S, last
<1>5. z \in RowsFor(n) /\ Cells(z) \subseteq Cells(a) \cup {blank}
  BY <1>4 DEF RowsFor, Cells
<1> QED BY <1>1, <1>2, <1>5

LEMMA ResizedCellsCells ==
  ASSUME NEW m \in Nat \ {0}, NEW r \in RowsFor(m), NEW n \in Nat \ {0}
  PROVE  /\ ResizedCells(r, n) \in RowsFor(n)
         /\ Cells(ResizedCells(r, n)) \subseteq Cells(r) \cup {DefaultCell}
<1> DEFINE last == n - 1
           S == IF n >= Cardinality(DOMAIN r) THEN {}
                ELSE IF r[last].w = 2 THEN {last}
                ELSE IF r[last].w = 0 /\ last > 0 THEN {last - 1, last} ELSE {}
           z == [i \in 0 .. n - 1 |-> IF i \in 0 .. m - 1
                                      THEN IF i \in S THEN DefaultCell ELSE r[i]
                                      ELSE DefaultCell]
<1>1. DOMAIN r = 0 .. m - 1 /\ \A j \in 0 .. m - 1 : r[j] \in Cells(r) /\ r[j] \in CellSet
  BY CellsOf
<1>2. ResizedCells(r, n) = z
  BY <1>1 DEF ResizedCells, Blanked
<1> HIDE DEF S
<1> QED BY <1>1, <1>2, DefaultIsCell DEF RowsFor, Cells

LEMMA FixedKeeps ==
  ASSUME NEW n \in Nat \ {0}, NEW r \in RowsFor(n), Halved(r), NEW i \in Nat
  PROVE  /\ Fixed(r, i) \in RowsFor(n) /\ Cells(Fixed(r, i)) \subseteq Cells(r) \cup {DefaultCell}
         /\ Halved(Fixed(r, i))
         /\ i \in 0 .. n - 1 => Fixed(r, i)[i].w = 1
         /\ \A j \in 0 .. n - 1 : r[j].w = 1 => Fixed(r, i)[j].w = 1
<1> DEFINE S == IF i \notin DOMAIN r THEN {}
                ELSE IF r[i].w = 2 THEN {i, i + 1}
                ELSE IF r[i].w = 0 /\ i > 0 THEN {i - 1, i} ELSE {}
           a == Fixed(r, i)
<1>1. DOMAIN r = 0 .. n - 1 /\ \A j \in 0 .. n - 1 : r[j] \in Cells(r) /\ r[j] \in CellSet /\ r[j].w \in {0, 1, 2}
  BY CellsOf
<1>2. a = [j \in 0 .. n - 1 |-> IF j \in S THEN DefaultCell ELSE r[j]]
  BY <1>1 DEF Fixed, Blanked
<1>3. /\ a \in RowsFor(n)
      /\ \A j \in 0 .. n - 1 : /\ a[j] \in Cells(r) \cup {DefaultCell}
                               /\ j \in S => a[j].w = 1
                               /\ j \notin S => a[j] = r[j]
  BY <1>1, <1>2, DefaultIsCell DEF RowsFor
<1> HIDE DEF a
<1>4. DOMAIN a = 0 .. n - 1
  BY <1>3 DEF RowsFor
<1>5. Cells(a) \subseteq Cells(r) \cup {DefaultCell}
  BY <1>3, <1>4 DEF Cells
<1>6. i \in 0 .. n - 1 => a[i].w = 1
  <2>1. CASE i \in 0 .. n - 1 /\ i \in S
    BY <1>3, <2>1
  <2>2. CASE i \in 0 .. n - 1 /\ i \notin S
    BY <1>1, <1>3, <2>2 DEF Halved
  <2> QED BY <2>1, <2>2
<1>7. \A j \in 0 .. n - 1 : r[j].w = 1 => a[j].w = 1
  BY <1>3
<1>7a. /\ i \in 0 .. n - 1 /\ r[i].w = 2 => r[i + 1].w = 0
       /\ i \in 0 .. n - 1 /\ r[i].w = 0 => i > 0 /\ r[i - 1].w = 2
  BY <1>1 DEF Halved
<1>8. Halved(a)
  <2> SUFFICES ASSUME NEW j \in 0 .. n - 1
               PROVE  /\ a[j].w = 0 => j > 0 /\ a[j - 1].w = 2
                      /\ a[j].w = 2 => j + 1 \in 0 .. n - 1 /\ a[j + 1].w = 0
    BY <1>4 DEF Halved
  <2>1. ASSUME a[j].w = 0
        PROVE  j > 0 /\ a[j - 1].w = 2
    <3>1. j \notin S /\ r[j].w = 0
      BY <1>3, <2>1
    <3>2. j > 0 /\ r[j - 1].w = 2 /\ j - 1 \in 0 .. n - 1
      BY <1>1, <3>1 DEF Halved
    <3>3. j - 1 \notin S
      <4>1. CASE i \in 0 .. n - 1 /\ r[i].w = 2
        <5>1. S = {i, i + 1} /\ j # i /\ j # i + 1
          BY <1>1, <3>1, <4>1
        <5>2. j - 1 # i + 1
          <6> SUFFICES ASSUME j - 1 = i + 1 PROVE FALSE
            OBVIOUS
          <6>1. r[j - 1] = r[i + 1]
            OBVIOUS
          <6>2. r[i + 1].w = 0
            BY <1>7a, <4>1
          <6>3. r[j - 1].w = 2
            BY <3>2
          <6> QED BY <6>1, <6>2, <6>3
        <5> QED BY <5>1, <5>2
      <4>2. CASE i \in 0 .. n - 1 /\ r[i].w = 0 /\ i > 0
        <5>1. S = {i - 1, i} /\ j # i /\ j # i - 1
          BY <1>1, <3>1, <4>2
        <5>2. j - 1 # i
          BY <3>2, <4>2
        <5> QED BY <5>1, <5>2
      <4>3. CASE ~ (i \in 0 .. n - 1 /\ r[i].w = 2) /\ ~ (i \in 0 .. n - 1 /\ r[i].w = 0 /\ i > 0)
        BY <1>1, <4>3
      <4> QED BY <4>1, <4>2, <4>3
    <3> QED BY <1>3, <3>2, <3>3
  <2>2. ASSUME a[j].w = 2
        PROVE  j + 1 \in 0 .. n - 1 /\ a[j + 1].w = 0
    <3>1. j \notin S /\ r[j].w = 2
      BY <1>3, <2>2
    <3>2. j + 1 \in 0 .. n - 1 /\ r[j + 1].w = 0
      BY <1>1, <3>1 DEF Halved
    <3>3. j + 1 \notin S
      BY <1>1, <1>7a, <3>1, <3>2
    <3> QED BY <1>3, <3>2, <3>3
  <2> QED BY <2>1, <2>2
<1> QED BY <1>3, <1>5, <1>6, <1>7, <1>8 DEF a

LEMMA WithCellNarrow ==
  ASSUME NEW n \in Nat \ {0}, NEW r \in RowsFor(n), Halved(r), NEW i \in 0 .. n - 1,
         NEW cell \in CellSet, cell.w = 1
  PROVE  /\ WithCell(r, i, cell) \in RowsFor(n) /\ Halved(WithCell(r, i, cell))
         /\ Cells(WithCell(r, i, cell)) \subseteq Cells(r) \cup {DefaultCell, cell}
<1> DEFINE b == Fixed(r, i)
           a == [b EXCEPT ![i] = cell]
<1>1. WithCell(r, i, cell) = a
  BY DEF WithCell
<1>2. /\ b \in RowsFor(n) /\ Halved(b) /\ b[i].w = 1 /\ Cells(b) \subseteq Cells(r) \cup {DefaultCell}
  BY FixedKeeps
<1> HIDE DEF b
<1>3. /\ a \in RowsFor(n) /\ DOMAIN b = 0 .. n - 1 /\ DOMAIN a = 0 .. n - 1
      /\ \A j \in 0 .. n - 1 : a[j].w = b[j].w /\ a[j] \in Cells(b) \cup {cell}
  BY <1>2 DEF RowsFor, Cells
<1> HIDE DEF a
<1>4. Halved(a)
  BY <1>2, <1>3 DEF Halved
<1>5. Cells(a) \subseteq Cells(r) \cup {DefaultCell, cell}
  BY <1>2, <1>3 DEF Cells
<1> QED BY <1>1, <1>3, <1>4, <1>5

LEMMA WithCellWide ==
  ASSUME NEW n \in Nat \ {0}, NEW r \in RowsFor(n), Halved(r), NEW i \in 0 .. n - 1,
         i + 1 \in 0 .. n - 1, NEW cell \in CellSet, cell.w = 2
  PROVE  /\ WithCell(r, i, cell) \in RowsFor(n) /\ Halved(WithCell(r, i, cell))
         /\ Cells(WithCell(r, i, cell)) \subseteq Cells(r) \cup {DefaultCell, cell, Second(cell)}
<1> DEFINE b == Fixed(r, i)
           a == [b EXCEPT ![i] = cell]
           S == IF a[i + 1].w = 2 THEN {i + 1, i + 2}
                ELSE IF a[i + 1].w = 0 /\ i + 1 > 0 THEN {i, i + 1} ELSE {}
           z == [j \in 0 .. n - 1 |-> IF j = i + 1 THEN Second(cell)
                                      ELSE IF j \in S THEN DefaultCell ELSE a[j]]
<1>1. /\ b \in RowsFor(n) /\ Halved(b) /\ b[i].w = 1 /\ Cells(b) \subseteq Cells(r) \cup {DefaultCell}
  BY FixedKeeps
<1>2. DOMAIN b = 0 .. n - 1 /\ \A j \in 0 .. n - 1 : b[j] \in Cells(b) /\ b[j] \in CellSet /\ b[j].w \in {0, 1, 2}
  BY <1>1, CellsOf
<1> HIDE DEF b
<1>2a. \A j \in 0 .. n - 1 :
         /\ b[j].w = 0 => j > 0 /\ b[j - 1].w = 2
         /\ b[j].w = 2 => j + 1 \in 0 .. n - 1 /\ b[j + 1].w = 0
  BY <1>1, <1>2 DEF Halved
<1>3. DOMAIN a = 0 .. n - 1 /\ a[i] = cell /\ \A j \in 0 .. n - 1 : j # i => a[j] = b[j]
  BY <1>2
<1>4. WithCell(r, i, cell) = z
  <2>1. WithCell(r, i, cell) = [Fixed(a, i + 1) EXCEPT ![i + 1] = Second(cell)]
    <3>1. i + 1 \in DOMAIN r
      BY DEF RowsFor
    <3> QED BY <3>1 DEF WithCell, Second, b
  <2> HIDE DEF a
  <2>2. Fixed(a, i + 1) = [j \in 0 .. n - 1 |-> IF j \in S THEN DefaultCell ELSE a[j]]
    <3>1. i + 1 \in DOMAIN a /\ i + 1 + 1 = i + 2 /\ i + 1 - 1 = i
      BY <1>3
    <3> QED BY <1>3, <3>1 DEF Fixed, Blanked
  <2> QED BY <2>1, <2>2
<1> HIDE DEF a
<1>5. S = IF b[i + 1].w = 2 THEN {i + 1, i + 2} ELSE {}
  <2>1. a[i + 1] = b[i + 1]
    BY <1>3
  <2>2. b[i + 1].w # 0
    <3>1. i + 1 - 1 = i
      OBVIOUS
    <3> QED BY <1>1, <1>2a, <3>1
  <2> QED BY <2>1, <2>2
<1> HIDE DEF S
<1>6. Second(cell) \in CellSet /\ Second(cell).w = 0
  BY DEF Second, CellSet
<1>7. /\ z \in RowsFor(n) /\ DOMAIN z = 0 .. n - 1
      /\ \A j \in 0 .. n - 1 : z[j] \in Cells(b) \cup {DefaultCell, cell, Second(cell)}
      /\ z[i] = cell /\ z[i + 1].w = 0
      /\ \A j \in 0 .. n - 1 : j # i /\ j # i + 1 =>
           IF j = i + 2 /\ b[i + 1].w = 2 THEN z[j].w = 1 ELSE z[j] = b[j]
  <2>1. i \notin S
    BY <1>5
  <2>2. \A j \in 0 .. n - 1 : z[j] \in CellSet /\ z[j] \in Cells(b) \cup {DefaultCell, cell, Second(cell)}
    BY <1>2, <1>3, <1>6, DefaultIsCell
  <2>3. z[i] = cell /\ z[i + 1].w = 0
    BY <1>3, <1>6, <2>1
  <2>4. \A j \in 0 .. n - 1 : j # i /\ j # i + 1 =>
           IF j = i + 2 /\ b[i + 1].w = 2 THEN z[j].w = 1 ELSE z[j] = b[j]
    BY <1>3, <1>5, DefaultIsCell
  <2>5. z \in RowsFor(n)
    BY <2>2 DEF RowsFor
  <2> QED BY <2>2, <2>3, <2>4, <2>5
<1> HIDE DEF z
<1>8. Cells(z) \subseteq Cells(r) \cup {DefaultCell, cell, Second(cell)}
  <2>1. \A j \in DOMAIN z : z[j] \in Cells(r) \cup {DefaultCell, cell, Second(cell)}
    BY <1>1, <1>7
  <2> QED BY <2>1 DEF Cells
<1>9. Halved(z)
  <2> SUFFICES ASSUME NEW j \in 0 .. n - 1
               PROVE  /\ z[j].w = 0 => j > 0 /\ z[j - 1].w = 2
                      /\ z[j].w = 2 => j + 1 \in 0 .. n - 1 /\ z[j + 1].w = 0
    BY <1>7 DEF Halved
  <2>1. CASE j = i \/ j = i + 1
    BY <1>7, <2>1
  <2>2. CASE j = i + 2 /\ b[i + 1].w = 2
    BY <1>7, <2>2
  <2>3. CASE j # i /\ j # i + 1 /\ ~ (j = i + 2 /\ b[i + 1].w = 2)
    <3>1. z[j] = b[j]
      BY <1>7, <2>3
    <3>2. ASSUME b[j].w = 0
          PROVE  j > 0 /\ z[j - 1].w = 2
      <4>1. j > 0 /\ b[j - 1].w = 2 /\ j - 1 \in 0 .. n - 1
        BY <1>2a, <3>2
      <4>2. j - 1 # i /\ j - 1 # i + 1
        BY <1>1, <2>3, <4>1
      <4>3. ~ (j - 1 = i + 2 /\ b[i + 1].w = 2)
        <5> SUFFICES ASSUME j - 1 = i + 2, b[i + 1].w = 2 PROVE FALSE
          OBVIOUS
        <5>1. b[i + 1 + 1].w = 0
          BY <1>1, <1>2 DEF Halved
        <5>2. i + 1 + 1 = j - 1
          OBVIOUS
        <5> QED BY <4>1, <5>1, <5>2
      <4> QED BY <1>7, <4>1, <4>2, <4>3
    <3>3. ASSUME b[j].w = 2
          PROVE  j + 1 \in 0 .. n - 1 /\ z[j + 1].w = 0
      <4>1. j + 1 \in 0 .. n - 1 /\ b[j + 1].w = 0
        BY <1>2a, <3>3
      <4>2. j + 1 # i
        BY <1>1, <4>1
      <4>3. ~ (j + 1 = i + 2 /\ b[i + 1].w = 2)
        BY <2>3
      <4> QED BY <1>7, <4>1, <4>2, <4>3
    <3> QED BY <3>1, <3>2, <3>3
  <2> QED BY <2>1, <2>2, <2>3
<1> QED BY <1>4, <1>7, <1>8, <1>9

LEMMA ErasedKeeps ==
  ASSUME NEW n \in Nat \ {0}, NEW r \in RowsFor(n), Halved(r),
         NEW from \in 0 .. n - 1, NEW to \in from + 1 .. n,
         NEW blank \in CellSet, blank.w = 1
  PROVE  /\ ErasedCells(r, from, to, blank) \in RowsFor(n)
         /\ Halved(ErasedCells(r, from, to, blank))
         /\ Cells(ErasedCells(r, from, to, blank)) \subseteq Cells(r) \cup {DefaultCell, blank}
<1> DEFINE b == Fixed(r, from)
           a == Fixed(b, to)
           z == [i \in 0 .. n - 1 |-> IF i \in from .. to - 1 THEN blank ELSE a[i]]
<1>1. from \in Nat /\ to \in Nat
  OBVIOUS
<1>2. /\ b \in RowsFor(n) /\ Halved(b) /\ Cells(b) \subseteq Cells(r) \cup {DefaultCell}
      /\ b[from].w = 1
  BY <1>1, FixedKeeps
<1> HIDE DEF b
<1>3. /\ a \in RowsFor(n) /\ Halved(a) /\ Cells(a) \subseteq Cells(b) \cup {DefaultCell}
      /\ to \in 0 .. n - 1 => a[to].w = 1
      /\ a[from].w = 1
  BY <1>1, <1>2, FixedKeeps
<1>4. ErasedCells(r, from, to, blank) = z
  BY DEF ErasedCells, RowsFor, a, b
<1> HIDE DEF a
<1>5. DOMAIN a = 0 .. n - 1 /\ \A j \in 0 .. n - 1 : a[j] \in Cells(a) /\ a[j] \in CellSet
  BY <1>3, CellsOf
<1>6. \A j \in 0 .. n - 1 :
         /\ a[j].w = 0 => j > 0 /\ a[j - 1].w = 2
         /\ a[j].w = 2 => j + 1 \in 0 .. n - 1 /\ a[j + 1].w = 0
  BY <1>3, <1>5 DEF Halved
<1>7. /\ z \in RowsFor(n) /\ DOMAIN z = 0 .. n - 1
      /\ \A j \in 0 .. n - 1 : z[j] \in Cells(a) \cup {blank}
      /\ \A j \in 0 .. n - 1 : j \in from .. to - 1 => z[j].w = 1
      /\ \A j \in 0 .. n - 1 : j \notin from .. to - 1 => z[j] = a[j]
  BY <1>5 DEF RowsFor
<1> HIDE DEF z
<1>8. Cells(z) \subseteq Cells(r) \cup {DefaultCell, blank}
  BY <1>2, <1>3, <1>7 DEF Cells
<1>9. Halved(z)
  <2> SUFFICES ASSUME NEW j \in 0 .. n - 1, j \notin from .. to - 1
               PROVE  /\ a[j].w = 0 => j > 0 /\ z[j - 1].w = 2
                      /\ a[j].w = 2 => j + 1 \in 0 .. n - 1 /\ z[j + 1].w = 0
    BY <1>7 DEF Halved
  <2>1. ASSUME a[j].w = 0
        PROVE  j > 0 /\ z[j - 1].w = 2
    <3>1. j > 0 /\ a[j - 1].w = 2 /\ j - 1 \in 0 .. n - 1
      BY <1>6, <2>1
    <3>2. j # to
      BY <1>3, <2>1
    <3>3. j - 1 \notin from .. to - 1
      BY <3>2
    <3> QED BY <1>7, <3>1, <3>3
  <2>2. ASSUME a[j].w = 2
        PROVE  j + 1 \in 0 .. n - 1 /\ z[j + 1].w = 0
    <3>1. j + 1 \in 0 .. n - 1 /\ a[j + 1].w = 0
      BY <1>6, <2>2
    <3>2. j + 1 # from
      BY <1>3, <3>1
    <3>3. j + 1 \notin from .. to - 1
      BY <3>2
    <3> QED BY <1>7, <3>1, <3>3
  <2> QED BY <2>1, <2>2
<1> QED BY <1>4, <1>7, <1>8, <1>9

LEMMA DeletedKeeps ==
  ASSUME NEW n \in Nat \ {0}, NEW r \in RowsFor(n), Halved(r),
         NEW i \in 0 .. n - 1, NEW m \in 1 .. n - i, NEW blank \in CellSet, blank.w = 1
  PROVE  /\ Deleted(r, i, m, blank) \in RowsFor(n) /\ Halved(Deleted(r, i, m, blank))
         /\ Cells(Deleted(r, i, m, blank)) \subseteq Cells(r) \cup {DefaultCell, blank}
<1> DEFINE a == Fixed(r, i)
           b == [j \in 0 .. n - 1 |-> IF j < i THEN a[j]
                                      ELSE IF j + m \in 0 .. n - 1 THEN a[j + m] ELSE blank]
           S == IF b[i].w # 0 THEN {}
                ELSE IF i > 0 /\ b[i - 1].w = 2 THEN {i - 1, i} ELSE {i}
           z == [j \in 0 .. n - 1 |-> IF j \in S THEN blank ELSE b[j]]
<1>1. /\ a \in RowsFor(n) /\ Halved(a) /\ Cells(a) \subseteq Cells(r) \cup {DefaultCell}
      /\ a[i].w = 1
  BY FixedKeeps
<1>2. Deleted(r, i, m, blank) = z
  BY DEF Deleted, RowsFor
<1> HIDE DEF a
<1>3. DOMAIN a = 0 .. n - 1 /\ \A j \in 0 .. n - 1 : a[j] \in Cells(a) /\ a[j] \in CellSet
  BY <1>1, CellsOf
<1>4. \A j \in 0 .. n - 1 :
         /\ a[j].w = 0 => j > 0 /\ a[j - 1].w = 2
         /\ a[j].w = 2 => j + 1 \in 0 .. n - 1 /\ a[j + 1].w = 0
  BY <1>1, <1>3 DEF Halved
<1>5. \A j \in 0 .. n - 1 : /\ b[j] \in CellSet /\ b[j] \in Cells(a) \cup {blank}
                            /\ j < i => b[j] = a[j]
                            /\ j >= i /\ j + m \in 0 .. n - 1 => b[j] = a[j + m]
                            /\ j >= i /\ j + m \notin 0 .. n - 1 => b[j] = blank
  BY <1>3
<1> HIDE DEF b
<1>6. i > 0 => b[i - 1].w # 2
  <2> SUFFICES ASSUME i > 0, b[i - 1].w = 2 PROVE FALSE
    OBVIOUS
  <2>1. b[i - 1] = a[i - 1] /\ i - 1 \in 0 .. n - 1 /\ i - 1 + 1 = i
    BY <1>5
  <2> QED BY <1>1, <1>4, <2>1
<1>7. S = IF b[i].w # 0 THEN {} ELSE {i}
  BY <1>6
<1> HIDE DEF S
<1>8. /\ z \in RowsFor(n) /\ DOMAIN z = 0 .. n - 1
      /\ \A j \in 0 .. n - 1 : z[j] \in Cells(a) \cup {blank}
      /\ \A j \in 0 .. n - 1 : IF j = i /\ b[i].w = 0 THEN z[j].w = 1 ELSE z[j] = b[j]
  BY <1>5, <1>7 DEF RowsFor
<1> HIDE DEF z
<1>9. Cells(z) \subseteq Cells(r) \cup {DefaultCell, blank}
  BY <1>1, <1>8 DEF Cells
<1>10. Halved(z)
  <2> SUFFICES ASSUME NEW j \in 0 .. n - 1
               PROVE  /\ z[j].w = 0 => j > 0 /\ z[j - 1].w = 2
                      /\ z[j].w = 2 => j + 1 \in 0 .. n - 1 /\ z[j + 1].w = 0
    BY <1>8 DEF Halved
  <2>1. ASSUME z[j].w = 0
        PROVE  j > 0 /\ z[j - 1].w = 2
    <3>1. z[j] = b[j] /\ b[j].w = 0 /\ j # i
      BY <1>8, <2>1
    <3>2. CASE j < i
      <4>1. a[j].w = 0 /\ j > 0 /\ a[j - 1].w = 2 /\ j - 1 \in 0 .. n - 1 /\ j - 1 < i
        BY <1>4, <1>5, <3>1, <3>2
      <4>2. b[j - 1] = a[j - 1] /\ z[j - 1] = b[j - 1]
        BY <1>5, <1>8, <4>1
      <4> QED BY <4>1, <4>2
    <3>3. CASE j > i
      <4>1. j + m \in 0 .. n - 1 /\ a[j + m].w = 0
        BY <1>5, <3>1, <3>3
      <4>2. a[j + m - 1].w = 2 /\ j - 1 \in 0 .. n - 1 /\ j - 1 + m = j + m - 1
            /\ j - 1 + m \in 0 .. n - 1 /\ j - 1 >= i
        BY <1>4, <3>3, <4>1
      <4>3. b[j - 1] = a[j + m - 1] /\ z[j - 1] = b[j - 1]
        BY <1>5, <1>8, <4>2
      <4> QED BY <3>3, <4>2, <4>3
    <3> QED BY <3>1, <3>2, <3>3
  <2>2. ASSUME z[j].w = 2
        PROVE  j + 1 \in 0 .. n - 1 /\ z[j + 1].w = 0
    <3>1. z[j] = b[j] /\ b[j].w = 2
      BY <1>8, <2>2
    <3>2. CASE j < i
      <4>1. a[j].w = 2 /\ j + 1 \in 0 .. n - 1 /\ a[j + 1].w = 0
        BY <1>4, <1>5, <3>1, <3>2
      <4>2. j + 1 # i
        BY <1>1, <4>1
      <4>3. j + 1 < i
        BY <3>2, <4>2
      <4> QED BY <1>5, <1>8, <4>1, <4>3
    <3>3. CASE j >= i
      <4>1. j + m \in 0 .. n - 1 /\ a[j + m].w = 2
        BY <1>5, <3>1, <3>3
      <4>2. j + m + 1 \in 0 .. n - 1 /\ a[j + m + 1].w = 0
        BY <1>4, <4>1
      <4>3. j + 1 \in 0 .. n - 1 /\ j + 1 + m = j + m + 1 /\ j + 1 >= i /\ j + 1 # i
        BY <3>3, <4>2
      <4>4. b[j + 1] = a[j + m + 1] /\ z[j + 1] = b[j + 1]
        BY <1>5, <1>8, <4>2, <4>3
      <4> QED BY <4>2, <4>3, <4>4
    <3> QED BY <3>2, <3>3
  <2> QED BY <2>1, <2>2
<1> QED BY <1>2, <1>8, <1>9, <1>10

LEMMA InsertedKeeps ==
  ASSUME NEW n \in Nat \ {0}, NEW r \in RowsFor(n), Halved(r),
         NEW i \in 0 .. n - 1, NEW m \in 1 .. n - i, NEW blank \in CellSet, blank.w = 1
  PROVE  /\ Inserted(r, i, m, blank) \in RowsFor(n) /\ Halved(Inserted(r, i, m, blank))
         /\ Cells(Inserted(r, i, m, blank)) \subseteq Cells(r) \cup {DefaultCell, blank}
<1> DEFINE a == Fixed(r, i)
           b == [j \in 0 .. n - 1 |-> IF j < i THEN a[j]
                                      ELSE IF j - m >= i THEN a[j - m] ELSE blank]
           last == n - 1
           S == IF b[last].w = 1 THEN {}
                ELSE IF b[last].w = 0 /\ last > 0 /\ b[last - 1].w = 2 THEN {last - 1, last}
                ELSE {last}
           z == [j \in 0 .. n - 1 |-> IF j \in S THEN blank ELSE b[j]]
<1>1. /\ a \in RowsFor(n) /\ Halved(a) /\ Cells(a) \subseteq Cells(r) \cup {DefaultCell}
      /\ a[i].w = 1
  BY FixedKeeps
<1>2. Inserted(r, i, m, blank) = z
  <2>1. DOMAIN r = 0 .. n - 1
    BY DEF RowsFor
  <2>2. Cardinality(DOMAIN r) = n
    BY <2>1, FS_Interval
  <2> QED BY <2>1, <2>2 DEF Inserted
<1> HIDE DEF a
<1>3. DOMAIN a = 0 .. n - 1 /\ \A j \in 0 .. n - 1 : a[j] \in Cells(a) /\ a[j] \in CellSet /\ a[j].w \in {0, 1, 2}
  BY <1>1, CellsOf
<1>4. \A j \in 0 .. n - 1 :
         /\ a[j].w = 0 => j > 0 /\ a[j - 1].w = 2
         /\ a[j].w = 2 => j + 1 \in 0 .. n - 1 /\ a[j + 1].w = 0
  BY <1>1, <1>3 DEF Halved
<1>5. \A j \in 0 .. n - 1 : /\ b[j] \in CellSet /\ b[j] \in Cells(a) \cup {blank}
                            /\ j < i => b[j] = a[j]
                            /\ j >= i /\ j - m < i => b[j] = blank
                            /\ j - m >= i => j - m \in 0 .. n - 1 /\ b[j] = a[j - m]
  BY <1>3
<1> HIDE DEF b
<1>6. \A j \in 0 .. n - 1 : b[j].w \in {0, 1, 2}
  BY <1>5 DEF CellSet
\* Before the end of the row is looked at, only its last cell can be a half.
<1>7. \A j \in 0 .. n - 1 :
         /\ b[j].w = 0 => j > 0 /\ b[j - 1].w = 2
         /\ b[j].w = 2 /\ j # last => b[j + 1].w = 0
  <2> SUFFICES ASSUME NEW j \in 0 .. n - 1
               PROVE  /\ b[j].w = 0 => j > 0 /\ b[j - 1].w = 2
                      /\ b[j].w = 2 /\ j # last => b[j + 1].w = 0
    OBVIOUS
  <2>1. CASE j < i
    <3>1. b[j] = a[j]
      BY <1>5, <2>1
    <3>2. ASSUME a[j].w = 0 PROVE j > 0 /\ b[j - 1].w = 2
      <4>1. j > 0 /\ a[j - 1].w = 2 /\ j - 1 \in 0 .. n - 1 /\ j - 1 < i
        BY <1>4, <2>1, <3>2
      <4> QED BY <1>5, <4>1
    <3>3. ASSUME a[j].w = 2 PROVE b[j + 1].w = 0
      <4>1. j + 1 \in 0 .. n - 1 /\ a[j + 1].w = 0
        BY <1>4, <3>3
      <4>2. j + 1 # i
        BY <1>1, <4>1
      <4> QED BY <1>5, <2>1, <4>1, <4>2
    <3> QED BY <3>1, <3>2, <3>3
  <2>2. CASE j >= i /\ j - m < i
    BY <1>5, <2>2
  <2>3. CASE j - m >= i
    <3>1. j - m \in 0 .. n - 1 /\ b[j] = a[j - m]
      BY <1>5, <2>3
    <3>2. ASSUME a[j - m].w = 0 PROVE j > 0 /\ b[j - 1].w = 2
      <4>1. j - m > 0 /\ a[j - m - 1].w = 2
        BY <1>4, <3>1, <3>2
      <4>2. j - m # i
        BY <1>1, <3>2
      <4>3. j - 1 \in 0 .. n - 1 /\ j - 1 - m >= i /\ j - 1 - m = j - m - 1
        BY <2>3, <4>1, <4>2
      <4>4. b[j - 1] = a[j - m - 1]
        BY <1>5, <4>3
      <4> QED BY <4>1, <4>3, <4>4
    <3>3. ASSUME a[j - m].w = 2, j # last PROVE b[j + 1].w = 0
      <4>1. j - m + 1 \in 0 .. n - 1 /\ a[j - m + 1].w = 0
        BY <1>4, <3>1, <3>3
      <4>2. j + 1 \in 0 .. n - 1 /\ j + 1 - m >= i /\ j + 1 - m = j - m + 1
        BY <2>3, <3>3
      <4>3. b[j + 1] = a[j - m + 1]
        BY <1>5, <4>2
      <4> QED BY <4>1, <4>3
    <3> QED BY <3>1, <3>2, <3>3
  <2> QED BY <2>1, <2>2, <2>3
<1> HIDE DEF S
<1>8. /\ z \in RowsFor(n) /\ DOMAIN z = 0 .. n - 1
      /\ \A j \in 0 .. n - 1 : z[j] \in Cells(a) \cup {blank}
      /\ \A j \in 0 .. n - 1 : IF j \in S THEN z[j].w = 1 ELSE z[j] = b[j]
  <2>1. \A j \in 0 .. n - 1 : z[j] \in CellSet /\ z[j] \in Cells(a) \cup {blank}
    BY <1>5
  <2> QED BY <2>1 DEF RowsFor
<1> HIDE DEF z
<1>9. Cells(z) \subseteq Cells(r) \cup {DefaultCell, blank}
  BY <1>1, <1>8 DEF Cells
<1>10. Halved(z)
  <2> SUFFICES ASSUME NEW j \in 0 .. n - 1, j \notin S
               PROVE  /\ b[j].w = 0 => j > 0 /\ z[j - 1].w = 2
                      /\ b[j].w = 2 => j + 1 \in 0 .. n - 1 /\ z[j + 1].w = 0
    BY <1>8 DEF Halved
  <2>1. last \in 0 .. n - 1 /\ (j = last => b[j].w = 1)
    BY <1>6 DEF S
  <2>2. ASSUME b[j].w = 0
        PROVE  j > 0 /\ z[j - 1].w = 2
    <3>1. j > 0 /\ b[j - 1].w = 2 /\ j - 1 \in 0 .. n - 1
      BY <1>7, <2>2
    <3>2. j # last
      BY <2>1, <2>2
    <3>3. j - 1 \notin S
      BY <1>7, <2>1, <3>1, <3>2 DEF S
    <3> QED BY <1>8, <3>1, <3>3
  <2>3. ASSUME b[j].w = 2
        PROVE  j + 1 \in 0 .. n - 1 /\ z[j + 1].w = 0
    <3>1. j # last
      BY <2>1, <2>3
    <3>2. j + 1 \in 0 .. n - 1 /\ b[j + 1].w = 0
      BY <1>7, <2>3, <3>1
    <3>3. j + 1 \notin S
      <4> SUFFICES ASSUME j + 1 \in S PROVE FALSE
        OBVIOUS
      <4>2. CASE j + 1 = last
        <5>1. b[last].w = 0 /\ last > 0 /\ last - 1 = j
          BY <3>2, <4>2
        <5>2. S = {last - 1, last}
          BY <2>3, <5>1 DEF S
        <5> QED BY <5>1, <5>2
      <4>3. CASE j + 1 = last - 1
        <5>1. b[last].w = 0 /\ b[last - 1].w = 2
          BY <4>3 DEF S
        <5> QED BY <3>2, <4>3, <5>1
      <4> QED BY <4>2, <4>3 DEF S
    <3> QED BY <1>8, <3>2, <3>3
  <2> QED BY <2>2, <2>3
<1> QED BY <1>2, <1>8, <1>9, <1>10

LEMMA ResizedKeeps ==
  ASSUME NEW m \in Nat \ {0}, NEW r \in RowsFor(m), Halved(r), NEW n \in Nat \ {0}
  PROVE  /\ ResizedCells(r, n) \in RowsFor(n) /\ Halved(ResizedCells(r, n))
         /\ Cells(ResizedCells(r, n)) \subseteq Cells(r) \cup {DefaultCell}
<1> DEFINE last == n - 1
           S == IF n >= m THEN {}
                ELSE IF r[last].w = 2 THEN {last}
                ELSE IF r[last].w = 0 /\ last > 0 THEN {last - 1, last} ELSE {}
           z == [i \in 0 .. n - 1 |-> IF i \in 0 .. m - 1
                                      THEN IF i \in S THEN DefaultCell ELSE r[i]
                                      ELSE DefaultCell]
<1>1. DOMAIN r = 0 .. m - 1 /\ \A j \in 0 .. m - 1 : r[j] \in Cells(r) /\ r[j] \in CellSet
  BY CellsOf
<1>2. ResizedCells(r, n) = z
  <2>1. Cardinality(DOMAIN r) = m
    BY <1>1, FS_Interval
  <2> QED BY <1>1, <2>1 DEF ResizedCells, Blanked
<1>3. \A j \in 0 .. m - 1 :
        /\ r[j].w = 0 => j > 0 /\ r[j - 1].w = 2
        /\ r[j].w = 2 => j + 1 \in 0 .. m - 1 /\ r[j + 1].w = 0
  BY <1>1 DEF Halved
<1>4. CASE n >= m
  <2>1. z = [i \in 0 .. n - 1 |-> IF i \in 0 .. m - 1 THEN r[i] ELSE DefaultCell]
    BY <1>4
  <2> HIDE DEF z
  <2>2. DOMAIN z = 0 .. n - 1 /\ \A j \in 0 .. n - 1 :
          IF j \in 0 .. m - 1 THEN z[j] = r[j] ELSE z[j] = DefaultCell
    BY <2>1
  <2>3. z \in RowsFor(n)
    BY <1>1, <2>1, DefaultIsCell DEF RowsFor
  <2>4. Cells(z) \subseteq Cells(r) \cup {DefaultCell}
    BY <1>1, <2>2 DEF Cells
  <2>5. Halved(z)
    <3> SUFFICES ASSUME NEW j \in 0 .. n - 1
                 PROVE  /\ z[j].w = 0 => j > 0 /\ z[j - 1].w = 2
                        /\ z[j].w = 2 => j + 1 \in 0 .. n - 1 /\ z[j + 1].w = 0
      BY <2>2 DEF Halved
    <3>1. CASE j \notin 0 .. m - 1
      BY <2>2, <3>1, DefaultIsCell
    <3>2. CASE j \in 0 .. m - 1
      <4>1. z[j] = r[j]
        BY <2>2, <3>2
      <4>2. ASSUME r[j].w = 0 PROVE j > 0 /\ z[j - 1].w = 2
        <5>1. j > 0 /\ r[j - 1].w = 2 /\ j - 1 \in 0 .. m - 1 /\ j - 1 \in 0 .. n - 1
          BY <1>3, <3>2, <4>2
        <5> QED BY <2>2, <5>1
      <4>3. ASSUME r[j].w = 2 PROVE j + 1 \in 0 .. n - 1 /\ z[j + 1].w = 0
        <5>1. j + 1 \in 0 .. m - 1 /\ r[j + 1].w = 0 /\ j + 1 \in 0 .. n - 1
          BY <1>3, <1>4, <3>2, <4>3
        <5> QED BY <2>2, <5>1
      <4> QED BY <4>1, <4>2, <4>3
    <3> QED BY <3>1, <3>2
  <2> QED BY <1>2, <2>3, <2>4, <2>5
<1>5. CASE n < m
  <2>1. last \in 0 .. m - 1 /\ \A j \in 0 .. n - 1 : j \in 0 .. m - 1 /\ j <= last
    BY <1>5
  <2>2. S = IF r[last].w = 2 THEN {last}
            ELSE IF r[last].w = 0 /\ last > 0 THEN {last - 1, last} ELSE {}
    BY <1>5
  <2> HIDE DEF S, last
  <2>3. DOMAIN z = 0 .. n - 1 /\ \A j \in 0 .. n - 1 :
          IF j \in S THEN z[j] = DefaultCell ELSE z[j] = r[j]
    BY <2>1
  <2>4. z \in RowsFor(n)
    BY <1>1, <2>1, DefaultIsCell DEF RowsFor
  <2> HIDE DEF z
  <2>5. Cells(z) \subseteq Cells(r) \cup {DefaultCell}
    BY <1>1, <2>1, <2>3 DEF Cells
  <2>6. Halved(z)
    <3> SUFFICES ASSUME NEW j \in 0 .. n - 1, j \notin S
                 PROVE  /\ r[j].w = 0 => j > 0 /\ z[j - 1].w = 2
                        /\ r[j].w = 2 => j + 1 \in 0 .. n - 1 /\ z[j + 1].w = 0
      BY <2>3, DefaultIsCell DEF Halved
    <3>1. j \in 0 .. m - 1 /\ j <= last /\ last = n - 1
      BY <2>1 DEF last
    <3>2. ASSUME r[j].w = 0 PROVE j > 0 /\ z[j - 1].w = 2
      <4>1. j > 0 /\ r[j - 1].w = 2 /\ j - 1 \in 0 .. n - 1
        BY <1>3, <3>1, <3>2
      <4>2. j - 1 \notin S
        BY <2>2, <3>1, <4>1
      <4> QED BY <2>3, <4>1, <4>2
    <3>3. ASSUME r[j].w = 2 PROVE j + 1 \in 0 .. n - 1 /\ z[j + 1].w = 0
      <4>1. j + 1 \in 0 .. m - 1 /\ r[j + 1].w = 0
        BY <1>3, <3>1, <3>3
      <4>2. j # last
        BY <2>2, <3>3
      <4>3. j + 1 \in 0 .. n - 1
        BY <3>1, <4>2
      <4>4. j + 1 \notin S
        <5>1. CASE r[last].w = 2
          <6>1. j + 1 # last
            BY <4>1, <5>1
          <6> QED BY <2>2, <5>1, <6>1
        <5>2. CASE r[last].w = 0 /\ last > 0
          <6>1. S = {last - 1, last} /\ r[last - 1].w = 2
            BY <1>3, <2>1, <2>2, <5>2
          <6>2. j + 1 # last - 1
            BY <4>1, <6>1
          <6>3. j # last - 1
            BY <6>1
          <6> QED BY <3>1, <6>1, <6>2, <6>3
        <5>3. CASE r[last].w # 2 /\ ~ (r[last].w = 0 /\ last > 0)
          BY <2>2, <5>3
        <5> QED BY <5>1, <5>2, <5>3
      <4> QED BY <2>3, <4>1, <4>3, <4>4
    <3> QED BY <3>2, <3>3
  <2> QED BY <1>2, <2>4, <2>5, <2>6
<1> QED BY <1>4, <1>5

-----------------------------------------------------------------------------
(* The screen with its style table.                                           *)

Table(s) ==
  /\ s.styles \in Seq(Ink)
  /\ s.free \subseteq 1 .. Len(s.styles)
  /\ \A st \in DOMAIN s.index : /\ s.index[st] \in 1 .. Len(s.styles) /\ s.index[st] \notin s.free
                                /\ s.styles[s.index[st]] = st

\* The style of the cell's slot is the one it was written with, and the slot is
\* not free.
CellOk(s, c) ==
  c.id \in 0 .. Len(s.styles) /\ c.id \notin s.free /\ StyleOf(s, c.id) = c.ink

\* A row of n cells, whose wide characters are whole unless one was cut off.
RowOk(r, n) == r \in [cells : RowsFor(n), cut : BOOLEAN] /\ (r.cut \/ Halved(r.cells))

Good(s, r, n) == RowOk(r, n) /\ \A c \in Cells(r.cells) : CellOk(s, c)
Stored(s, r) == \E n \in Nat \ {0} : Good(s, r, n)

Fields == {"visible", "above", "fresh", "alt", "kept", "styles", "index", "free"}
IsScreen(s) == s = [f \in Fields |-> s[f]]

\* The rows of the window have its width; the others the one they had there.
Screen(s, n, m) ==
  /\ IsScreen(s) /\ Table(s) /\ n \in Nat \ {0} /\ m \in Nat \ {0}
  /\ DOMAIN s.visible = 0 .. m - 1 /\ \A j \in 0 .. m - 1 : Good(s, s.visible[j], n)
  /\ s.above # NoRow => Stored(s, s.above)
  /\ \A j \in DOMAIN s.kept : Stored(s, s.kept[j])

SameTable(s, t) == t.styles = s.styles /\ t.free = s.free /\ t.index = s.index
SameRows(s, t) ==
  t.visible = s.visible /\ t.above = s.above /\ t.kept = s.kept /\ t.alt = s.alt

CellsOn(s) == UNION {Cells(r.cells) : r \in Rows(s)}

LEMMA RowsAreStored ==
  ASSUME NEW n, NEW m, NEW s, Screen(s, n, m)
  PROVE  /\ \A r \in Rows(s) : Stored(s, r)
         /\ \A j \in DOMAIN s.visible : s.visible[j] \in Rows(s)
         /\ s.above # NoRow => s.above \in Rows(s)
         /\ \A j \in DOMAIN s.kept : s.kept[j] \in Rows(s)
<1>1. Rows(s) = {s.visible[j] : j \in DOMAIN s.visible} \cup ({s.above} \ {NoRow})
                \cup {s.kept[j] : j \in DOMAIN s.kept}
  BY DEF Rows, Shown, Range
<1> QED BY <1>1 DEF Screen, Stored

\* What the table is used for: a screen with other styles but the same rows.
LEMMA OtherTable ==
  ASSUME NEW n, NEW m, NEW s, NEW t, Screen(s, n, m), IsScreen(t), SameRows(s, t), Table(t),
         \A c : CellOk(s, c) /\ c \in CellsOn(s) => CellOk(t, c)
  PROVE  Screen(t, n, m)
<1>1. ASSUME NEW r \in Rows(s), NEW k, Good(s, r, k)
      PROVE  Good(t, r, k)
  <2>1. \A c \in Cells(r.cells) : c \in CellsOn(s)
    BY DEF CellsOn
  <2> QED BY <1>1, <2>1 DEF Good
<1>2. \A j \in 0 .. m - 1 : Good(t, t.visible[j], n)
  BY <1>1, RowsAreStored DEF Screen, SameRows
<1>3. \A r \in Rows(s) : Stored(t, r)
  BY <1>1, RowsAreStored DEF Stored
<1> QED BY <1>2, <1>3, RowsAreStored DEF Screen, SameRows

LEMMA SameStored ==
  ASSUME NEW s, NEW t, SameTable(s, t)
  PROVE  /\ Table(s) => Table(t)
         /\ \A r, n : Good(s, r, n) => Good(t, r, n)
         /\ \A r : Stored(s, r) => Stored(t, r)
<1>1. (Table(s) => Table(t)) /\ \A c : CellOk(s, c) => CellOk(t, c)
  BY DEF SameTable, Table, CellOk, StyleOf
<1>2. \A r, n : Good(s, r, n) => Good(t, r, n)
  BY <1>1 DEF Good
<1> QED BY <1>1, <1>2 DEF Stored

\* A screen with other rows but the same styles.
LEMMA OtherRows ==
  ASSUME NEW n, NEW m, NEW s, Screen(s, n, m), NEW t, IsScreen(t), SameTable(s, t),
         NEW k \in Nat \ {0}, NEW l \in Nat \ {0},
         DOMAIN t.visible = 0 .. l - 1, \A j \in 0 .. l - 1 : Good(s, t.visible[j], k),
         t.above # NoRow => Stored(s, t.above),
         \A j \in DOMAIN t.kept : Stored(s, t.kept[j])
  PROVE  Screen(t, k, l)
BY SameStored DEF Screen

\* Other rows in the window.
Window(s, f) == [s EXCEPT !.visible = f]

LEMMA WindowSet ==
  ASSUME NEW s, IsScreen(s), NEW f
  PROVE  /\ IsScreen(Window(s, f)) /\ SameTable(s, Window(s, f)) /\ Window(s, f).visible = f
         /\ Window(s, f).above = s.above /\ Window(s, f).kept = s.kept /\ Window(s, f).alt = s.alt
<1> DEFINE t == Window(s, f)
<1>1. t = [e \in Fields |-> IF e = "visible" THEN f ELSE s[e]]
  BY DEF IsScreen, Fields, Window
<1> HIDE DEF t
<1>2. DOMAIN t = Fields
  BY <1>1
<1>3. IsScreen(t)
  BY <1>1 DEF IsScreen
<1>4. t.visible = f /\ t.above = s.above /\ t.kept = s.kept /\ t.alt = s.alt
  BY <1>1 DEF Fields
<1>5. SameTable(s, t)
  BY <1>1 DEF Fields, SameTable
<1> QED BY <1>3, <1>4, <1>5 DEF t

LEMMA OtherWindow ==
  ASSUME NEW n, NEW m, NEW s, Screen(s, n, m), NEW k \in Nat \ {0}, NEW l \in Nat \ {0},
         NEW f, DOMAIN f = 0 .. l - 1, \A j \in 0 .. l - 1 : Good(s, f[j], k)
  PROVE  Screen(Window(s, f), k, l)
<1> DEFINE t == Window(s, f)
<1>1. IsScreen(t) /\ SameTable(s, t) /\ t.visible = f /\ t.above = s.above /\ t.kept = s.kept
  <2>1. IsScreen(s)
    BY DEF Screen
  <2> QED BY <2>1, WindowSet
<1> HIDE DEF t
<1>2. DOMAIN t.visible = 0 .. l - 1 /\ \A j \in 0 .. l - 1 : Good(s, t.visible[j], k)
  BY <1>1
<1>3. (t.above # NoRow => Stored(s, t.above)) /\ \A j \in DOMAIN t.kept : Stored(s, t.kept[j])
  BY <1>1 DEF Screen
<1>4. Screen(t, k, l)
  BY <1>1, <1>2, <1>3, OtherRows
<1> QED BY <1>4 DEF t

LEMMA CellsUsed ==
  ASSUME NEW n, NEW m, NEW s, Screen(s, n, m)
  PROVE  \A c \in CellsOn(s) : c.id \in Used(s) /\ CellOk(s, c)
<1> SUFFICES ASSUME NEW c \in CellsOn(s)
             PROVE  c.id \in Used(s) /\ CellOk(s, c)
  OBVIOUS
<1>1. PICK r \in Rows(s) : c \in Cells(r.cells)
  BY DEF CellsOn
<1>2. Stored(s, r)
  BY RowsAreStored
<1>3. CellOk(s, c)
  BY <1>1, <1>2 DEF Stored, Good
<1>4. PICK i \in DOMAIN r.cells : c = r.cells[i]
  BY <1>1 DEF Cells
<1>5. c.id \in {r.cells[k].id : k \in DOMAIN r.cells}
  BY <1>4
<1>6. Used(s) = UNION {{q.cells[k].id : k \in DOMAIN q.cells} : q \in Rows(s)}
  BY DEF Used, IdsIn
<1> QED BY <1>3, <1>5, <1>6

LEMMA CompactedKeeps ==
  ASSUME NEW n, NEW m, NEW s, Screen(s, n, m)
  PROVE  Screen(Compacted(s), n, m) /\ SameRows(s, Compacted(s))
<1> DEFINE dead == {id \in 1 .. Len(s.styles) : id \notin Used(s)}
           gone == {s.styles[id] : id \in dead}
           t == Compacted(s)
<1>1. /\ IsScreen(t) /\ SameRows(s, t) /\ t.styles = s.styles /\ t.free = dead
      /\ t.index = [st \in DOMAIN s.index \ gone |-> s.index[st]]
  <2>1. t = [f \in Fields |-> IF f = "free" THEN dead
                              ELSE IF f = "index" THEN [st \in DOMAIN s.index \ gone |-> s.index[st]]
                              ELSE s[f]]
    BY DEF Compacted, Restrict, Screen, IsScreen, Fields
  <2> QED BY <2>1 DEF IsScreen, SameRows, Fields
<1> HIDE DEF t
<1>2. Table(t)
  <2>1. ASSUME NEW st \in DOMAIN s.index \ gone
        PROVE  s.index[st] \in 1 .. Len(s.styles) /\ s.styles[s.index[st]] = st /\ s.index[st] \notin dead
    BY DEF Screen, Table
  <2> QED BY <1>1, <2>1 DEF Table, Screen
<1>3. ASSUME NEW c, CellOk(s, c), c \in CellsOn(s)
      PROVE  CellOk(t, c)
  <2>1. c.id \notin dead
    BY <1>3, CellsUsed
  <2> QED BY <1>1, <1>3, <2>1 DEF CellOk, StyleOf
<1>4. Screen(t, n, m)
  BY <1>1, <1>2, <1>3, OtherTable
<1> QED BY <1>1, <1>4 DEF t

LEMMA PoppedIsFree ==
  ASSUME NEW n \in Nat, NEW free \in SUBSET (1 .. n), free # {}
  PROVE  Popped(free) \in free
<1>1. PICK id \in free : \A other \in free : other <= id
  <2> DEFINE above == {k \in Nat : \A other \in free : other <= k}
             R == OpToRel(<, Nat)
  <2>1. n \in above
    OBVIOUS
  <2>2. \A k, l : <<k, l>> \in R <=> k \in Nat /\ l \in Nat /\ k < l
    BY DEF OpToRel
  <2> HIDE DEF R
  <2>3. IsWellFoundedOn(R, Nat)
    BY NatLessThanWellFounded DEF R
  <2>4. PICK k \in above : \A l \in above : ~ (<<l, k>> \in R)
    BY <2>1, <2>3, WFMin
  <2>5. \A l \in Nat : l < k => \E other \in free : ~ (other <= l)
    BY <2>2, <2>4
  <2>6. free \subseteq Nat
    OBVIOUS
  <2>7. CASE k = 0
    <3>1. PICK other \in free : TRUE
      OBVIOUS
    <3>2. other <= 0 /\ other >= 1
      BY <2>4, <2>7
    <3> QED BY <2>6, <3>2
  <2>8. CASE k > 0
    <3>1. k - 1 \in Nat /\ k - 1 < k
      BY <2>8
    <3>2. PICK other \in free : ~ (other <= k - 1)
      BY <2>5, <3>1
    <3>3. other = k
      BY <2>4, <2>6, <3>2
    <3> QED BY <2>4, <3>2, <3>3
  <2> QED BY <2>4, <2>7, <2>8
<1> QED BY <1>1 DEF Popped

LEMMA PlacedKeeps ==
  ASSUME NEW n, NEW m, NEW s, Screen(s, n, m), NEW st \in Ink
  PROVE  Screen(Placed(s, st), n, m) /\ SameRows(s, Placed(s, st))
<1> DEFINE t == Placed(s, st)
<1>1. s.styles \in Seq(Ink) /\ Len(s.styles) \in Nat /\ s.free \subseteq 1 .. Len(s.styles)
  BY LenProperties DEF Screen, Table
<1>2. CASE t = s
  BY <1>2 DEF SameRows
<1>3. CASE st \notin DOMAIN s.index /\ s.free # {} /\ st # Default
  <2> DEFINE id == Popped(s.free)
  <2>1. id \in s.free /\ id \in 1 .. Len(s.styles)
    BY <1>1, <1>3, PoppedIsFree
  <2> HIDE DEF id
  <2>2. /\ IsScreen(t) /\ SameRows(s, t) /\ t.free = s.free \ {id}
        /\ t.styles = [s.styles EXCEPT ![id] = st] /\ t.index = Bind(s.index, st, id)
    <3>1. t = [f \in Fields |-> IF f = "free" THEN s.free \ {id}
                                ELSE IF f = "styles" THEN [s.styles EXCEPT ![id] = st]
                                ELSE IF f = "index" THEN Bind(s.index, st, id)
                                ELSE s[f]]
      BY <1>3 DEF Placed, Screen, IsScreen, Fields, id
    <3> QED BY <3>1 DEF IsScreen, SameRows, Fields
  <2> HIDE DEF t
  <2>3. /\ t.styles \in Seq(Ink) /\ Len(t.styles) = Len(s.styles) /\ t.styles[id] = st
        /\ \A i \in 1 .. Len(s.styles) : i # id => t.styles[i] = s.styles[i]
    BY <1>1, <2>1, <2>2
  <2>4. Table(t)
    <3>1. ASSUME NEW other \in DOMAIN s.index, other # st
          PROVE  /\ s.index[other] \in 1 .. Len(s.styles) /\ s.index[other] # id
                 /\ s.index[other] \notin t.free /\ t.styles[s.index[other]] = other
      <4>1. s.index[other] \in 1 .. Len(s.styles) /\ s.index[other] \notin s.free
            /\ s.styles[s.index[other]] = other
        BY DEF Screen, Table
      <4> QED BY <2>1, <2>2, <2>3, <4>1
    <3>2. /\ DOMAIN t.index = DOMAIN s.index \cup {st} /\ t.index[st] = id
          /\ \A other \in DOMAIN s.index : other # st => t.index[other] = s.index[other]
      BY <2>2 DEF Bind
    <3>3. t.free \subseteq 1 .. Len(t.styles) /\ id \notin t.free
      BY <1>1, <2>2, <2>3
    <3> QED BY <2>1, <2>3, <3>1, <3>2, <3>3 DEF Table
  <2>5. ASSUME NEW c, CellOk(s, c), c \in CellsOn(s)
        PROVE  CellOk(t, c)
    <3>1. c.id # id
      BY <2>1, <2>5 DEF CellOk
    <3> QED BY <2>2, <2>3, <2>5, <3>1 DEF CellOk, StyleOf
  <2>6. Screen(t, n, m)
    BY <2>2, <2>4, <2>5, OtherTable
  <2> QED BY <2>2, <2>6 DEF t
<1>4. CASE st \notin DOMAIN s.index /\ s.free = {} /\ st # Default /\ Len(s.styles) # Slots
  <2> DEFINE id == Len(s.styles) + 1
  <2>1. /\ IsScreen(t) /\ SameRows(s, t) /\ t.free = {}
        /\ t.styles = Append(s.styles, st) /\ t.index = Bind(s.index, st, id)
    <3>1. t = [f \in Fields |-> IF f = "styles" THEN Append(s.styles, st)
                                ELSE IF f = "index" THEN Bind(s.index, st, id)
                                ELSE s[f]]
      BY <1>4 DEF Placed, Screen, IsScreen, Fields
    <3> QED BY <1>4, <3>1 DEF IsScreen, SameRows, Fields
  <2> HIDE DEF t
  <2>2. /\ t.styles \in Seq(Ink) /\ Len(t.styles) = id /\ t.styles[id] = st
        /\ \A i \in 1 .. Len(s.styles) : t.styles[i] = s.styles[i]
    BY <1>1, <2>1, AppendProperties
  <2>3. id \in 1 .. id /\ id \notin 1 .. Len(s.styles) /\ \A i \in 1 .. Len(s.styles) : i \in 1 .. id
    BY <1>1
  <2> HIDE DEF id
  <2>4. Table(t)
    <3>1. ASSUME NEW other \in DOMAIN s.index
          PROVE  s.index[other] \in 1 .. id /\ t.styles[s.index[other]] = other
      <4>1. s.index[other] \in 1 .. Len(s.styles) /\ s.styles[s.index[other]] = other
        BY DEF Screen, Table
      <4> QED BY <2>2, <2>3, <4>1
    <3>2. /\ DOMAIN t.index = DOMAIN s.index \cup {st} /\ t.index[st] = id
          /\ \A other \in DOMAIN s.index : other # st => t.index[other] = s.index[other]
      BY <2>1 DEF Bind
    <3> QED BY <2>1, <2>2, <2>3, <3>1, <3>2 DEF Table
  <2>5. ASSUME NEW c, CellOk(s, c)
        PROVE  CellOk(t, c)
    <3>1. c.id \in 0 .. Len(s.styles) /\ (c.id # 0 => c.id \in 1 .. Len(s.styles)) /\ c.id \in 0 .. id
      BY <1>1, <2>5 DEF CellOk, id
    <3> QED BY <2>1, <2>2, <2>5, <3>1 DEF CellOk, StyleOf
  <2>6. Screen(t, n, m)
    BY <2>1, <2>4, <2>5, OtherTable
  <2> QED BY <2>1, <2>6 DEF t
<1> QED BY <1>2, <1>3, <1>4 DEF Placed

LEMMA InternedKeeps ==
  ASSUME NEW n, NEW m, NEW s, Screen(s, n, m), NEW st \in Ink
  PROVE  Screen(Interned(s, st), n, m) /\ SameRows(s, Interned(s, st))
<1> DEFINE t == Placed(s, st)
<1>1. Screen(t, n, m) /\ SameRows(s, t)
  BY PlacedKeeps
<1> HIDE DEF t
<1>2. Screen(Compacted(t), n, m) /\ SameRows(t, Compacted(t))
  BY <1>1, CompactedKeeps
<1>3. Screen(Placed(Compacted(t), st), n, m) /\ SameRows(Compacted(t), Placed(Compacted(t), st))
  BY <1>2, PlacedKeeps
<1>4. Interned(s, st) = t \/ Interned(s, st) = Placed(Compacted(t), st)
  BY DEF Interned, t
<1> QED BY <1>1, <1>2, <1>3, <1>4 DEF SameRows

LEMMA DefaultIsOk ==
  ASSUME NEW n, NEW m, NEW s, Screen(s, n, m)
  PROVE  CellOk(s, DefaultCell)
<1>1. Len(s.styles) \in Nat /\ s.free \subseteq 1 .. Len(s.styles)
  BY LenProperties DEF Screen, Table
<1> QED BY <1>1 DEF CellOk, StyleOf, DefaultCell, Cell

\* The cell that is written has the style of the slot that was found for it.
LEMMA InkedIsOk ==
  ASSUME NEW n, NEW m, NEW s, Screen(s, n, m), NEW w \in {1, 2}
  PROVE  Inked(s, w) \in CellSet /\ Inked(s, w).w = w /\ CellOk(s, Inked(s, w))
         /\ CellOk(s, Second(Inked(s, w))) /\ Second(Inked(s, w)) \in CellSet
<1> DEFINE id == IdOf(s, style)
<1>1. s.styles \in Seq(Ink) /\ Len(s.styles) \in Nat /\ s.free \subseteq 1 .. Len(s.styles)
  BY LenProperties DEF Screen, Table
<1>2. id \in 0 .. Len(s.styles) /\ id \notin s.free /\ id \in Nat
  BY <1>1 DEF IdOf, Screen, Table
<1>3. StyleOf(s, id) \in Ink
  <2>1. CASE id = 0
    BY <2>1 DEF StyleOf, Ink
  <2>2. CASE id # 0
    <3>1. id \in 1 .. Len(s.styles)
      BY <1>1, <1>2, <2>2
    <3> HIDE DEF id
    <3> QED BY <1>1, <2>2, <3>1, ElementOfSeq DEF StyleOf
  <2> QED BY <2>1, <2>2
<1> DEFINE st == StyleOf(s, id)
           cell == Inked(s, w)
<1>4. cell = [w |-> w, id |-> id, ink |-> st]
  BY DEF Inked, Cell
<1>5. Second(cell) = [w |-> 0, id |-> id, ink |-> st]
  BY <1>4 DEF Second
<1>6. st \in Ink /\ st = StyleOf(s, id)
  BY <1>3
<1> HIDE DEF id, st, cell
<1>7. cell \in CellSet /\ Second(cell) \in CellSet
  BY <1>2, <1>4, <1>5, <1>6 DEF CellSet
<1>8. CellOk(s, cell) /\ CellOk(s, Second(cell))
  BY <1>2, <1>4, <1>5, <1>6 DEF CellOk
<1> QED BY <1>4, <1>7, <1>8 DEF cell

\* A blank row, of the cell that erases or of the default one.
LEMMA BlankIsGood ==
  ASSUME NEW n, NEW m, NEW s, Screen(s, n, m), NEW k \in Nat \ {0}
  PROVE  Good(s, RowOf(k, Inked(s, 1)), k) /\ Good(s, RowOf(k, DefaultCell), k)
<1>1. ASSUME NEW cell \in CellSet, cell.w = 1, CellOk(s, cell)
      PROVE  Good(s, RowOf(k, cell), k)
  BY <1>1, RowOfCell DEF Good, RowOk
<1>2. Inked(s, 1) \in CellSet /\ Inked(s, 1).w = 1 /\ CellOk(s, Inked(s, 1))
  BY InkedIsOk
<1>3. DefaultCell \in CellSet /\ DefaultCell.w = 1 /\ CellOk(s, DefaultCell)
  BY DefaultIsCell, DefaultIsOk
<1> QED BY <1>1, <1>2, <1>3

\* Other cells in a row, which come from it or from the current style.
LEMMA OtherCells ==
  ASSUME NEW n, NEW m, NEW s, Screen(s, n, m), NEW w \in {1, 2}, NEW k, NEW l, NEW r, Good(s, r, k),
         NEW a \in RowsFor(l), Halved(r.cells) => Halved(a),
         Cells(a) \subseteq Cells(r.cells) \cup {DefaultCell, Inked(s, w), Second(Inked(s, w))}
  PROVE  Good(s, [r EXCEPT !.cells = a], l)
<1> DEFINE q == [r EXCEPT !.cells = a]
<1>1. q.cells = a /\ q.cut = r.cut /\ q \in [cells : RowsFor(l), cut : BOOLEAN]
  BY DEF Good, RowOk
<1> HIDE DEF q
<1>2. CellOk(s, DefaultCell) /\ CellOk(s, Inked(s, w)) /\ CellOk(s, Second(Inked(s, w)))
  BY DefaultIsOk, InkedIsOk
<1>3. \A c \in Cells(a) : CellOk(s, c)
  BY <1>2 DEF Good
<1>4. Good(s, q, l)
  BY <1>1, <1>3 DEF Good, RowOk
<1> QED BY <1>4 DEF q

\* Rows that shift, and rows that are fitted into another window.
LEMMA ShiftedKeeps ==
  ASSUME NEW n, NEW m, NEW s, Screen(s, n, m), NEW from \in Nat, NEW to \in 0 .. m - 1,
         NEW by \in Int, NEW blank, Good(s, blank, n)
  PROVE  /\ DOMAIN Shifted(s.visible, from, to, by, blank) = 0 .. m - 1
         /\ \A j \in 0 .. m - 1 : Good(s, Shifted(s.visible, from, to, by, blank)[j], n)
<1> DEFINE f == s.visible
           g == Shifted(f, from, to, by, blank)
<1>1. DOMAIN f = 0 .. m - 1 /\ m \in Nat /\ \A j \in 0 .. m - 1 : Good(s, f[j], n)
  BY DEF Screen
<1>2. g = [j \in 0 .. m - 1 |-> IF j \notin from .. to THEN f[j]
                               ELSE IF j + by \in from .. to THEN f[j + by] ELSE blank]
  BY <1>1 DEF Shifted
<1>3. \A i \in from .. to : i \in 0 .. m - 1
  BY <1>1
<1> HIDE DEF f, g
<1>4. ASSUME NEW j \in 0 .. m - 1
      PROVE  Good(s, g[j], n)
  <2>1. CASE j \notin from .. to
    BY <1>1, <1>2, <2>1
  <2>2. CASE j \in from .. to /\ j + by \in from .. to
    <3>1. g[j] = f[j + by] /\ j + by \in 0 .. m - 1
      BY <1>2, <1>3, <2>2
    <3> QED BY <1>1, <3>1
  <2>3. CASE j \in from .. to /\ j + by \notin from .. to
    BY <1>2, <2>3
  <2> QED BY <2>1, <2>2, <2>3
<1>5. DOMAIN g = 0 .. m - 1
  BY <1>2
<1> QED BY <1>4, <1>5 DEF f, g

LEMMA FittedKeeps ==
  ASSUME NEW n, NEW m, NEW s, Screen(s, n, m), NEW f, \A j \in DOMAIN f : Stored(s, f[j]),
         NEW k \in Nat \ {0}, NEW l \in Nat \ {0}
  PROVE  /\ DOMAIN Fitted(f, k, l) = 0 .. l - 1
         /\ \A j \in 0 .. l - 1 : Good(s, Fitted(f, k, l)[j], k)
<1>1. Fitted(f, k, l) = [j \in 0 .. l - 1 |->
         IF j \in DOMAIN f THEN [f[j] EXCEPT !.cells = ResizedCells(f[j].cells, k)]
         ELSE RowOf(k, DefaultCell)]
  BY DEF Fitted
<1>2. ASSUME NEW j \in DOMAIN f
      PROVE  Good(s, [f[j] EXCEPT !.cells = ResizedCells(f[j].cells, k)], k)
  <2> DEFINE r == f[j]
             a == ResizedCells(r.cells, k)
  <2>1. PICK i \in Nat \ {0} : Good(s, r, i)
    BY DEF Stored
  <2>2. r.cells \in RowsFor(i)
    BY <2>1 DEF Good, RowOk
  <2> HIDE DEF r
  <2>3. a \in RowsFor(k) /\ Cells(a) \subseteq Cells(r.cells) \cup {DefaultCell}
    BY <2>2, ResizedCellsCells
  <2>4. Halved(r.cells) => Halved(a)
    BY <2>2, ResizedKeeps
  <2> HIDE DEF a
  <2>5. Cells(a) \subseteq Cells(r.cells) \cup {DefaultCell, Inked(s, 1), Second(Inked(s, 1))}
    BY <2>3
  <2>6. Good(s, [r EXCEPT !.cells = a], k)
    BY <2>1, <2>3, <2>4, <2>5, OtherCells
  <2> QED BY <2>6 DEF r, a
<1>3. Good(s, RowOf(k, DefaultCell), k)
  BY BlankIsGood
<1> QED BY <1>1, <1>2, <1>3

\* Another line in the scrollback.
LEMMA OtherAbove ==
  ASSUME NEW n, NEW m, NEW s, Screen(s, n, m), NEW r, r # NoRow => Stored(s, r), NEW b
  PROVE  Screen([s EXCEPT !.above = r, !.fresh = b], n, m)
<1> DEFINE t == [s EXCEPT !.above = r, !.fresh = b]
<1>1. t = [e \in Fields |-> IF e = "above" THEN r ELSE IF e = "fresh" THEN b ELSE s[e]]
  BY DEF Screen, IsScreen, Fields
<1> HIDE DEF t
<1>2. IsScreen(t)
  BY <1>1 DEF IsScreen
<1>3. /\ SameTable(s, t)
      /\ t.visible = s.visible /\ t.above = r /\ t.kept = s.kept
  BY <1>1 DEF Fields, SameTable
<1>4. /\ n \in Nat \ {0} /\ m \in Nat \ {0}
      /\ DOMAIN t.visible = 0 .. m - 1 /\ \A j \in 0 .. m - 1 : Good(s, t.visible[j], n)
      /\ \A j \in DOMAIN t.kept : Stored(s, t.kept[j])
  BY <1>3 DEF Screen
<1>5. t.above # NoRow => Stored(s, t.above)
  BY <1>3
<1>6. Screen(t, n, m)
  BY <1>2, <1>3, <1>4, <1>5, OtherRows
<1> QED BY <1>6 DEF t

\* Another row in one line of the window.
LEMMA OneRow ==
  ASSUME NEW n, NEW m, NEW s, Screen(s, n, m), NEW j \in 0 .. m - 1, NEW r, Good(s, r, n)
  PROVE  Screen(Window(s, [s.visible EXCEPT ![j] = r]), n, m)
<1> DEFINE f == [s.visible EXCEPT ![j] = r]
<1>1. DOMAIN f = 0 .. m - 1 /\ \A i \in 0 .. m - 1 : f[i] = IF i = j THEN r ELSE s.visible[i]
  BY DEF Screen
<1> HIDE DEF f
<1>2. \A i \in 0 .. m - 1 : Good(s, f[i], n)
  BY <1>1 DEF Screen
<1>3. n \in Nat \ {0} /\ m \in Nat \ {0}
  BY DEF Screen
<1> QED BY <1>1, <1>2, <1>3, OtherWindow DEF f

LEMMA NewScreenIs ==
  ASSUME NEW n \in Nat \ {0}, NEW m \in Nat \ {0}
  PROVE  Screen(NewScreen(n, m), n, m)
<1> DEFINE s == NewScreen(n, m)
           r == RowOf(n, DefaultCell)
<1>1. IsScreen(s) /\ s.visible = Blank(n, m) /\ s.above = NoRow /\ s.kept = NoRows
      /\ s.styles = <<>> /\ s.index = <<>> /\ s.free = {}
  BY DEF NewScreen, IsScreen, Fields
<1> HIDE DEF s
<1>2. Len(<<>>) = 0 /\ <<>> \in Seq(Ink) /\ DOMAIN s.index = {} /\ DOMAIN s.kept = {}
  BY <1>1 DEF NoRows
<1>3. Table(s)
  BY <1>1, <1>2 DEF Table
<1>4. CellOk(s, DefaultCell)
  BY <1>1, <1>2 DEF CellOk, StyleOf, DefaultCell, Cell
<1>5. Good(s, r, n)
  BY <1>4, DefaultIsCell, RowOfCell DEF Good, RowOk
<1> HIDE DEF r
<1>6. DOMAIN s.visible = 0 .. m - 1 /\ \A j \in 0 .. m - 1 : s.visible[j] = r
  BY <1>1 DEF Blank, r
<1>7. Screen(s, n, m)
  BY <1>1, <1>2, <1>3, <1>5, <1>6 DEF Screen
<1> QED BY <1>7 DEF s

-----------------------------------------------------------------------------
(* The invariant. It says more than the two properties: that the rows of the  *)
(* window have its width and those in the scrollback and on the saved screen  *)
(* some width, that the index and the free slots are disjoint, and that no    *)
(* cell names a free slot.                                                    *)

Inv ==
  /\ program \in Programs
  /\ x \in 0 .. cols - 1 /\ y \in 0 .. rows - 1 /\ wrap \in BOOLEAN
  /\ region \in Regions
  /\ style \in Ink
  /\ Screen(scr, cols, rows)

LEMMA Bounds ==
  ASSUME Inv
  PROVE  /\ cols \in Nat \ {0} /\ rows \in Nat \ {0}
         /\ region.top \in 0 .. rows - 1 /\ region.bottom \in 0 .. rows - 1
         /\ 0 \in 0 .. cols - 1 /\ 0 \in 0 .. rows - 1 /\ Whole(rows) \in Regions
BY DEF Inv, Screen, Regions, Whole

\* The styles of the program that runs.
LEMMA StyleIsInk ==
  ASSUME program \in Programs
  PROVE  Style \subseteq Ink
BY DEF Style, Ink

LEMMA ScrolledUpKeeps ==
  ASSUME Inv, NEW s, Screen(s, cols, rows)
  PROVE  Screen(ScrolledUp(s), cols, rows)
<1> DEFINE t == Interned(s, style)
           blank == RowOf(cols, Inked(t, 1))
           f == Shifted(t.visible, region.top, region.bottom, 1, blank)
           u == Window(t, f)
           v == [u EXCEPT !.above = s.visible[0], !.fresh = TRUE]
<1>1. ScrolledUp(s) = u \/ ScrolledUp(s) = v
  BY DEF ScrolledUp, Window
<1>2. Screen(t, cols, rows) /\ t.visible = s.visible
  BY InternedKeeps DEF Inv, SameRows
<1> HIDE DEF t
<1>3. Good(t, blank, cols)
  BY <1>2, Bounds, BlankIsGood
<1> HIDE DEF blank
<1>4. DOMAIN f = 0 .. rows - 1 /\ \A j \in 0 .. rows - 1 : Good(t, f[j], cols)
  <2>1. region.top \in Nat /\ region.bottom \in 0 .. rows - 1 /\ 1 \in Int
    BY Bounds
  <2> QED BY <1>2, <1>3, <2>1, ShiftedKeeps
<1> HIDE DEF f
<1>5. Screen(u, cols, rows) /\ SameTable(t, u)
  <2>1. IsScreen(t)
    BY <1>2 DEF Screen
  <2> QED BY <1>2, <1>4, <2>1, Bounds, OtherWindow, WindowSet
<1>6. Stored(t, s.visible[0])
  BY <1>2, Bounds DEF Screen, Stored
<1> HIDE DEF u
<1>7. Stored(u, s.visible[0])
  BY <1>5, <1>6, SameStored
<1>8. Screen(v, cols, rows)
  BY <1>5, <1>7, OtherAbove
<1> QED BY <1>1, <1>5, <1>8

LEMMA ScrolledDownKeeps ==
  ASSUME Inv, NEW s, Screen(s, cols, rows)
  PROVE  Screen(ScrolledDown(s), cols, rows)
<1> DEFINE t == Interned(s, style)
           blank == RowOf(cols, Inked(t, 1))
           f == Shifted(t.visible, region.top, region.bottom, -1, blank)
<1>1. ScrolledDown(s) = Window(t, f)
  BY DEF ScrolledDown, Window
<1>2. Screen(t, cols, rows)
  BY InternedKeeps DEF Inv
<1> HIDE DEF t
<1>3. Good(t, blank, cols)
  BY <1>2, Bounds, BlankIsGood
<1> HIDE DEF blank
<1>4. DOMAIN f = 0 .. rows - 1 /\ \A j \in 0 .. rows - 1 : Good(t, f[j], cols)
  <2>1. region.top \in Nat /\ region.bottom \in 0 .. rows - 1 /\ -1 \in Int
    BY Bounds
  <2> QED BY <1>2, <1>3, <2>1, ShiftedKeeps
<1> HIDE DEF f
<1> QED BY <1>1, <1>2, <1>4, Bounds, OtherWindow

LEMMA FedKeeps ==
  ASSUME Inv, NEW s, Screen(s, cols, rows), NEW j \in 0 .. rows - 1
  PROVE  Screen(Fed(s, j).s, cols, rows) /\ Fed(s, j).y \in 0 .. rows - 1
<1>1. CASE j = region.bottom
  <2>1. Fed(s, j).s = ScrolledUp(s) /\ Fed(s, j).y = j
    BY <1>1 DEF Fed
  <2> QED BY <2>1, ScrolledUpKeeps
<1>2. CASE j # region.bottom
  <2>1. Fed(s, j).s = s /\ Fed(s, j).y = IF j < rows - 1 THEN j + 1 ELSE j
    BY <1>2 DEF Fed
  <2> QED BY <2>1, Bounds
<1> QED BY <1>1, <1>2

LEMMA StartIs ==
  ASSUME Inv
  PROVE  Screen(Start.s, cols, rows) /\ Start.y \in 0 .. rows - 1 /\ StartX \in 0 .. cols - 1
<1>1. CASE wrap
  <2>1. Start = Fed(scr, y) /\ StartX = 0
    BY <1>1 DEF Start, StartX
  <2> QED BY <2>1, Bounds, FedKeeps DEF Inv
<1>2. CASE ~wrap
  <2>1. Start.s = scr /\ Start.y = y /\ StartX = x
    BY <1>2 DEF Start, StartX
  <2> QED BY <2>1 DEF Inv
<1> QED BY <1>1, <1>2

LEMMA WrittenKeeps ==
  ASSUME Inv, NEW s, Screen(s, cols, rows), NEW i \in 0 .. cols - 1, NEW j \in 0 .. rows - 1,
         NEW w \in {1, 2}, w = 2 => i + 1 \in 0 .. cols - 1
  PROVE  Screen(Written(s, i, j, w), cols, rows)
<1> DEFINE t == Interned(s, style)
           r == t.visible[j]
           cell == Inked(t, w)
           a == WithCell(r.cells, i, cell)
<1>1. Written(s, i, j, w) = Window(t, [t.visible EXCEPT ![j] = [r EXCEPT !.cells = a]])
  BY DEF Written, Window
<1>2. Screen(t, cols, rows)
  BY InternedKeeps DEF Inv
<1> HIDE DEF t
<1>3. cell \in CellSet /\ cell.w = w /\ Second(cell) \in CellSet
  BY <1>2, InkedIsOk
<1>4. Good(t, r, cols) /\ r.cells \in RowsFor(cols) /\ cols \in Nat \ {0}
  BY <1>2 DEF Screen, Good, RowOk
<1>5. a \in RowsFor(cols) /\ Cells(a) \subseteq Cells(r.cells) \cup {DefaultCell, cell, Second(cell)}
  <2> HIDE DEF r, cell
  <2> QED BY <1>3, <1>4, WithCellCells
<1>6. Halved(r.cells) => Halved(a)
  <2> HIDE DEF r, cell
  <2>1. CASE w = 1
    BY <1>3, <1>4, <2>1, WithCellNarrow
  <2>2. CASE w = 2
    BY <1>3, <1>4, <2>2, WithCellWide
  <2> QED BY <2>1, <2>2
<1> HIDE DEF r, a
<1>7. Good(t, [r EXCEPT !.cells = a], cols)
  BY <1>2, <1>4, <1>5, <1>6, OtherCells
<1>8. Screen(Window(t, [t.visible EXCEPT ![j] = [r EXCEPT !.cells = a]]), cols, rows)
  <2> DEFINE q == [r EXCEPT !.cells = a]
  <2> HIDE DEF q
  <2>1. Good(t, q, cols)
    BY <1>7 DEF q
  <2>2. Screen(Window(t, [t.visible EXCEPT ![j] = q]), cols, rows)
    BY <1>2, <2>1, OneRow
  <2> QED BY <2>2 DEF q
<1> QED BY <1>1, <1>8 DEF r, a

\* A blank over the last cell leaves the row whole, or the row counts as cut.
LEMMA MarginKeeps ==
  ASSUME Inv, NEW s, Screen(s, cols, rows), NEW j \in 0 .. rows - 1
  PROVE  Screen(Margin(s, j), cols, rows)
<1> DEFINE t == Interned(s, style)
           r == t.visible[j]
           cell == Inked(t, 1)
           a == [r.cells EXCEPT ![cols - 1] = cell]
           q == Row(a, r.cut \/ r.cells[cols - 1].w # 1)
<1>1. Margin(s, j) = Window(t, [t.visible EXCEPT ![j] = q])
  BY DEF Margin, Window
<1>2. Screen(t, cols, rows)
  BY InternedKeeps DEF Inv
<1> HIDE DEF t
<1>3. cell \in CellSet /\ cell.w = 1 /\ CellOk(t, cell)
  BY <1>2, InkedIsOk
<1> HIDE DEF cell
<1>4. Good(t, r, cols) /\ r.cells \in RowsFor(cols) /\ cols \in Nat \ {0} /\ r.cut \in BOOLEAN
      /\ (r.cut \/ Halved(r.cells)) /\ \A c \in Cells(r.cells) : CellOk(t, c)
  BY <1>2 DEF Screen, Good, RowOk
<1> HIDE DEF r
<1>5. cols - 1 \in 0 .. cols - 1 /\ DOMAIN r.cells = 0 .. cols - 1
  BY <1>4 DEF RowsFor
<1>6. a \in RowsFor(cols) /\ DOMAIN a = 0 .. cols - 1 /\ a[cols - 1] = cell
      /\ \A i \in 0 .. cols - 1 : i # cols - 1 => a[i] = r.cells[i]
  BY <1>3, <1>4, <1>5 DEF RowsFor
<1> HIDE DEF a
<1>7. \A c \in Cells(a) : CellOk(t, c)
  BY <1>3, <1>4, <1>5, <1>6 DEF Cells
<1>8. Halved(r.cells) /\ r.cells[cols - 1].w = 1 => Halved(a)
  <2> SUFFICES ASSUME Halved(r.cells), r.cells[cols - 1].w = 1 PROVE Halved(a)
    OBVIOUS
  <2>1. \A i \in 0 .. cols - 1 : a[i].w = r.cells[i].w
    BY <1>3, <1>6
  <2> QED BY <1>5, <1>6, <2>1 DEF Halved
<1>9. q.cells = a /\ q.cut = (r.cut \/ r.cells[cols - 1].w # 1)
      /\ q \in [cells : RowsFor(cols), cut : BOOLEAN]
  BY <1>4, <1>6 DEF Row
<1> HIDE DEF q
<1>10. Good(t, q, cols)
  BY <1>4, <1>7, <1>8, <1>9 DEF Good, RowOk
<1> QED BY <1>1, <1>2, <1>10, OneRow

\* The window after a command that erases with the current style.
LEMMA RedrawnIs ==
  ASSUME Inv, NEW f, Redrawn(f), DOMAIN f = 0 .. rows - 1,
         \A j \in 0 .. rows - 1 : Good(Interned(scr, style), f[j], cols)
  PROVE  /\ Screen(scr', cols, rows)
         /\ UNCHANGED <<program, cols, rows, x, y, region, style>>
<1>1. scr' = Window(Interned(scr, style), f)
  BY DEF Redrawn, Window
<1>2. Screen(Interned(scr, style), cols, rows)
  BY InternedKeeps DEF Inv
<1>3. Screen(Window(Interned(scr, style), f), cols, rows)
  BY <1>2, Bounds, OtherWindow
<1> QED BY <1>1, <1>3 DEF Redrawn

LEMMA LineIs ==
  ASSUME Inv
  PROVE  /\ Line \in RowsFor(cols) /\ Fill \in CellSet /\ Fill.w = 1
         /\ scr.visible[y].cells = Line
<1>1. Good(scr, scr.visible[y], cols) /\ style \in Ink /\ Screen(scr, cols, rows)
  <2>1. y \in 0 .. rows - 1 /\ style \in Ink /\ Screen(scr, cols, rows)
    BY DEF Inv
  <2> QED BY <2>1 DEF Screen
<1>2. Line \in RowsFor(cols)
  BY <1>1 DEF Line, Good, RowOk
<1>3. Screen(Interned(scr, style), cols, rows)
  BY <1>1, InternedKeeps
<1>4. Fill \in CellSet /\ Fill.w = 1
  BY <1>3, InkedIsOk DEF Fill
<1> QED BY <1>2, <1>4 DEF Line

LEMMA EditedIs ==
  ASSUME Inv, NEW a \in RowsFor(cols), Halved(Line) => Halved(a),
         Cells(a) \subseteq Cells(Line) \cup {DefaultCell, Fill}, NEW S
  PROVE  /\ DOMAIN Edited(a, S) = 0 .. rows - 1
         /\ \A j \in 0 .. rows - 1 : Good(Interned(scr, style), Edited(a, S)[j], cols)
<1> DEFINE t == Interned(scr, style)
           r == scr.visible[y]
           q == [r EXCEPT !.cells = a]
           f == Edited(a, S)
<1>1. Screen(t, cols, rows) /\ t.visible = scr.visible
  BY InternedKeeps DEF Inv, SameRows
<1>2. DOMAIN scr.visible = 0 .. rows - 1 /\ \A j \in 0 .. rows - 1 : Good(t, scr.visible[j], cols)
  BY <1>1 DEF Screen
<1>3. Good(t, RowOf(cols, Fill), cols)
  BY <1>1, Bounds, BlankIsGood DEF Fill
<1>4. Good(t, q, cols)
  <2>1. Good(t, r, cols) /\ r.cells = Line
    BY <1>2 DEF Inv, Line
  <2>2. Cells(a) \subseteq Cells(r.cells) \cup {DefaultCell, Inked(t, 1), Second(Inked(t, 1))}
    BY <2>1 DEF Fill
  <2> HIDE DEF t, r
  <2> QED BY <1>1, <2>1, <2>2, OtherCells
<1>5. f = [j \in 0 .. rows - 1 |-> IF j \in S THEN RowOf(cols, Fill)
                                 ELSE IF j = y THEN q ELSE scr.visible[j]]
  BY <1>2 DEF Edited
<1> HIDE DEF t, q
<1>6. DOMAIN f = 0 .. rows - 1 /\ \A j \in 0 .. rows - 1 : Good(t, f[j], cols)
  <2> HIDE DEF f
  <2> QED BY <1>2, <1>3, <1>4, <1>5
<1> QED BY <1>6 DEF t

\* The rows of the alternate screen, and of the alignment test.
LEMMA BlankIs ==
  ASSUME NEW n, NEW m, NEW s, Screen(s, n, m)
  PROVE  DOMAIN Blank(n, m) = 0 .. m - 1 /\ \A j \in 0 .. m - 1 : Good(s, Blank(n, m)[j], n)
<1>1. Good(s, RowOf(n, DefaultCell), n)
  BY BlankIsGood DEF Screen
<1> QED BY <1>1 DEF Blank

LEMMA EnteredIs ==
  ASSUME Inv
  PROVE  Screen([scr EXCEPT !.alt = TRUE, !.kept = scr.visible, !.visible = Blank(cols, rows)], cols, rows)
<1> DEFINE t == [scr EXCEPT !.alt = TRUE, !.kept = scr.visible, !.visible = Blank(cols, rows)]
<1>1. IsScreen(t) /\ t.visible = Blank(cols, rows) /\ t.above = scr.above /\ t.kept = scr.visible
      /\ SameTable(scr, t)
  <2>1. t = [e \in Fields |-> IF e = "alt" THEN TRUE ELSE IF e = "kept" THEN scr.visible
                              ELSE IF e = "visible" THEN Blank(cols, rows) ELSE scr[e]]
    BY DEF Inv, Screen, IsScreen, Fields
  <2> HIDE DEF t
  <2> QED BY <2>1 DEF IsScreen, Fields, SameTable
<1> HIDE DEF t
<1>2. DOMAIN t.visible = 0 .. rows - 1 /\ \A j \in 0 .. rows - 1 : Good(scr, t.visible[j], cols)
  BY <1>1, BlankIs DEF Inv
<1>3. \A j \in DOMAIN t.kept : Stored(scr, t.kept[j])
  <2>1. \A j \in DOMAIN scr.visible : scr.visible[j] \in Rows(scr) /\ Stored(scr, scr.visible[j])
    BY RowsAreStored DEF Inv
  <2> QED BY <1>1, <2>1
<1>4. t.above # NoRow => Stored(scr, t.above)
  BY <1>1 DEF Inv, Screen
<1>5. Screen(scr, cols, rows)
  BY DEF Inv
<1>6. Screen(t, cols, rows)
  BY <1>1, <1>2, <1>3, <1>4, <1>5, Bounds, OtherRows
<1> QED BY <1>6 DEF t

LEMMA ExitedIs ==
  ASSUME Inv,
         NEW t, t = [scr EXCEPT !.alt = FALSE, !.kept = NoRows, !.visible = Fitted(scr.kept, cols, rows)]
  PROVE  Screen(Compacted(t), cols, rows)
<1> DEFINE f == Fitted(scr.kept, cols, rows)
<1>1. IsScreen(t) /\ t.visible = f /\ t.above = scr.above /\ t.kept = NoRows /\ SameTable(scr, t)
  <2> HIDE DEF f
  <2>1. t = [e \in Fields |-> IF e = "alt" THEN FALSE ELSE IF e = "kept" THEN NoRows
                              ELSE IF e = "visible" THEN f ELSE scr[e]]
    BY DEF Inv, Screen, IsScreen, Fields, f
  <2> QED BY <2>1 DEF IsScreen, Fields, SameTable
<1>2. \A j \in DOMAIN scr.kept : Stored(scr, scr.kept[j])
  BY DEF Inv, Screen
<1>3. Screen(scr, cols, rows)
  BY DEF Inv
<1>4. DOMAIN f = 0 .. rows - 1 /\ \A j \in 0 .. rows - 1 : Good(scr, f[j], cols)
  BY <1>2, <1>3, Bounds, FittedKeeps
<1> HIDE DEF f
<1>5. DOMAIN t.kept = {}
  BY <1>1 DEF NoRows
<1>6. t.above # NoRow => Stored(scr, t.above)
  BY <1>1 DEF Inv, Screen
<1>7. Screen(t, cols, rows)
  BY <1>1, <1>3, <1>4, <1>5, <1>6, Bounds, OtherRows
<1> QED BY <1>7, CompactedKeeps

LEMMA TakenIs ==
  ASSUME Inv, scr.above # NoRow
  PROVE  /\ IsScreen(Taken(scr)) /\ SameTable(scr, Taken(scr)) /\ Taken(scr).above = NoRow
         /\ Taken(scr).kept = scr.kept
         /\ \A j \in DOMAIN Taken(scr).visible : Stored(scr, Taken(scr).visible[j])
<1> DEFINE t == Taken(scr)
           f == [j \in 0 .. rows |-> IF j = 0 THEN scr.above ELSE scr.visible[j - 1]]
<1>1. t = [e \in Fields |-> IF e = "above" THEN NoRow ELSE IF e = "fresh" THEN FALSE
                            ELSE IF e = "visible" THEN f ELSE scr[e]]
  BY DEF Taken, Inv, Screen, IsScreen, Fields
<1> HIDE DEF t
<1>2. IsScreen(t)
  BY <1>1 DEF IsScreen
<1>3. t.visible = f /\ t.above = NoRow /\ t.kept = scr.kept /\ SameTable(scr, t)
  BY <1>1 DEF Fields, SameTable
<1>4. DOMAIN f = 0 .. rows /\ f[0] = scr.above
      /\ \A j \in 0 .. rows : j # 0 => j - 1 \in 0 .. rows - 1 /\ f[j] = scr.visible[j - 1]
  BY Bounds
<1> HIDE DEF f
<1>5. \A j \in 0 .. rows - 1 : Stored(scr, scr.visible[j])
  BY Bounds DEF Inv, Screen, Stored
<1>6. Stored(scr, scr.above)
  BY DEF Inv, Screen
<1> QED BY <1>2, <1>3, <1>4, <1>5, <1>6 DEF t

LEMMA ResizedIs ==
  ASSUME Inv, NEW n \in Nat \ {0}, NEW m \in Nat \ {0}, NEW s,
         s = scr \/ (s = Taken(scr) /\ scr.above # NoRow)
  PROVE  Screen([s EXCEPT !.visible = Fitted(@, n, m)], n, m)
<1> DEFINE f == Fitted(s.visible, n, m)
           t == Window(s, f)
<1>1. IsScreen(s) /\ SameTable(scr, s) /\ (s.above = NoRow \/ s.above = scr.above) /\ s.kept = scr.kept
      /\ \A j \in DOMAIN s.visible : Stored(scr, s.visible[j])
  <2>1. CASE s = scr
    BY <2>1, RowsAreStored DEF Inv, SameTable, Screen
  <2>2. CASE s = Taken(scr) /\ scr.above # NoRow
    BY <2>2, TakenIs
  <2> QED BY <2>1, <2>2
<1>2. Screen(scr, cols, rows)
  BY DEF Inv
<1>3. DOMAIN f = 0 .. m - 1 /\ \A j \in 0 .. m - 1 : Good(scr, f[j], n)
  BY <1>1, <1>2, FittedKeeps
<1>4. [s EXCEPT !.visible = Fitted(@, n, m)] = t
  BY DEF Window
<1> HIDE DEF f
<1>5. IsScreen(t) /\ SameTable(s, t) /\ t.visible = f /\ t.above = s.above /\ t.kept = s.kept
  BY <1>1, WindowSet
<1> HIDE DEF t
<1>6. SameTable(scr, t)
  BY <1>1, <1>5 DEF SameTable
<1>7. (t.above # NoRow => Stored(scr, t.above)) /\ \A j \in DOMAIN t.kept : Stored(scr, t.kept[j])
  BY <1>1, <1>2, <1>5 DEF Screen
<1>8. Screen(t, n, m)
  BY <1>2, <1>3, <1>5, <1>6, <1>7, OtherRows
<1> QED BY <1>4, <1>8

-----------------------------------------------------------------------------
(* Every step keeps it.                                                       *)

LEMMA InitHolds == Init => Inv
<1> SUFFICES ASSUME Init PROVE Inv
  OBVIOUS
<1>1. cols \in Nat \ {0} /\ rows \in Nat \ {0} /\ style \in Ink /\ program \in Programs /\ wrap = FALSE
  BY PaintAssumption DEF Init, Ink
<1>2. x \in 0 .. cols - 1 /\ y \in 0 .. rows - 1 /\ region \in Regions
  BY <1>1 DEF Init, Regions, Whole
<1>3. Screen(scr, cols, rows)
  BY <1>1, NewScreenIs DEF Init
<1> QED BY <1>1, <1>2, <1>3 DEF Inv

\* What the next state needs when the window keeps its size.
LEMMA SameWindow ==
  ASSUME Inv, program' = program, cols' = cols, rows' = rows,
         x' \in 0 .. cols - 1, y' \in 0 .. rows - 1, wrap' \in BOOLEAN,
         region' \in Regions, style' \in Ink, Screen(scr', cols, rows)
  PROVE  Inv'
<1>1. Regions' = Regions
  BY DEF Regions
<1>2. Screen(scr, cols, rows)' <=> Screen(scr', cols, rows)
  BY DEF Screen, Good, CellOk, Stored, Table
<1> QED BY <1>1, <1>2 DEF Inv

\* The printed character, and the command of the current style.
LEMMA AdvanceKeeps ==
  ASSUME Inv, NEW i \in 0 .. cols - 1, NEW j \in 0 .. rows - 1, NEW w \in {1, 2}, Advance(i, j, w),
         Screen(scr', cols, rows)
  PROVE  Inv'
<1>1. x' \in 0 .. cols - 1 /\ y' \in 0 .. rows - 1 /\ wrap' \in BOOLEAN
      /\ UNCHANGED <<program, cols, rows, region, style>>
  BY Bounds DEF Advance
<1> QED BY <1>1, SameWindow DEF Inv

LEMMA RedrawnKeeps ==
  ASSUME Inv, NEW f, Redrawn(f), wrap' \in BOOLEAN, DOMAIN f = 0 .. rows - 1,
         \A j \in 0 .. rows - 1 : Good(Interned(scr, style), f[j], cols)
  PROVE  Inv'
<1>1. Screen(scr', cols, rows) /\ UNCHANGED <<program, cols, rows, x, y, region, style>>
  BY RedrawnIs
<1> QED BY <1>1, SameWindow DEF Inv

LEMMA EditedKeeps ==
  ASSUME Inv, NEW a \in RowsFor(cols), Halved(Line) => Halved(a),
         Cells(a) \subseteq Cells(Line) \cup {DefaultCell, Fill}, NEW S,
         Redrawn(Edited(a, S)), wrap' = wrap
  PROVE  Inv'
<1> DEFINE f == Edited(a, S)
<1>1. DOMAIN f = 0 .. rows - 1 /\ \A j \in 0 .. rows - 1 : Good(Interned(scr, style), f[j], cols)
  BY EditedIs
<1>2. Redrawn(f) /\ wrap' \in BOOLEAN
  BY DEF Inv
<1> HIDE DEF f
<1> QED BY <1>1, <1>2, RedrawnKeeps

LEMMA StepHolds == Inv /\ [Next]_vars => Inv'
<1> SUFFICES ASSUME Inv, [Next]_vars PROVE Inv'
  OBVIOUS
<1>a. /\ program \in Programs
      /\ x \in 0 .. cols - 1 /\ y \in 0 .. rows - 1 /\ wrap \in BOOLEAN
      /\ region \in Regions /\ style \in Ink /\ Screen(scr, cols, rows)
  BY DEF Inv
<1>b. /\ cols \in Nat \ {0} /\ rows \in Nat \ {0}
      /\ 0 \in 0 .. cols - 1 /\ 0 \in 0 .. rows - 1 /\ Whole(rows) \in Regions
  BY Bounds
<1>c. Style \subseteq Ink
  BY <1>a, StyleIsInk
<1>1. CASE PrintNarrow
  <2>1. Screen(Written(Start.s, StartX, Start.y, 1), cols, rows)
    <3> DEFINE s == Start.s
               i == StartX
               j == Start.y
    <3>1. Screen(s, cols, rows) /\ i \in 0 .. cols - 1 /\ j \in 0 .. rows - 1
      BY StartIs
    <3>2. 1 \in {1, 2} /\ (1 = 2 => i + 1 \in 0 .. cols - 1)
      OBVIOUS
    <3> HIDE DEF s, i, j
    <3>3. Screen(Written(s, i, j, 1), cols, rows)
      BY <3>1, <3>2, WrittenKeeps
    <3> QED BY <3>3 DEF s, i, j
  <2> QED BY <1>1, <2>1, StartIs, AdvanceKeeps DEF PrintNarrow
<1>2. CASE PrintWide
  <2>1. StartX + 1 \in 0 .. cols - 1
    BY <1>b, <1>2, StartIs DEF PrintWide
  <2>2. Screen(scr', cols, rows)
    BY <1>2, <2>1, StartIs, WrittenKeeps DEF PrintWide
  <2> QED BY <1>2, <2>2, StartIs, AdvanceKeeps DEF PrintWide
<1>3. CASE PrintWideNowhere
  <2>1. Screen(scr', cols, rows) /\ x' \in 0 .. cols - 1 /\ y' \in 0 .. rows - 1 /\ wrap' \in BOOLEAN
        /\ UNCHANGED <<program, cols, rows, region, style>>
    BY <1>3, StartIs DEF PrintWideNowhere
  <2> QED BY <1>a, <2>1, SameWindow
<1>4. CASE PrintWideAtMargin
  <2> DEFINE next == Fed(Margin(Start.s, Start.y), Start.y)
  <2>1. Screen(next.s, cols, rows) /\ next.y \in 0 .. rows - 1
    BY StartIs, MarginKeeps, FedKeeps
  <2>2. 0 \in 0 .. cols - 1 /\ 0 + 1 \in 0 .. cols - 1
    BY <1>b, <1>4 DEF PrintWideAtMargin
  <2>3. scr' = Written(next.s, 0, next.y, 2) /\ Advance(0, next.y, 2)
    BY <1>4 DEF PrintWideAtMargin
  <2> HIDE DEF next
  <2>4. Screen(scr', cols, rows)
    BY <2>1, <2>2, <2>3, WrittenKeeps
  <2> QED BY <2>1, <2>2, <2>3, <2>4, AdvanceKeeps
<1>5. CASE LineFeed
  <2>1. Screen(Fed(scr, y).s, cols, rows) /\ Fed(scr, y).y \in 0 .. rows - 1
    BY <1>a, FedKeeps
  <2>2. Screen(scr', cols, rows) /\ x' \in 0 .. cols - 1 /\ y' \in 0 .. rows - 1 /\ wrap' \in BOOLEAN
        /\ UNCHANGED <<program, cols, rows, region, style>>
    BY <1>a, <1>b, <1>5, <2>1 DEF LineFeed
  <2> QED BY <1>a, <2>2, SameWindow
<1>6. CASE ReverseIndex
  <2>1. Screen(scr', cols, rows)
    BY <1>a, <1>6, ScrolledDownKeeps DEF ReverseIndex
  <2>2. y' \in 0 .. rows - 1
    BY <1>a, <1>b, <1>6 DEF ReverseIndex
  <2>3. UNCHANGED <<program, cols, rows, x, wrap, region, style>>
    BY <1>6 DEF ReverseIndex
  <2> QED BY <1>a, <2>1, <2>2, <2>3, SameWindow
<1>7. CASE ScrollLine
  <2>1. Screen(scr', cols, rows) /\ UNCHANGED <<program, cols, rows, x, y, wrap, region, style>>
    BY <1>a, <1>7, ScrolledUpKeeps, ScrolledDownKeeps DEF ScrollLine
  <2> QED BY <1>a, <2>1, SameWindow
<1>8. CASE Align
  <2>1. scr' = Window(scr, Blank(cols, rows))
    BY <1>8 DEF Align, Window
  <2>2. Screen(scr', cols, rows)
    BY <1>a, <1>b, <2>1, BlankIs, OtherWindow
  <2>3. x' = 0 /\ y' = 0 /\ wrap' = FALSE /\ region' = Whole(rows) /\ UNCHANGED <<program, cols, rows, style>>
    BY <1>8 DEF Align
  <2> QED BY <1>a, <1>b, <2>2, <2>3, SameWindow
<1>9. CASE SetStyle
  <2>1. style' \in Ink /\ UNCHANGED <<program, cols, rows, x, y, wrap, region, scr>>
    BY <1>c, <1>9 DEF SetStyle
  <2> QED BY <1>a, <2>1, SameWindow
<1>10. CASE MoveCursor
  <2>1. x' \in 0 .. cols - 1 /\ y' \in 0 .. rows - 1 /\ wrap' = FALSE
        /\ UNCHANGED <<program, cols, rows, region, style, scr>>
    BY <1>10 DEF MoveCursor
  <2> QED BY <1>a, <2>1, SameWindow
<1>11. CASE SetRegion
  <2>1. region' \in Regions /\ x' = 0 /\ y' \in {0, region'.top} /\ wrap' = FALSE
        /\ UNCHANGED <<program, cols, rows, style, scr>>
    BY <1>11 DEF SetRegion
  <2>2. y' \in 0 .. rows - 1
    BY <1>b, <2>1 DEF Regions
  <2> QED BY <1>a, <1>b, <2>1, <2>2, SameWindow
<1>12. CASE RestoreCursor
  <2>1. x' \in 0 .. cols - 1 /\ y' \in 0 .. rows - 1 /\ wrap' \in BOOLEAN /\ style' \in Ink
        /\ UNCHANGED <<program, cols, rows, region, scr>>
    BY <1>c, <1>12 DEF RestoreCursor, SavedCursor
  <2> QED BY <1>a, <2>1, SameWindow
<1>13. CASE EraseLine
  <2>1. PICK range \in {<<0, x + 1>>, <<0, cols>>} \cup ({x} \X (x + 1 .. cols)) :
           Redrawn(Edited(ErasedCells(Line, range[1], range[2], Fill), {}))
    BY <1>13 DEF EraseLine
  <2>2. range[1] \in 0 .. cols - 1 /\ range[2] \in range[1] + 1 .. cols
    BY <1>a, <1>b
  <2> DEFINE a == ErasedCells(Line, range[1], range[2], Fill)
  <2>3. a \in RowsFor(cols) /\ Cells(a) \subseteq Cells(Line) \cup {DefaultCell, Fill}
    BY <1>b, LineIs, ErasedCellsCells
  <2>4. Halved(Line) => Halved(a)
    BY <1>b, <2>2, LineIs, ErasedKeeps
  <2>5. wrap' = wrap
    BY <1>13 DEF EraseLine
  <2> HIDE DEF a
  <2> QED BY <2>1, <2>3, <2>4, <2>5, EditedKeeps DEF a
<1>14. CASE EraseDisplay
  <2>1. wrap' = wrap
    BY <1>14 DEF EraseDisplay
  <2>2. CASE Redrawn(Edited(ErasedCells(Line, x, cols, Fill), y + 1 .. rows - 1))
    <3> DEFINE a == ErasedCells(Line, x, cols, Fill)
    <3>1. a \in RowsFor(cols) /\ Cells(a) \subseteq Cells(Line) \cup {DefaultCell, Fill}
      BY <1>b, LineIs, ErasedCellsCells
    <3>2. x \in 0 .. cols - 1 /\ cols \in x + 1 .. cols
      BY <1>a, <1>b
    <3>3. Halved(Line) => Halved(a)
      BY <1>b, <3>2, LineIs, ErasedKeeps
    <3>4. Redrawn(Edited(a, y + 1 .. rows - 1))
      BY <2>2
    <3> HIDE DEF a
    <3> QED BY <2>1, <3>1, <3>3, <3>4, EditedKeeps
  <2>3. CASE Redrawn(Edited(ErasedCells(Line, 0, x + 1, Fill), 0 .. y - 1))
    <3> DEFINE a == ErasedCells(Line, 0, x + 1, Fill)
    <3>1. a \in RowsFor(cols) /\ Cells(a) \subseteq Cells(Line) \cup {DefaultCell, Fill}
      BY <1>b, LineIs, ErasedCellsCells
    <3>2. 0 \in 0 .. cols - 1 /\ x + 1 \in 0 + 1 .. cols
      BY <1>a, <1>b
    <3>3. Halved(Line) => Halved(a)
      BY <1>b, <3>2, LineIs, ErasedKeeps
    <3>4. Redrawn(Edited(a, 0 .. y - 1))
      BY <2>3
    <3> HIDE DEF a
    <3> QED BY <2>1, <3>1, <3>3, <3>4, EditedKeeps
  <2>4. CASE Redrawn(Edited(Line, 0 .. rows - 1))
    BY <2>1, <2>4, LineIs, EditedKeeps
  <2> QED BY <1>14, <2>2, <2>3, <2>4 DEF EraseDisplay
<1>15. CASE EraseAbove
  <2> DEFINE t == Interned(scr, style)
  <2>1. Screen(t, cols, rows)
    BY <1>a, InternedKeeps
  <2>2. scr' = [t EXCEPT !.above = NoRow, !.fresh = FALSE]
    BY <1>15 DEF EraseAbove
  <2> HIDE DEF t
  <2>3. Screen(scr', cols, rows)
    BY <2>1, <2>2, OtherAbove
  <2>4. UNCHANGED <<program, cols, rows, x, y, wrap, region, style>>
    BY <1>15 DEF EraseAbove
  <2> QED BY <1>a, <2>3, <2>4, SameWindow
<1>16. CASE DeleteCharacters
  <2>1. PICK n \in 1 .. cols - x : Redrawn(Edited(Deleted(Line, x, n, Fill), {}))
    BY <1>16 DEF DeleteCharacters
  <2> DEFINE a == Deleted(Line, x, n, Fill)
  <2>2. a \in RowsFor(cols) /\ Cells(a) \subseteq Cells(Line) \cup {DefaultCell, Fill}
    BY <1>a, <1>b, LineIs, DeletedCells
  <2>3. Halved(Line) => Halved(a)
    BY <1>a, <1>b, LineIs, DeletedKeeps
  <2>4. wrap' = wrap
    BY <1>16 DEF DeleteCharacters
  <2> HIDE DEF a
  <2> QED BY <2>1, <2>2, <2>3, <2>4, EditedKeeps DEF a
<1>17. CASE InsertCharacters
  <2>1. PICK n \in 1 .. cols - x : Redrawn(Edited(Inserted(Line, x, n, Fill), {}))
    BY <1>17 DEF InsertCharacters
  <2> DEFINE a == Inserted(Line, x, n, Fill)
  <2>2. a \in RowsFor(cols) /\ Cells(a) \subseteq Cells(Line) \cup {DefaultCell, Fill}
    BY <1>a, <1>b, LineIs, InsertedCells
  <2>3. Halved(Line) => Halved(a)
    BY <1>a, <1>b, LineIs, InsertedKeeps
  <2>4. wrap' = wrap
    BY <1>17 DEF InsertCharacters
  <2> HIDE DEF a
  <2> QED BY <2>1, <2>2, <2>3, <2>4, EditedKeeps DEF a
<1>18. CASE MoveLines
  <2>1. PICK n \in 1 .. region.bottom - y + 1, dir \in {1, -1} :
           Redrawn(Shifted(scr.visible, y, region.bottom, dir * n, RowOf(cols, Fill)))
    BY <1>18 DEF MoveLines
  <2> DEFINE t == Interned(scr, style)
             blank == RowOf(cols, Fill)
             by == dir * n
             f == Shifted(t.visible, y, region.bottom, by, blank)
  <2>2. Screen(t, cols, rows) /\ t.visible = scr.visible
    BY <1>a, InternedKeeps DEF SameRows
  <2>3. Good(t, blank, cols)
    BY <1>b, <2>2, BlankIsGood DEF Fill
  <2>4. y \in Nat /\ region.bottom \in 0 .. rows - 1 /\ by \in Int
    <3>1. region.bottom \in 0 .. rows - 1 /\ y \in Nat /\ n \in Int
      BY <1>a, Bounds
    <3>2. (dir = 1 => by = n) /\ (dir = -1 => by = -n)
      BY <3>1
    <3> QED BY <3>1, <3>2
  <2>5. Redrawn(f)
    BY <2>1, <2>2
  <2> HIDE DEF t, blank, by
  <2>6. DOMAIN f = 0 .. rows - 1 /\ \A j \in 0 .. rows - 1 : Good(t, f[j], cols)
    BY <2>2, <2>3, <2>4, ShiftedKeeps
  <2>7. wrap' \in BOOLEAN
    BY <1>18 DEF MoveLines
  <2> HIDE DEF f
  <2> QED BY <2>5, <2>6, <2>7, RedrawnKeeps DEF t
<1>19. CASE EnterAlt
  <2>1. Screen(scr', cols, rows)
    BY <1>19, EnteredIs DEF EnterAlt
  <2>2. x' = 0 /\ y' = 0 /\ wrap' = FALSE /\ region' = Whole(rows) /\ UNCHANGED <<program, cols, rows, style>>
    BY <1>19 DEF EnterAlt
  <2> QED BY <1>a, <1>b, <2>1, <2>2, SameWindow
<1>20. CASE ExitAlt
  <2>1. Screen(scr', cols, rows)
    BY <1>20, ExitedIs DEF ExitAlt
  <2>2. x' \in 0 .. cols - 1 /\ y' \in 0 .. rows - 1 /\ wrap' \in BOOLEAN /\ style' \in Ink
        /\ region' \in Regions /\ UNCHANGED <<program, cols, rows>>
    BY <1>a, <1>c, <1>20 DEF ExitAlt, SavedCursor
  <2> QED BY <2>1, <2>2, SameWindow
<1>21. CASE Reset
  <2>1. Screen(scr', cols, rows)
    BY <1>b, <1>21, NewScreenIs DEF Reset
  <2>2. x' = 0 /\ y' = 0 /\ wrap' = FALSE /\ region' = Whole(rows) /\ style' \in Ink
        /\ UNCHANGED <<program, cols, rows>>
    BY <1>21 DEF Reset, Ink
  <2> QED BY <1>b, <2>1, <2>2, SameWindow
<1>22. CASE Resize
  <2>1. cols' \in Nat \ {0} /\ rows' \in Nat \ {0}
    BY <1>a, <1>22, PaintAssumption DEF Resize
  <2>2. x' \in 0 .. cols' - 1 /\ y' \in 0 .. rows' - 1 /\ wrap' = FALSE /\ region' = Whole(rows')
        /\ UNCHANGED <<program, style>>
    BY <1>a, <1>b, <1>22, <2>1 DEF Resize, Clamped
  <2>3. region' \in Regions'
    <3>1. Regions' = {r \in [top : 0 .. rows' - 1, bottom : 0 .. rows' - 1] :
                        r.top <= r.bottom}
      BY DEF Regions
    <3>2. region' = [top |-> 0, bottom |-> rows' - 1]
      BY <2>2 DEF Whole
    <3>3. 0 \in 0 .. rows' - 1 /\ rows' - 1 \in 0 .. rows' - 1 /\ 0 <= rows' - 1
      <4>1. \A m \in Nat \ {0} : 0 \in 0 .. m - 1 /\ m - 1 \in 0 .. m - 1 /\ 0 <= m - 1
        OBVIOUS
      <4> QED BY <2>1, <4>1, Zenon
    <3>4. region' \in [top : 0 .. rows' - 1, bottom : 0 .. rows' - 1]
      BY <3>2, <3>3
    <3>5. region'.top <= region'.bottom
      BY <3>2, <3>3
    <3> QED BY <3>1, <3>4, <3>5
  <2>4. Screen(scr', cols', rows')
    <3> DEFINE s == IF ~scr.alt /\ rows' > rows /\ scr.above # NoRow THEN Taken(scr) ELSE scr
    <3>1. scr' = [s EXCEPT !.visible = Fitted(@, cols', rows')]
      BY <1>22 DEF Resize
    <3>2. s = scr \/ (s = Taken(scr) /\ scr.above # NoRow)
      OBVIOUS
    <3> HIDE DEF s
    <3> QED BY <2>1, <3>1, <3>2, ResizedIs
  <2>5. Screen(scr, cols, rows)' <=> Screen(scr', cols', rows')
    BY DEF Screen, Good, CellOk, Stored, Table
  <2> QED BY <1>a, <2>2, <2>3, <2>4, <2>5 DEF Inv
<1>23. CASE Render
  <2>1. scr' = [scr EXCEPT !.above = scr.above, !.fresh = FALSE]
    BY <1>a, <1>23 DEF Render, Screen, IsScreen, Fields
  <2>2. scr.above # NoRow => Stored(scr, scr.above)
    BY <1>a DEF Screen
  <2>3. Screen(scr', cols, rows)
    BY <1>a, <2>1, <2>2, OtherAbove
  <2>4. UNCHANGED <<program, cols, rows, x, y, wrap, region, style>>
    BY <1>23 DEF Render
  <2> QED BY <1>a, <2>3, <2>4, SameWindow
<1>24. CASE UNCHANGED vars
  <2>1. UNCHANGED <<program, cols, rows, x, y, wrap, region, style, scr>>
    BY <1>24 DEF vars
  <2> QED BY <1>a, <2>1, SameWindow
<1> QED
  BY <1>1, <1>2, <1>3, <1>4, <1>5, <1>6, <1>7, <1>8, <1>9, <1>10, <1>11, <1>12, <1>13,
     <1>14, <1>15, <1>16, <1>17, <1>18, <1>19, <1>20, <1>21, <1>22, <1>23, <1>24 DEF Next

LEMMA Invariant == Spec => []Inv
BY InitHolds, StepHolds, PTL DEF Spec

\* In every row that is kept and in which no wide character was cut at the margin,
\* a second half stands behind a first one, and a first half has its second: for
\* any size of the window, any region and any sequence of commands.
THEOREM WideCharactersStayWhole == Spec => []HalvesTogether
<1>1. Inv => HalvesTogether
  <2> SUFFICES ASSUME Inv, NEW r \in Rows(scr) PROVE r.cut \/ Halved(r.cells)
    BY DEF HalvesTogether, Halved
  <2> QED BY RowsAreStored DEF Inv, Stored, Good, RowOk
<1> QED BY <1>1, Invariant, PTL

\* Whatever slots are collected and given out again, the identifier in a cell
\* that is kept anywhere stands for the style the cell was written with: for any
\* number of slots and of styles.
THEOREM CellsKeepTheirInk == Spec => []InkStays
<1>1. Inv => InkStays
  <2> SUFFICES ASSUME Inv, NEW r \in Rows(scr), NEW i \in DOMAIN r.cells
               PROVE  StyleOf(scr, r.cells[i].id) = r.cells[i].ink
    BY DEF InkStays
  <2>1. r.cells[i] \in Cells(r.cells)
    BY DEF Cells
  <2>2. CellOk(scr, r.cells[i])
    BY <2>1, RowsAreStored DEF Inv, Stored, Good
  <2> QED BY <2>2 DEF CellOk
<1> QED BY <1>1, Invariant, PTL

=============================================================================
