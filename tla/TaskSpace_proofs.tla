---------------------------- MODULE TaskSpace_proofs ----------------------------
(***************************************************************************)
(* Theorems about TaskSpace, for any workspaces, panes, tasks and bounds.  *)
(*                                                                         *)
(* Five invariants, each proved with the help of the ones before it:       *)
(*   TaskInv     types; layouts are sound, of panes that were created, and *)
(*               each task has what its step needs;                        *)
(*   NeverBlank  is inductive given TaskInv;                               *)
(*   Calm        while operations do not overlap: no two tasks are about   *)
(*               one workspace, and what each of them carries agrees with  *)
(*               the stored layout and with the one on the screen;         *)
(*   Owned       while they do not: a pane belongs to one workspace, and   *)
(*               a stored layout has a closed pane only while a task is    *)
(*               there that will take it out;                              *)
(*   Known       while they do not: the layout that a navigation operation *)
(*               takes off the screen is stored, or its workspace has left *)
(*               JJ.                                                       *)
(*                                                                         *)
(* An operation has these kinds of lemmas: ...Fits (TaskInv, and what the  *)
(* step does in terms the others use), ...Calm, ...Owned, ...Known, and    *)
(* ...Placed (a terminal keeps its pane over the step).                    *)
(***************************************************************************)
EXTENDS TaskSpace, Subsequences_proofs

-----------------------------------------------------------------------------
(* Layouts: what the operations of Layout and TaskSpace make of one.          *)

\* A sound layout of panes that were created, but for the strays y.
Fit(s, u, y) == s \in Snapshot /\ Sound(s, y) /\ Panes(s) \subseteq u

LEMMA SnapshotIs ==
  ASSUME NEW s \in Snapshot
  PROVE  /\ s.columns \in Seq(Pane) /\ Len(s.columns) \in Nat /\ DOMAIN s.columns = 1 .. Len(s.columns)
         /\ Panes(s) = {s.columns[i] : i \in 1 .. Len(s.columns)}
         /\ Panes(s) \subseteq Pane /\ IsFiniteSet(Panes(s))
         /\ s # None /\ s.ws \in Workspace /\ s.ws # None /\ s.focus \in Pane \cup {None}
         /\ s.session \in [Pane -> Shell \cup {None}]
<1>1. s.columns \in Seq(Pane) /\ s.ws \in Workspace /\ s.focus \in Pane \cup {None}
      /\ s.session \in [Pane -> Shell \cup {None}]
  BY DEF Snapshot
<1>2. Len(s.columns) \in Nat /\ DOMAIN s.columns = 1 .. Len(s.columns)
  BY <1>1, LenProperties
<1>3. Panes(s) = {s.columns[i] : i \in 1 .. Len(s.columns)} /\ Panes(s) \subseteq Pane
  <2>1. \A i \in 1 .. Len(s.columns) : s.columns[i] \in Pane
    BY <1>1, <1>2, ElementOfSeq
  <2> QED BY <1>2, <2>1 DEF Panes, ToSet
<1>4. IsFiniteSet(Panes(s))
  <2> DEFINE c == s.columns
             f == [i \in 1 .. Len(c) |-> c[i]]
  <2>1. IsFiniteSet(1 .. Len(c))
    BY <1>2, FS_Interval
  <2>2. f \in Surjection(1 .. Len(c), Panes(s))
    <3> HIDE DEF c
    <3>1. Panes(s) = {c[i] : i \in 1 .. Len(c)}
      BY <1>3 DEF c
    <3> QED BY <3>1 DEF Surjection
  <2> QED BY <2>1, <2>2, FS_Surjection
<1>5. s # None /\ s.ws # None
  BY <1>1, NoneAssumption
<1> QED BY <1>1, <1>2, <1>3, <1>4, <1>5

LEMMA FitGrows ==
  ASSUME NEW s, NEW u, NEW y, NEW v, NEW z, Fit(s, u, y), u \subseteq v, y \subseteq z
  PROVE  Fit(s, v, z)
BY DEF Fit, Sound

LEMMA EmptyFits ==
  ASSUME NEW w \in Workspace, NEW u, NEW y
  PROVE  Fit(EmptyLayout(w), u, y) /\ EmptyLayout(w).ws = w /\ Panes(EmptyLayout(w)) = {}
<1>1. EmptyLayout(w) \in Snapshot
  <2>1. <<>> \in Seq(Pane)
    BY EmptySeq
  <2> QED BY <2>1 DEF EmptyLayout, Snapshot
<1>2. EmptyLayout(w).columns = <<>> /\ EmptyLayout(w).focus = None /\ EmptyLayout(w).ws = w
  BY DEF EmptyLayout
<1>3. DOMAIN EmptyLayout(w).columns = {} /\ Panes(EmptyLayout(w)) = {}
  BY <1>2 DEF Panes, ToSet
<1> QED BY <1>1, <1>2, <1>3 DEF Fit, Sound

\* A layout with other columns and another focus.
LEMMA ColumnsFit ==
  ASSUME NEW s \in Snapshot, NEW c \in Seq(Pane), NEW f \in Pane \cup {None}, NEW t, NEW u, NEW y,
         t \in Snapshot, t.columns = c, t.focus = f,
         \A i, j \in 1 .. Len(c) : c[i] = c[j] => i = j,
         f \notin y => IF c = <<>> THEN f = None ELSE \E i \in 1 .. Len(c) : f = c[i],
         \A i \in 1 .. Len(c) : c[i] \in u
  PROVE  Fit(t, u, y)
<1>1. DOMAIN t.columns = 1 .. Len(c) /\ Panes(t) = {c[i] : i \in 1 .. Len(c)}
  BY SnapshotIs
<1> QED BY <1>1 DEF Fit, Sound

LEMMA AddFits ==
  ASSUME NEW s, NEW u, NEW y, Fit(s, u, y), NEW p \in Pane, p \notin u
  PROVE  /\ Fit(AddToLayout(s, p), u \cup {p}, y) /\ AddToLayout(s, p).ws = s.ws
         /\ Panes(AddToLayout(s, p)) = Panes(s) \cup {p}
<1> DEFINE c == s.columns
           d == Append(c, p)
           t == AddToLayout(s, p)
<1>0. s \in Snapshot
  BY DEF Fit
<1>1. c \in Seq(Pane) /\ Len(c) \in Nat /\ DOMAIN c = 1 .. Len(c)
      /\ Panes(s) = {c[i] : i \in 1 .. Len(c)}
  BY <1>0, SnapshotIs
<1>2. t.columns = d /\ t.focus = p /\ t.ws = s.ws /\ t \in Snapshot
  <2>1. d \in Seq(Pane)
    BY <1>1
  <2> HIDE DEF d
  <2>2. t = [s EXCEPT !.columns = d, !.focus = p]
    BY DEF AddToLayout, d
  <2> QED BY <1>0, <2>1, <2>2 DEF Snapshot
<1> HIDE DEF t, c
<1>3. d \in Seq(Pane) /\ Len(d) = Len(c) + 1 /\ d[Len(c) + 1] = p
      /\ \A i \in 1 .. Len(c) : d[i] = c[i]
  BY <1>1, AppendProperties
<1>4. \A i \in 1 .. Len(c) : c[i] \in u /\ c[i] # p
  BY <1>1 DEF Fit
<1>5. \A i, j \in 1 .. Len(c) : c[i] = c[j] => i = j
  BY <1>1 DEF Fit, Sound, c
<1> HIDE DEF d
<1>6. \A i \in 1 .. Len(d) : i = Len(c) + 1 \/ i \in 1 .. Len(c)
  BY <1>1, <1>3
<1>7. Len(c) + 1 \in 1 .. Len(d)
  BY <1>1, <1>3
<1>8. \A i, j \in 1 .. Len(d) : d[i] = d[j] => i = j
  BY <1>3, <1>4, <1>5, <1>6
<1>9. d # <<>>
  BY <1>1, <1>3
<1>10. \A i \in 1 .. Len(d) : d[i] \in u \cup {p}
  BY <1>3, <1>4, <1>6
<1>11. Fit(t, u \cup {p}, y)
  BY <1>0, <1>2, <1>3, <1>7, <1>8, <1>9, <1>10, ColumnsFit
<1>12. Panes(t) = {d[i] : i \in 1 .. Len(d)}
  BY <1>2, SnapshotIs
<1>13. Panes(t) = Panes(s) \cup {p}
  <2>1. \A i \in 1 .. Len(d) : d[i] \in Panes(s) \cup {p}
    BY <1>1, <1>3, <1>6
  <2>2. \A i \in 1 .. Len(c) : i \in 1 .. Len(d)
    BY <1>1, <1>3
  <2>3. \A q \in Panes(s) : \E i \in 1 .. Len(d) : q = d[i]
    BY <1>1, <1>3, <2>2
  <2> QED BY <1>3, <1>7, <1>12, <2>1, <2>3
<1> QED BY <1>2, <1>11, <1>13 DEF t

LEMMA WithoutIs ==
  ASSUME NEW s \in Snapshot, NEW p
  PROVE  LET c == s.columns
             d == Without(c, p)
         IN  /\ d \in Seq(Pane)
             /\ \A k \in 1 .. Len(d) : \E i \in 1 .. Len(c) : c[i] # p /\ d[k] = c[i]
             /\ \A i \in 1 .. Len(c) : c[i] # p => \E k \in 1 .. Len(d) : d[k] = c[i]
             /\ (\A i, j \in 1 .. Len(c) : c[i] = c[j] => i = j)
                  => \A k, l \in 1 .. Len(d) : d[k] = d[l] => k = l
<1> DEFINE c == s.columns
           S == {i \in 1 .. Len(c) : c[i] # p}
<1>1. c \in Seq(Pane) /\ DOMAIN c = 1 .. Len(c)
  BY SnapshotIs
<1>2. Without(c, p) = Pick(c, S) /\ S \in SUBSET (1 .. Len(c))
  BY <1>1 DEF Without
<1> HIDE DEF c
<1>3. Pick(c, S) \in Seq(Pane)
  BY <1>1, PickIsSeq
<1>4. /\ \A k \in 1 .. Len(Pick(c, S)) : \E i \in S : Pick(c, S)[k] = c[i]
      /\ \A i \in S : \E k \in 1 .. Len(Pick(c, S)) : Pick(c, S)[k] = c[i]
      /\ (\A i, j \in 1 .. Len(c) : c[i] = c[j] => i = j)
           => \A k, l \in 1 .. Len(Pick(c, S)) : Pick(c, S)[k] = Pick(c, S)[l] => k = l
  <2> HIDE DEF S
  <2> QED BY <1>1, <1>2, PickKeeps
<1>5. \A k \in 1 .. Len(Pick(c, S)) : \E i \in 1 .. Len(c) : c[i] # p /\ Pick(c, S)[k] = c[i]
  BY <1>4
<1>6. \A i \in 1 .. Len(c) : c[i] # p => \E k \in 1 .. Len(Pick(c, S)) : Pick(c, S)[k] = c[i]
  BY <1>4
<1> HIDE DEF S
<1>7. /\ Without(c, p) \in Seq(Pane)
      /\ \A k \in 1 .. Len(Without(c, p)) : \E i \in 1 .. Len(c) : c[i] # p /\ Without(c, p)[k] = c[i]
      /\ \A i \in 1 .. Len(c) : c[i] # p => \E k \in 1 .. Len(Without(c, p)) : Without(c, p)[k] = c[i]
      /\ (\A i, j \in 1 .. Len(c) : c[i] = c[j] => i = j)
           => \A k, l \in 1 .. Len(Without(c, p)) : Without(c, p)[k] = Without(c, p)[l] => k = l
  BY <1>2, <1>3, <1>4, <1>5, <1>6
<1> QED BY <1>7 DEF c

LEMMA RemoveFits ==
  ASSUME NEW s, NEW u, NEW y, Fit(s, u, y), NEW p \in Pane
  PROVE  /\ Fit(RemoveFromLayout(s, p), u, y) /\ RemoveFromLayout(s, p).ws = s.ws
         /\ Panes(RemoveFromLayout(s, p)) = Panes(s) \ {p}
<1> DEFINE c == s.columns
           d == Without(c, p)
           f == IF s.focus # p THEN s.focus ELSE IF d = <<>> THEN None ELSE d[1]
           t == RemoveFromLayout(s, p)
<1>0. s \in Snapshot
  BY DEF Fit
<1>1. c \in Seq(Pane) /\ Len(c) \in Nat /\ DOMAIN c = 1 .. Len(c)
      /\ Panes(s) = {c[i] : i \in 1 .. Len(c)} /\ s.focus \in Pane \cup {None}
  BY <1>0, SnapshotIs
<1>2. /\ d \in Seq(Pane)
      /\ \A k \in 1 .. Len(d) : \E i \in 1 .. Len(c) : c[i] # p /\ d[k] = c[i]
      /\ \A i \in 1 .. Len(c) : c[i] # p => \E k \in 1 .. Len(d) : d[k] = c[i]
      /\ (\A i, j \in 1 .. Len(c) : c[i] = c[j] => i = j)
           => \A k, l \in 1 .. Len(d) : d[k] = d[l] => k = l
  BY <1>0, WithoutIs
<1>3. /\ \A i, j \in 1 .. Len(c) : c[i] = c[j] => i = j
      /\ s.focus \notin y => IF c = <<>> THEN s.focus = None ELSE s.focus \in Panes(s)
      /\ Panes(s) \subseteq u
  BY <1>1 DEF Fit, Sound
<1>4. d # <<>> => 1 \in 1 .. Len(d)
  <2> HIDE DEF d
  <2>1. Len(d) \in Nat /\ (Len(d) = 0 => d = <<>>)
    BY <1>2, LenProperties, EmptySeq
  <2> QED BY <2>1
<1>5. f \in Pane \cup {None}
  <2> HIDE DEF d
  <2>1. d # <<>> => d[1] \in Pane
    BY <1>2, <1>4, ElementOfSeq
  <2> QED BY <1>1, <2>1
<1>6. t.columns = d /\ t.focus = f /\ t.ws = s.ws /\ t \in Snapshot
  <2> HIDE DEF d
  <2>1. t = [s EXCEPT !.columns = d, !.focus = f, !.session[p] = None]
    BY DEF RemoveFromLayout, d
  <2>2. [s.session EXCEPT ![p] = None] \in [Pane -> Shell \cup {None}]
    BY <1>0, SnapshotIs
  <2> HIDE DEF f
  <2> QED BY <1>0, <1>2, <1>5, <2>1, <2>2 DEF Snapshot
<1> HIDE DEF t, d, c
<1>7. \A k \in 1 .. Len(d) : d[k] \in Panes(s) /\ d[k] # p
  BY <1>1, <1>2
<1>8. f \notin y => IF d = <<>> THEN f = None ELSE \E k \in 1 .. Len(d) : f = d[k]
  <2> SUFFICES ASSUME f \notin y
               PROVE  IF d = <<>> THEN f = None ELSE \E k \in 1 .. Len(d) : f = d[k]
    OBVIOUS
  <2>1. CASE s.focus = p
    BY <1>4, <2>1
  <2>2. CASE s.focus # p /\ s.focus = None
    <3>1. c = <<>>
      BY <1>1, <1>3, <2>2, NoneAssumption DEF Fit
    <3>2. Len(c) = 0
      BY <3>1
    <3>3. d = <<>>
      BY <1>2, <1>4, <3>2
    <3> QED BY <2>2, <3>3
  <2>3. CASE s.focus # p /\ s.focus # None
    <3>1. PICK i \in 1 .. Len(c) : s.focus = c[i]
      BY <1>1, <1>3, <2>3
    <3>2. PICK k \in 1 .. Len(d) : d[k] = c[i]
      BY <1>2, <2>3, <3>1
    <3>3. d # <<>>
      <4>1. Len(<<>>) = 0
        OBVIOUS
      <4> QED BY <3>2, <4>1
    <3> QED BY <2>3, <3>1, <3>2, <3>3
  <2> QED BY <2>1, <2>2, <2>3
<1> HIDE DEF f
<1>9. Fit(t, u, y)
  <2>1. d \in Seq(Pane) /\ \A k, l \in 1 .. Len(d) : d[k] = d[l] => k = l
    BY <1>2, <1>3
  <2>2. \A k \in 1 .. Len(d) : d[k] \in u
    BY <1>3, <1>7
  <2> QED BY <1>5, <1>6, <1>8, <2>1, <2>2, ColumnsFit
<1>10. Panes(t) = Panes(s) \ {p}
  <2>1. Panes(t) = {d[k] : k \in 1 .. Len(d)}
    BY <1>6, SnapshotIs
  <2>2. \A q \in Panes(s) : q # p => \E k \in 1 .. Len(d) : q = d[k]
    <3> SUFFICES ASSUME NEW q \in Panes(s), q # p PROVE \E k \in 1 .. Len(d) : q = d[k]
      OBVIOUS
    <3>1. PICK i \in 1 .. Len(c) : q = c[i]
      BY <1>1
    <3> QED BY <1>2, <3>1
  <2> QED BY <1>7, <2>1, <2>2
<1> QED BY <1>6, <1>9, <1>10 DEF t

\* Another focus, other sessions or another workspace.
LEMMA SameColumns ==
  ASSUME NEW s, NEW t, NEW u, NEW y, Fit(s, u, y), t \in Snapshot, t.columns = s.columns,
         t.focus = s.focus \/ t.focus \in Panes(s) \cup y
  PROVE  Fit(t, u, y) /\ Panes(t) = Panes(s)
<1>1. Panes(t) = Panes(s)
  BY DEF Panes
<1>2. s.columns = <<>> => Panes(s) = {}
  BY DEF Panes, ToSet
<1> QED BY <1>1, <1>2 DEF Fit, Sound

LEMMA FocusFits ==
  ASSUME NEW s, NEW u, NEW y, Fit(s, u, y), NEW z, y \subseteq z,
         NEW p \in Pane, p \in Panes(s) \cup z
  PROVE  /\ Fit([s EXCEPT !.focus = p], u, z) /\ [s EXCEPT !.focus = p].ws = s.ws
         /\ [s EXCEPT !.focus = p].columns = s.columns
<1>1. Fit(s, u, z)
  BY FitGrows
<1>2. s \in Snapshot
  BY DEF Fit
<1>3. [s EXCEPT !.focus = p] \in Snapshot
  BY <1>2 DEF Snapshot
<1>4. /\ [s EXCEPT !.focus = p].ws = s.ws /\ [s EXCEPT !.focus = p].columns = s.columns
      /\ [s EXCEPT !.focus = p].focus = p
  BY <1>2 DEF Snapshot
<1> QED BY <1>1, <1>3, <1>4, SameColumns

LEMMA SessionsFit ==
  ASSUME NEW s, NEW u, NEW y, Fit(s, u, y), NEW f \in [Pane -> Shell \cup {None}]
  PROVE  /\ Fit([s EXCEPT !.session = f], u, y) /\ [s EXCEPT !.session = f].ws = s.ws
         /\ [s EXCEPT !.session = f].columns = s.columns
         /\ [s EXCEPT !.session = f].focus = s.focus
<1>2. s \in Snapshot
  BY DEF Fit
<1>3. [s EXCEPT !.session = f] \in Snapshot
  BY <1>2 DEF Snapshot
<1>4. /\ [s EXCEPT !.session = f].ws = s.ws /\ [s EXCEPT !.session = f].columns = s.columns
      /\ [s EXCEPT !.session = f].focus = s.focus
  BY <1>2 DEF Snapshot
<1> QED BY <1>3, <1>4, SameColumns

LEMMA WorkspaceFits ==
  ASSUME NEW s, NEW u, NEW y, Fit(s, u, y), NEW w \in Workspace
  PROVE  /\ Fit([s EXCEPT !.ws = w], u, y) /\ [s EXCEPT !.ws = w].ws = w
         /\ [s EXCEPT !.ws = w].columns = s.columns
<1>2. s \in Snapshot
  BY DEF Fit
<1>3. [s EXCEPT !.ws = w] \in Snapshot
  BY <1>2 DEF Snapshot
<1>4. /\ [s EXCEPT !.ws = w].ws = w /\ [s EXCEPT !.ws = w].columns = s.columns
      /\ [s EXCEPT !.ws = w].focus = s.focus
  BY <1>2 DEF Snapshot
<1> QED BY <1>3, <1>4, SameColumns

LEMMA NavigationFits ==
  ASSUME NEW s \in Snapshot
  PROVE  NavigationTargets(s) \subseteq Panes(s)
<1>1. DOMAIN s.columns = 1 .. Len(s.columns) /\ Panes(s) = {s.columns[i] : i \in 1 .. Len(s.columns)}
  BY SnapshotIs
<1> QED BY <1>1 DEF NavigationTargets

-----------------------------------------------------------------------------
(* Terminals.                                                                 *)

LiveFits(lives) ==
  /\ lives \in [Key -> Shell \cup {None}]
  /\ \A key \in Key : lives[key] # None => key[2] \in Terminal /\ lives[key][2] = key[2]

LEMMA AdoptFits ==
  ASSUME NEW s, NEW u, NEW y, Fit(s, u, y), NEW w \in Workspace
  PROVE  /\ Fit(Adopt(w, s), u, y) /\ Adopt(w, s).ws = s.ws /\ Adopt(w, s).columns = s.columns
         /\ Adopt(w, s) # None
<1> DEFINE f == [p \in Pane |-> IF p \in Terminals(s) /\ s.session[p] = None THEN <<w, p>> ELSE s.session[p]]
<1>1. s \in Snapshot /\ s.session \in [Pane -> Shell \cup {None}]
  BY SnapshotIs DEF Fit
<1>2. f \in [Pane -> Shell \cup {None}]
  BY <1>1 DEF Shell
<1>3. Adopt(w, s) = [s EXCEPT !.session = f]
  BY DEF Adopt
<1> HIDE DEF f
<1>4. Fit(Adopt(w, s), u, y)
  BY <1>2, <1>3, SessionsFit
<1>5. Adopt(w, s).ws = s.ws /\ Adopt(w, s).columns = s.columns
  BY <1>2, <1>3, SessionsFit
<1>6. Adopt(w, s) # None
  BY <1>4, SnapshotIs DEF Fit
<1> QED BY <1>4, <1>5, <1>6

LEMMA SyncFits ==
  ASSUME NEW s, NEW u, NEW y, Fit(s, u, y), NEW w \in Workspace, NEW got, NEW lives, LiveFits(lives)
  PROVE  /\ Fit(Sync(w, s, got, lives), u, y) /\ Sync(w, s, got, lives).ws = s.ws
         /\ Sync(w, s, got, lives).columns = s.columns
<1> DEFINE f == [p \in Pane |-> IF p \in got THEN lives[<<w, p>>] ELSE s.session[p]]
<1>1. s \in Snapshot /\ s.session \in [Pane -> Shell \cup {None}]
  BY SnapshotIs DEF Fit
<1>2. f \in [Pane -> Shell \cup {None}]
  BY <1>1 DEF LiveFits, Key
<1>3. Sync(w, s, got, lives) = [s EXCEPT !.session = f]
  BY DEF Sync
<1> HIDE DEF f
<1> QED BY <1>2, <1>3, SessionsFit

\* The terminals that start.
LEMMA EnsureLiveFits ==
  ASSUME NEW w \in Workspace, NEW s, NEW u, NEW y, Fit(s, u, y), NEW lives, LiveFits(lives), NEW fails,
         fails \subseteq Workspace \X Terminal, faults \in 0 .. MaxFaults, shells \subseteq Shell,
         EnsureLive(w, s, lives, fails)
  PROVE  /\ LiveFits(live') /\ failed' \subseteq Workspace \X Terminal
         /\ faults' \in 0 .. MaxFaults /\ shells' \subseteq Shell
         /\ \A key \in Key : live'[key] # lives[key] =>
              /\ lives[key] = None /\ live'[key] = key /\ key[1] = w /\ key[2] \in Terminals(s)
<1> DEFINE missing == {<<w, p>> : p \in {p \in Terminals(s) :
                                lives[<<w, p>>] = None /\ <<w, p>> \notin fails}}
<1>1. PICK bad \in SUBSET missing :
       /\ faults' = faults + Cardinality(bad) /\ faults' <= MaxFaults
       /\ live' = [key \in Key |-> IF key \in missing \ bad THEN key ELSE lives[key]]
       /\ failed' = fails \cup bad
       /\ shells' = shells \cup (missing \ bad)
  BY DEF EnsureLive
<1>2. Terminals(s) \subseteq Pane \cap Terminal /\ IsFiniteSet(Terminals(s))
  <2>1. IsFiniteSet(Panes(s)) /\ Panes(s) \subseteq Pane
    BY SnapshotIs DEF Fit
  <2>2. Terminals(s) \subseteq Panes(s) /\ Terminals(s) \subseteq Terminal
    BY DEF Terminals
  <2>3. IsFiniteSet(Terminals(s))
    BY <2>1, <2>2, FS_Subset
  <2> QED BY <2>1, <2>2, <2>3
<1>3. ASSUME NEW key \in missing
      PROVE  /\ key \in Key /\ key \in Shell /\ key \in Workspace \X Terminal
             /\ key[1] = w /\ key[2] \in Terminals(s) /\ lives[key] = None
             /\ key # None
  <2>1. PICK p \in Terminals(s) : key = <<w, p>> /\ lives[<<w, p>>] = None
    OBVIOUS
  <2>2. key \in Key /\ key \in Shell /\ key \in Workspace \X Terminal
    BY <1>2, <2>1 DEF Key, Shell
  <2> QED BY <2>1, <2>2, NoneAssumption
<1>4. IsFiniteSet(bad) /\ Cardinality(bad) \in Nat
  <2>1. IsFiniteSet({p \in Terminals(s) : lives[<<w, p>>] = None /\ <<w, p>> \notin fails})
    BY <1>2, FS_Subset
  <2>2. IsFiniteSet(missing)
    <3> DEFINE S == {p \in Terminals(s) : lives[<<w, p>>] = None /\ <<w, p>> \notin fails}
               f == [p \in S |-> <<w, p>>]
    <3>1. f \in Surjection(S, missing)
      BY DEF Surjection
    <3> QED BY <2>1, <3>1, FS_Surjection
  <2> QED BY <2>2, FS_Subset, FS_CardinalityType
<1> HIDE DEF missing
<1>5. LiveFits(live')
  <2>1. live' \in [Key -> Shell \cup {None}]
    BY <1>1, <1>3 DEF LiveFits
  <2>2. ASSUME NEW key \in Key, live'[key] # None
        PROVE  key[2] \in Terminal /\ live'[key][2] = key[2]
    <3>1. CASE key \in missing \ bad
      BY <1>1, <1>2, <1>3, <3>1
    <3>2. CASE key \notin missing \ bad
      BY <1>1, <2>2, <3>2 DEF LiveFits
    <3> QED BY <3>1, <3>2
  <2> QED BY <2>1, <2>2 DEF LiveFits
<1>6. failed' \subseteq Workspace \X Terminal /\ shells' \subseteq Shell
  BY <1>1, <1>3
<1>7. faults' \in 0 .. MaxFaults
  BY <1>1, <1>4, TaskSpaceAssumption
<1>8. \A key \in Key : live'[key] # lives[key] =>
              /\ lives[key] = None /\ live'[key] = key /\ key[1] = w /\ key[2] \in Terminals(s)
  BY <1>1, <1>3
<1> QED BY <1>5, <1>6, <1>7, <1>8

\* Besides the lives, only terminals in panes of s are live, for w.
Started(lives, w, s) ==
  \A key \in Key : live'[key] # lives[key] => key[1] = w /\ key[2] \in Panes(s)

\* A loaded layout on the screen.
LEMMA PresentFits ==
  ASSUME NEW w \in Workspace, NEW s, NEW u, NEW y, Fit(s, u, y), NEW lives, LiveFits(lives), NEW fails,
         fails \subseteq Workspace \X Terminal, faults \in 0 .. MaxFaults, shells \subseteq Shell,
         Present(w, s, lives, fails)
  PROVE  /\ LiveFits(live') /\ failed' \subseteq Workspace \X Terminal
         /\ faults' \in 0 .. MaxFaults /\ shells' \subseteq Shell
         /\ Started(lives, w, shown')
         /\ Fit(shown', u, y) /\ shown' # None /\ shown'.ws = s.ws /\ shown'.columns = s.columns
<1>1. EnsureLive(w, s, lives, fails)
  BY DEF Present
<1>2. PICK got \in SUBSET Running(w, s, lives) : shown' = Sync(w, Adopt(w, s), got, lives)
  BY DEF Present
<1>3. Fit(Adopt(w, s), u, y) /\ Adopt(w, s).ws = s.ws /\ Adopt(w, s).columns = s.columns
  BY AdoptFits
<1>4. Fit(shown', u, y) /\ shown'.ws = s.ws /\ shown'.columns = s.columns
  BY <1>2, <1>3, SyncFits
<1>5. shown' # None
  BY <1>4, SnapshotIs DEF Fit
<1> HIDE DEF Present
<1>6. /\ LiveFits(live') /\ failed' \subseteq Workspace \X Terminal
      /\ faults' \in 0 .. MaxFaults /\ shells' \subseteq Shell
      /\ \A key \in Key : live'[key] # lives[key] =>
           /\ lives[key] = None /\ live'[key] = key /\ key[1] = w /\ key[2] \in Terminals(s)
  BY <1>1, EnsureLiveFits
<1>7. Started(lives, w, shown')
  BY <1>4, <1>6 DEF Started, Terminals, Panes
<1> QED BY <1>4, <1>5, <1>6, <1>7

-----------------------------------------------------------------------------
(* Tasks: what the step that a task is at says of the layout it carries.      *)

TaskFit(t, u, y) ==
  /\ t \in Tasks
  /\ t.kind # "flush" /\ t.snap # None => Fit(t.snap, u, y)
  /\ t.kind = "flush" => \A i \in DOMAIN t.batch : Fit(t.batch[i].snap, u, y)
  /\ t.kind = "load" /\ t.step # "read" => t.snap # None
  /\ t.kind = "exit" /\ t.step = "write" => t.snap # None
  /\ t.kind = "reload" =>
       /\ t.op \in {"create", "rename", "forget"} => t.ws \in Workspace
       /\ t.op = "rename" => t.to \in Workspace
       /\ t.step \in {"copy", "commit"} => t.op = "rename"
       /\ t.step \in {"read", "create"} => t.want # None
       /\ t.step \in {"read", "create", "apply"} /\ t.want # None => t.want \in t.list
       /\ t.step = "create" \/ (t.step = "apply" /\ t.want # None) => t.snap # None

LEMMA TaskKinds ==
  ASSUME NEW t \in Tasks
  PROVE  /\ t # None /\ t.kind \in {"load", "save", "exit", "flush", "reload"}
         /\ t.kind = "load" => t \in Loads
         /\ t.kind = "save" => t \in Saves
         /\ t.kind = "exit" => t \in Exits
         /\ t.kind = "flush" => t \in Flushes
         /\ t.kind = "reload" => t \in Reloads
BY TaskAssumption DEF Tasks, Loads, Saves, Exits, Flushes, Reloads

LEMMA LoadFits ==
  ASSUME NEW u, NEW y, NEW t \in Loads, t.snap # None => Fit(t.snap, u, y), t.step # "read" => t.snap # None
  PROVE  TaskFit(t, u, y) /\ t # None
<1>1. t.kind = "load"
  BY DEF Loads
<1>2. t \in Tasks /\ t # None
  BY TaskAssumption DEF Tasks
<1> QED BY <1>1, <1>2 DEF TaskFit

LEMMA SaveFits ==
  ASSUME NEW u, NEW y, NEW s, Fit(s, u, y)
  PROVE  TaskFit(SaveTask(s), u, y) /\ SaveTask(s) # None
<1>1. SaveTask(s) \in Saves
  BY DEF Saves, SaveTask, Fit
<1>2. SaveTask(s) \in Tasks /\ SaveTask(s) # None
  BY <1>1, TaskAssumption DEF Tasks
<1> QED BY <1>2 DEF TaskFit, SaveTask

LEMMA ExitFits ==
  ASSUME NEW u, NEW y, NEW t \in Exits, t.snap # None => Fit(t.snap, u, y), t.step = "write" => t.snap # None
  PROVE  TaskFit(t, u, y) /\ t # None
<1>1. t.kind = "exit"
  BY DEF Exits
<1>2. t \in Tasks /\ t # None
  BY TaskAssumption DEF Tasks
<1> QED BY <1>1, <1>2 DEF TaskFit

LEMMA FlushFits ==
  ASSUME NEW u, NEW y, NEW t \in Flushes, \A i \in DOMAIN t.batch : Fit(t.batch[i].snap, u, y)
  PROVE  TaskFit(t, u, y) /\ t # None
<1>1. t.kind = "flush"
  BY DEF Flushes
<1>2. t \in Tasks /\ t # None
  BY TaskAssumption DEF Tasks
<1> QED BY <1>1, <1>2 DEF TaskFit

\* The fields of a reload, one by one.
LEMMA ReloadFits ==
  ASSUME NEW u, NEW y, NEW t \in Reloads,
         t.snap # None => Fit(t.snap, u, y),
         t.op \in {"create", "rename", "forget"} => t.ws \in Workspace,
         t.op = "rename" => t.to \in Workspace,
         t.step \in {"copy", "commit"} => t.op = "rename",
         t.step \in {"read", "create"} => t.want # None,
         t.step \in {"read", "create", "apply"} /\ t.want # None => t.want \in t.list,
         t.step = "create" \/ (t.step = "apply" /\ t.want # None) => t.snap # None
  PROVE  TaskFit(t, u, y) /\ t # None
<1>1. t.kind = "reload"
  BY DEF Reloads
<1>2. t \in Tasks /\ t # None
  BY TaskAssumption DEF Tasks
<1> QED BY <1>1, <1>2 DEF TaskFit

LEMMA TaskFitGrows ==
  ASSUME NEW t, NEW u, NEW y, NEW v, NEW z, TaskFit(t, u, y), u \subseteq v, y \subseteq z
  PROVE  TaskFit(t, v, z)
BY FitGrows DEF TaskFit

-----------------------------------------------------------------------------
(* The invariant: types, and layouts that fit wherever they are kept.         *)

AppFits ==
  /\ listed \subseteq Workspace /\ active \in Workspace \cup {None}
  /\ active # None => active \in listed
  /\ shown # None => active # None /\ Fit(shown, used, strays)
  /\ LiveFits(live) /\ failed \subseteq Workspace \X Terminal /\ flushing \in BOOLEAN

PendingFits ==
  /\ pending \in Seq(Input)
  /\ \A i \in DOMAIN pending : Fit(pending[i].snap, used, strays)

TasksFit ==
  /\ task \in [Slot -> Tasks \cup {None}]
  /\ \A k \in Slot : task[k] # None => TaskFit(task[k], used, strays)

DiskFits ==
  DOMAIN disk \subseteq Workspace /\ \A w \in DOMAIN disk : Fit(disk[w], used, strays)

WorldFits ==
  /\ kills \subseteq Shell /\ shells \subseteq Shell
  /\ jj \subseteq Workspace /\ rows \subseteq Workspace

HistoryFits ==
  /\ used \subseteq Pane /\ strays \subseteq Pane /\ closed \subseteq Pane
  /\ reloads \in 0 .. MaxReloads
  /\ disturbed \in BOOLEAN /\ faulty \subseteq Workspace /\ faults \in 0 .. MaxFaults

TaskInv == AppFits /\ PendingFits /\ TasksFit /\ DiskFits /\ WorldFits /\ HistoryFits

LEMMA TaskPut ==
  ASSUME TasksFit, used \subseteq used', strays \subseteq strays', NEW k \in Slot, NEW t, t = None \/ TaskFit(t, used', strays'),
         task' = [task EXCEPT ![k] = t]
  PROVE  TasksFit'
<1>1. t \in Tasks \cup {None}
  BY DEF TaskFit
<1>2. task' \in [Slot -> Tasks \cup {None}] /\ task'[k] = t /\ \A j \in Slot : j # k => task'[j] = task[j]
  BY <1>1 DEF TasksFit
<1>3. ASSUME NEW j \in Slot, task'[j] # None
      PROVE  TaskFit(task'[j], used', strays')
  BY <1>2, <1>3, TaskFitGrows DEF TasksFit
<1> QED BY <1>2, <1>3 DEF TasksFit

LEMMA AppStays ==
  ASSUME AppFits, PendingFits, UNCHANGED app, used \subseteq used', strays \subseteq strays'
  PROVE  AppFits' /\ PendingFits'
<1>1. /\ UNCHANGED listed /\ UNCHANGED active /\ UNCHANGED shown /\ UNCHANGED live
      /\ UNCHANGED failed /\ UNCHANGED pending /\ UNCHANGED flushing
  BY DEF app
<1>2. shown' # None => Fit(shown', used', strays')
  BY <1>1, FitGrows DEF AppFits
<1>3. \A i \in DOMAIN pending' : Fit(pending'[i].snap, used', strays')
  BY <1>1, FitGrows DEF PendingFits
<1> QED BY <1>1, <1>2, <1>3 DEF AppFits, PendingFits

LEMMA DiskPut ==
  ASSUME DiskFits, used \subseteq used', strays \subseteq strays', NEW s, Fit(s, used', strays'), disk' = Put(s)
  PROVE  DiskFits'
<1>1. s.ws \in Workspace
  BY SnapshotIs DEF Fit
<1>2. disk' = [w \in DOMAIN disk \cup {s.ws} |-> IF w = s.ws THEN s ELSE disk[w]]
  BY DEF Put
<1>3. ASSUME NEW w \in DOMAIN disk'
      PROVE  Fit(disk'[w], used', strays')
  <2>1. CASE w = s.ws
    BY <1>2, <2>1
  <2>2. CASE w # s.ws
    <3>1. disk'[w] = disk[w] /\ w \in DOMAIN disk
      BY <1>2, <2>2
    <3> QED BY <3>1, FitGrows DEF DiskFits
  <2> QED BY <2>1, <2>2
<1> QED BY <1>1, <1>2, <1>3 DEF DiskFits

LEMMA DiskStays ==
  ASSUME DiskFits, used \subseteq used', strays \subseteq strays', UNCHANGED disk
  PROVE  DiskFits'
BY FitGrows DEF DiskFits

\* A step that leaves the application alone.
LEMMA RuntimeStep ==
  ASSUME TaskInv, UNCHANGED app, UNCHANGED <<used, strays, closed>>, NEW k \in Slot, NEW t,
         t = None \/ TaskFit(t, used, strays), task' = [task EXCEPT ![k] = t],
         DiskFits', WorldFits', reloads' \in 0 .. MaxReloads, disturbed' \in BOOLEAN,
         faulty' \subseteq Workspace, faults' \in 0 .. MaxFaults
  PROVE  TaskInv'
<1>1. UNCHANGED used /\ UNCHANGED closed
  OBVIOUS
<1>2. AppFits' /\ PendingFits'
  BY <1>1, AppStays DEF TaskInv
<1>3. TasksFit'
  BY <1>1, TaskPut DEF TaskInv
<1>4. HistoryFits'
  BY <1>1 DEF TaskInv, HistoryFits
<1> QED BY <1>2, <1>3, <1>4 DEF TaskInv

-----------------------------------------------------------------------------
(* The steps of the tasks that leave the application alone.                   *)

\* A task in flight, by its kind.
LEMMA TaskIs ==
  ASSUME TaskInv, NEW k \in Slot, task[k] # None
  PROVE  /\ TaskFit(task[k], used, strays) /\ task \in [Slot -> Tasks \cup {None}]
         /\ task[k].kind = "load" => task[k] \in Loads
         /\ task[k].kind = "save" => task[k] \in Saves
         /\ task[k].kind = "exit" => task[k] \in Exits
         /\ task[k].kind = "flush" => task[k] \in Flushes
         /\ task[k].kind = "reload" => task[k] \in Reloads
<1>1. TaskFit(task[k], used, strays) /\ task \in [Slot -> Tasks \cup {None}]
  BY DEF TaskInv, TasksFit
<1>2. task[k] \in Tasks
  BY <1>1 DEF TaskFit
<1> QED BY <1>1, <1>2, TaskKinds

\* What a step leaves alone when only its task and the layouts change.
LEMMA TaskStepFits ==
  ASSUME TaskInv, UNCHANGED <<app, kills, shells, history>>, NEW k \in Slot, NEW t,
         t = None \/ TaskFit(t, used, strays), task' = [task EXCEPT ![k] = t],
         jj' \subseteq Workspace, rows' \subseteq Workspace, DiskFits'
  PROVE  TaskInv'
<1>1. /\ UNCHANGED app /\ UNCHANGED <<used, strays, closed>> /\ reloads' = reloads
      /\ disturbed' = disturbed /\ faulty' = faulty /\ faults' = faults
      /\ kills' = kills /\ shells' = shells
  BY DEF history
<1>2. /\ reloads' \in 0 .. MaxReloads /\ disturbed' \in BOOLEAN
      /\ faulty' \subseteq Workspace /\ faults' \in 0 .. MaxFaults
  BY <1>1 DEF TaskInv, HistoryFits
<1>3. WorldFits'
  BY <1>1 DEF TaskInv, WorldFits
<1> QED BY <1>1, <1>2, <1>3, RuntimeStep

LEMMA TaskOnlyFits ==
  ASSUME TaskInv, UNCHANGED <<app, kills, world, history>>, NEW k \in Slot, NEW t,
         t = None \/ TaskFit(t, used, strays), task' = [task EXCEPT ![k] = t]
  PROVE  TaskInv'
<1>1. UNCHANGED <<app, kills, shells, history>> /\ jj' = jj /\ rows' = rows /\ disk' = disk
  BY DEF world
<1>2. jj' \subseteq Workspace /\ rows' \subseteq Workspace
  BY <1>1 DEF TaskInv, WorldFits
<1>3. DiskFits'
  BY <1>1 DEF TaskInv, DiskFits, history
<1> QED BY <1>1, <1>2, <1>3, TaskStepFits

\* A task that fails.
LEMMA FailFits ==
  ASSUME TaskInv, UNCHANGED <<app, kills, world, used, strays, closed, reloads>>, NEW k \in Slot, NEW t,
         t = None \/ TaskFit(t, used, strays), task' = [task EXCEPT ![k] = t],
         faults' = faults \/ Fault, disturbed' \in BOOLEAN, faulty' \subseteq Workspace
  PROVE  TaskInv'
<1>1. UNCHANGED app /\ UNCHANGED <<used, strays, closed>> /\ reloads' = reloads /\ kills' = kills
      /\ jj' = jj /\ rows' = rows /\ disk' = disk /\ shells' = shells
  BY DEF world
<1>2. reloads' \in 0 .. MaxReloads
  BY <1>1 DEF TaskInv, HistoryFits
<1>3. faults' \in 0 .. MaxFaults
  BY TaskSpaceAssumption DEF TaskInv, HistoryFits, Fault
<1>4. WorldFits'
  BY <1>1 DEF TaskInv, WorldFits
<1>5. DiskFits'
  BY <1>1 DEF TaskInv, DiskFits
<1> QED BY <1>1, <1>2, <1>3, <1>4, <1>5, RuntimeStep

\* The layout of a workspace: the stored one, or an empty one.
LEMMA StoredFits ==
  ASSUME TaskInv, NEW w \in Workspace
  PROVE  Fit(IF w \in DOMAIN disk THEN disk[w] ELSE EmptyLayout(w), used, strays)
         /\ (IF w \in DOMAIN disk THEN disk[w] ELSE EmptyLayout(w)) # None
<1>1. Fit(IF w \in DOMAIN disk THEN disk[w] ELSE EmptyLayout(w), used, strays)
  BY EmptyFits DEF TaskInv, DiskFits
<1> QED BY <1>1, SnapshotIs DEF Fit

LEMMA LoadReadFits ==
  ASSUME TaskInv, NEW k \in Slot, LoadRead(k)
  PROVE  /\ TaskInv'
         /\ \E t : /\ TaskFit(t, used, strays) /\ task' = [task EXCEPT ![k] = t]
                   /\ t.kind = "load" /\ t.ws = task[k].ws
                   /\ t.step = IF t.ws \in DOMAIN disk THEN "apply" ELSE "create"
                   /\ t.snap = IF t.ws \in DOMAIN disk THEN disk[t.ws] ELSE EmptyLayout(t.ws)
<1> DEFINE w == task[k].ws
           s == IF w \in DOMAIN disk THEN disk[w] ELSE EmptyLayout(w)
           step == IF w \in DOMAIN disk THEN "apply" ELSE "create"
           t == [task[k] EXCEPT !.step = step, !.snap = s]
<1>1. task[k] # None /\ task[k].kind = "load"
  BY DEF LoadRead, At
<1>2. task[k] \in Loads /\ task \in [Slot -> Tasks \cup {None}]
  BY <1>1, TaskIs
<1>3. w \in Workspace
  BY <1>2 DEF Loads
<1>4. Fit(s, used, strays) /\ s # None
  BY <1>3, StoredFits
<1>5. task' = [task EXCEPT ![k].step = step, ![k].snap = s]
  BY DEF LoadRead
<1> HIDE DEF s
<1>6. task' = [task EXCEPT ![k] = t]
  BY <1>2, <1>5
<1>7. /\ TaskFit(t, used, strays) /\ t.kind = "load" /\ t.ws = w /\ t.step = step /\ t.snap = s
  <2>1. step \in {"read", "create", "apply"} /\ s \in Snapshot \cup {None}
    BY <1>4 DEF Fit
  <2> HIDE DEF step
  <2>2. t \in Loads /\ t.snap = s /\ t.kind = "load" /\ t.ws = w /\ t.step = step
    BY <1>2, <2>1 DEF Loads
  <2> QED BY <1>4, <2>2, LoadFits
<1> HIDE DEF t
<1>8. TaskInv'
  BY <1>6, <1>7, TaskOnlyFits DEF LoadRead
<1> QED BY <1>6, <1>7, <1>8 DEF s

LEMMA LoadCreateFits ==
  ASSUME TaskInv, NEW k \in Slot, LoadCreate(k)
  PROVE  /\ TaskInv'
         /\ \E t : /\ TaskFit(t, used, strays) /\ task' = [task EXCEPT ![k] = t]
                   /\ t.kind = "load" /\ t.ws = task[k].ws /\ t.step = "apply" /\ t.snap = task[k].snap
<1> DEFINE s == task[k].snap
           t == [task[k] EXCEPT !.step = "apply"]
<1>1. task[k] # None /\ task[k].kind = "load" /\ task[k].step = "create"
  BY DEF LoadCreate, At
<1>2. task[k] \in Loads /\ task \in [Slot -> Tasks \cup {None}] /\ TaskFit(task[k], used, strays)
  BY <1>1, TaskIs
<1>4. Fit(s, used, strays) /\ s # None
  BY <1>1, <1>2 DEF TaskFit
<1>5. task' = [task EXCEPT ![k].step = "apply"] /\ disk' = Put(s)
      /\ UNCHANGED <<app, kills, jj, rows, shells, history>>
  BY DEF LoadCreate
<1>6. task' = [task EXCEPT ![k] = t]
  BY <1>2, <1>5
<1>7. /\ TaskFit(t, used, strays) /\ t.kind = "load" /\ t.ws = task[k].ws /\ t.step = "apply"
      /\ t.snap = s
  <2>1. /\ t \in Loads /\ t.snap = s /\ t.kind = "load" /\ t.ws = task[k].ws
        /\ t.step = "apply"
    BY <1>2 DEF Loads
  <2> QED BY <1>4, <2>1, LoadFits
<1> HIDE DEF t, s
<1>8. DiskFits'
  BY <1>4, <1>5, DiskPut DEF TaskInv, history
<1>9. jj' \subseteq Workspace /\ rows' \subseteq Workspace
  BY <1>5 DEF TaskInv, WorldFits
<1>10. TaskInv'
  BY <1>5, <1>6, <1>7, <1>8, <1>9, TaskStepFits
<1> QED BY <1>6, <1>7, <1>10 DEF s

LEMMA LoadFailFits ==
  ASSUME TaskInv, NEW k \in Slot, LoadFail(k)
  PROVE  TaskInv'
<1>1. task[k] # None /\ task[k].kind = "load" /\ Fault
  BY DEF LoadFail, At
<1>2. task[k] \in Loads
  BY <1>1, TaskIs
<1>3. task[k].ws \in Workspace
  BY <1>2 DEF Loads
<1>4. task' = [task EXCEPT ![k] = None] /\ faulty' = faulty \cup {task[k].ws} /\ disturbed' = TRUE
      /\ UNCHANGED <<app, kills, world, used, strays, closed, reloads>>
  BY DEF LoadFail, Finish
<1>5. faulty' \subseteq Workspace
  BY <1>3, <1>4 DEF TaskInv, HistoryFits
<1> QED BY <1>1, <1>4, <1>5, FailFits

LEMMA SaveTaskFits ==
  ASSUME TaskInv, NEW k \in Slot, SaveRun(k) \/ SaveFail(k)
  PROVE  TaskInv'
<1>1. task[k] # None /\ task[k].kind = "save"
  BY DEF SaveRun, SaveFail
<1>2. task[k] \in Saves /\ TaskFit(task[k], used, strays)
  BY <1>1, TaskIs
<1>3. Fit(task[k].snap, used, strays)
  BY <1>1, <1>2, NoneAssumption DEF TaskFit, Saves
<1>4. CASE SaveRun(k)
  <2>1. task' = [task EXCEPT ![k] = None] /\ disk' = Put(task[k].snap)
        /\ UNCHANGED <<app, kills, jj, rows, shells, history>>
    BY <1>4 DEF SaveRun, Finish
  <2>2. DiskFits'
    BY <1>3, <2>1, DiskPut DEF TaskInv, history
  <2>3. jj' \subseteq Workspace /\ rows' \subseteq Workspace
    BY <2>1 DEF TaskInv, WorldFits
  <2> QED BY <2>1, <2>2, <2>3, TaskStepFits
<1>5. CASE SaveFail(k)
  <2>1. task' = [task EXCEPT ![k] = None] /\ disturbed' = TRUE /\ faulty' = faulty /\ Fault
        /\ UNCHANGED <<app, kills, world, used, strays, closed, reloads>>
    BY <1>5 DEF SaveFail, Finish
  <2>2. faulty' \subseteq Workspace
    BY <2>1 DEF TaskInv, HistoryFits
  <2> QED BY <2>1, <2>2, FailFits
<1> QED BY <1>4, <1>5

LEMMA ExitTaskFits ==
  ASSUME TaskInv, NEW k \in Slot, ExitRead(k) \/ ExitWrite(k) \/ ExitFail(k)
  PROVE  /\ TaskInv'
         /\ \/ /\ task' = [task EXCEPT ![k] = None]
               /\ ExitRead(k) => ~ (task[k].ws \in DOMAIN disk /\ task[k].pane \in Panes(disk[task[k].ws]))
            \/ /\ ExitRead(k) /\ task[k].ws \in DOMAIN disk /\ task[k].pane \in Panes(disk[task[k].ws])
               /\ \E t : /\ TaskFit(t, used, strays) /\ task' = [task EXCEPT ![k] = t]
                         /\ t.kind = "exit" /\ t.ws = task[k].ws /\ t.pane = task[k].pane
                         /\ t.step = "write" /\ t.snap.ws = disk[task[k].ws].ws
                         /\ Panes(t.snap) = Panes(disk[task[k].ws]) \ {t.pane}
<1> DEFINE w == task[k].ws
           p == task[k].pane
<1>1. task[k] # None /\ task[k].kind = "exit"
  BY DEF ExitRead, ExitWrite, ExitFail, At
<1>2. task[k] \in Exits /\ TaskFit(task[k], used, strays) /\ task \in [Slot -> Tasks \cup {None}]
  BY <1>1, TaskIs
<1>3. w \in Workspace /\ p \in Terminal /\ p \in Pane
  BY <1>2, TaskSpaceAssumption DEF Exits
<1>4. CASE ExitRead(k)
  <2>1. CASE w \in DOMAIN disk /\ p \in Panes(disk[w])
    <3> DEFINE s == RemoveFromLayout(disk[w], p)
               t == [task[k] EXCEPT !.step = "write", !.snap = s]
    <3>1. Fit(disk[w], used, strays)
      BY <2>1 DEF TaskInv, DiskFits
    <3>2. Fit(s, used, strays) /\ s.ws = disk[w].ws /\ Panes(s) = Panes(disk[w]) \ {p}
      BY <1>3, <3>1, RemoveFits
    <3>3. s # None
      BY <3>2, SnapshotIs DEF Fit
    <3>4. task' = [task EXCEPT ![k] = [task[k] EXCEPT !.step = "write", !.snap = s]]
      BY <1>4, <2>1 DEF ExitRead
    <3> HIDE DEF s
    <3>5. t \in Exits /\ t.snap = s /\ t.kind = "exit" /\ t.ws = w /\ t.pane = p /\ t.step = "write"
      BY <1>2, <3>2 DEF Exits, Fit
    <3>6. TaskFit(t, used, strays)
      BY <3>2, <3>3, <3>5, ExitFits
    <3> HIDE DEF t
    <3>7. task' = [task EXCEPT ![k] = t]
      BY <3>4 DEF t
    <3>8. TaskInv'
      BY <1>4, <3>6, <3>7, TaskOnlyFits DEF ExitRead
    <3> QED BY <1>4, <2>1, <3>2, <3>5, <3>6, <3>7, <3>8
  <2>2. CASE ~ (w \in DOMAIN disk /\ p \in Panes(disk[w]))
    <3>1. task' = [task EXCEPT ![k] = None]
      BY <1>4, <2>2 DEF ExitRead, Finish
    <3> QED BY <1>4, <2>2, <3>1, TaskOnlyFits DEF ExitRead
  <2> QED BY <2>1, <2>2
<1>5. CASE ExitWrite(k)
  <2>1. task' = [task EXCEPT ![k] = None] /\ disk' = Put(task[k].snap)
        /\ UNCHANGED <<app, kills, jj, rows, shells, history>> /\ task[k].step = "write"
    BY <1>5 DEF ExitWrite, Finish, At
  <2>2. Fit(task[k].snap, used, strays)
    BY <1>1, <1>2, <2>1 DEF TaskFit
  <2>3. DiskFits'
    BY <2>1, <2>2, DiskPut DEF TaskInv, history
  <2>4. jj' \subseteq Workspace /\ rows' \subseteq Workspace
    BY <2>1 DEF TaskInv, WorldFits
  <2>5. ~ExitRead(k)
    BY <2>1 DEF ExitRead, At
  <2> QED BY <2>1, <2>3, <2>4, <2>5, TaskStepFits
<1>6. CASE ExitFail(k)
  <2>1. task' = [task EXCEPT ![k] = None] /\ disturbed' = TRUE /\ faulty' = faulty /\ Fault
        /\ UNCHANGED <<app, kills, world, used, strays, closed, reloads>>
    BY <1>6 DEF ExitFail, Finish
  <2>2. faulty' \subseteq Workspace
    BY <2>1 DEF TaskInv, HistoryFits
  <2>3. ~ExitRead(k)
    <3>1. ExitRead(k) => faults' = faults
      BY DEF ExitRead, history
    <3>2. faults' = faults + 1 /\ faults \in Nat
      BY <2>1 DEF Fault, TaskInv, HistoryFits
    <3> QED BY <3>1, <3>2
  <2> QED BY <2>1, <2>2, <2>3, FailFits
<1> QED BY <1>4, <1>5, <1>6

LEMMA FlushTaskFits ==
  \A u, y : TaskFit(FlushTask, u, y)
<1>1. FlushTask \in Flushes /\ DOMAIN FlushTask.batch = {}
  <2>1. <<>> \in Seq(Input) /\ <<>> \in Seq(Snapshot)
    BY EmptySeq
  <2>2. FlushTask \in Flushes
    BY <2>1 DEF FlushTask, Flushes
  <2>3. FlushTask.batch = <<>>
    BY DEF FlushTask
  <2> QED BY <2>2, <2>3
<1> QED BY <1>1, FlushFits

\* A row of the table is replaced by a layout with another session.
LEMMA InputSessionFits ==
  ASSUME NEW u, NEW y, NEW i \in Input, Fit(i.snap, u, y)
  PROVE  LET s == [i.snap EXCEPT !.session[i.pane] = IF @ = None THEN <<i.ws, i.pane>> ELSE @]
         IN  Fit(s, u, y) /\ s.ws = i.snap.ws /\ s.columns = i.snap.columns
<1> DEFINE f == [i.snap.session EXCEPT ![i.pane] = IF @ = None THEN <<i.ws, i.pane>> ELSE @]
           s == [i.snap EXCEPT !.session = f]
<1>1. i.ws \in Workspace /\ i.pane \in Pane /\ i.snap \in Snapshot
  BY DEF Input
<1>2. i.snap.session \in [Pane -> Shell \cup {None}]
  BY <1>1, SnapshotIs
<1>3. <<i.ws, i.pane>> \in Shell
  BY <1>1 DEF Shell
<1>4. f \in [Pane -> Shell \cup {None}]
  BY <1>1, <1>2, <1>3
<1>5. [i.snap EXCEPT !.session[i.pane] = IF @ = None THEN <<i.ws, i.pane>> ELSE @] = s
  BY <1>1, <1>2 DEF Snapshot
<1> HIDE DEF f
<1> QED BY <1>4, <1>5, SessionsFit

LEMMA FlushSendFits ==
  ASSUME TaskInv, NEW k \in Slot, FlushSend(k)
  PROVE  /\ TaskInv'
         /\ \E t : /\ TaskFit(t, used, strays) /\ task' = [task EXCEPT ![k] = t]
                   /\ t.kind = "flush" /\ t.step = "save" /\ t.batch = task[k].batch
<1> DEFINE batch == task[k].batch
<1>1. task[k] # None /\ task[k].kind = "flush"
  BY DEF FlushSend, At
<1>2. task[k] \in Flushes /\ TaskFit(task[k], used, strays) /\ task \in [Slot -> Tasks \cup {None}]
  BY <1>1, TaskIs
<1>3. batch \in Seq(Input) /\ task[k].done \in Seq(Snapshot)
  BY <1>2 DEF Flushes
<1>4. Len(batch) \in Nat /\ DOMAIN batch = 1 .. Len(batch)
      /\ \A i \in 1 .. Len(batch) : batch[i] \in Input /\ Fit(batch[i].snap, used, strays)
  <2>1. DOMAIN batch = 1 .. Len(batch) /\ Len(batch) \in Nat
    BY <1>3, LenProperties
  <2>2. \A i \in 1 .. Len(batch) : batch[i] \in Input
    BY <1>3, ElementOfSeq
  <2> QED BY <1>1, <1>2, <2>1, <2>2 DEF TaskFit
<1> DEFINE t == [task[k] EXCEPT !.step = "save"]
<1>5. /\ shells' = shells \cup {<<batch[i].ws, batch[i].pane>> : i \in DOMAIN batch}
      /\ task' = [task EXCEPT ![k].step = "save"]
      /\ UNCHANGED <<app, kills, jj, rows, disk, history>>
  BY DEF FlushSend
<1>6. t \in Flushes /\ t.batch = batch /\ t.kind = "flush" /\ t.step = "save"
  BY <1>2 DEF Flushes
<1>7. TaskFit(t, used, strays)
  BY <1>4, <1>6, FlushFits
<1>8. task' = [task EXCEPT ![k] = t]
  BY <1>2, <1>5
<1>9. \A i \in 1 .. Len(batch) : <<batch[i].ws, batch[i].pane>> \in Shell
  BY <1>4 DEF Input, Shell
<1>10. shells' \subseteq Shell
  BY <1>4, <1>5, <1>9 DEF TaskInv, WorldFits
<1>11. WorldFits'
  BY <1>5, <1>10 DEF TaskInv, WorldFits
<1>12. DiskFits'
  BY <1>5 DEF TaskInv, DiskFits, history
<1> HIDE DEF t, batch
<1>13. UNCHANGED app /\ UNCHANGED <<used, strays, closed>> /\ reloads' = reloads
      /\ disturbed' = disturbed /\ faulty' = faulty /\ faults' = faults
  BY <1>5 DEF history
<1>14. /\ reloads' \in 0 .. MaxReloads /\ disturbed' \in BOOLEAN
       /\ faulty' \subseteq Workspace /\ faults' \in 0 .. MaxFaults
  BY <1>13 DEF TaskInv, HistoryFits
<1>15. TaskInv'
  BY <1>7, <1>8, <1>11, <1>12, <1>13, <1>14, RuntimeStep
<1> QED BY <1>6, <1>7, <1>8, <1>15 DEF batch

LEMMA FlushSaveFits ==
  ASSUME TaskInv, NEW k \in Slot, FlushSave(k)
  PROVE  /\ TaskInv'
         /\ \E t, s : /\ TaskFit(t, used, strays) /\ task' = [task EXCEPT ![k] = t] /\ disk' = Put(s)
                      /\ t.kind = "flush" /\ t.step = "save"
                      /\ \A i \in DOMAIN t.batch : \E j \in DOMAIN task[k].batch : t.batch[i] = task[k].batch[j]
                      /\ \E j \in DOMAIN task[k].batch : /\ s.ws = task[k].batch[j].snap.ws
                                                        /\ s.columns = task[k].batch[j].snap.columns
<1> DEFINE batch == task[k].batch
<1>1. task[k] # None /\ task[k].kind = "flush"
  BY DEF FlushSave, At
<1>2. task[k] \in Flushes /\ TaskFit(task[k], used, strays) /\ task \in [Slot -> Tasks \cup {None}]
  BY <1>1, TaskIs
<1>3. batch \in Seq(Input) /\ task[k].done \in Seq(Snapshot)
  BY <1>2 DEF Flushes
<1>4. Len(batch) \in Nat /\ DOMAIN batch = 1 .. Len(batch)
      /\ \A i \in 1 .. Len(batch) : batch[i] \in Input /\ Fit(batch[i].snap, used, strays)
  <2>1. DOMAIN batch = 1 .. Len(batch) /\ Len(batch) \in Nat
    BY <1>3, LenProperties
  <2>2. \A i \in 1 .. Len(batch) : batch[i] \in Input
    BY <1>3, ElementOfSeq
  <2> QED BY <1>1, <1>2, <2>1, <2>2 DEF TaskFit
<1> DEFINE input == Last(batch)
           S == {i \in DOMAIN batch : batch[i].ws # input.ws \/ batch[i].pane # input.pane}
           s == [input.snap EXCEPT !.session[input.pane] =
                   IF @ = None THEN <<input.ws, input.pane>> ELSE @]
           b == Pick(batch, S)
           d == Append(task[k].done, s)
           t == [task[k] EXCEPT !.batch = b, !.done = d]
<1>5. /\ batch # <<>> /\ disk' = Put(s) /\ UNCHANGED <<app, kills, jj, rows, shells, history>>
      /\ task' = [task EXCEPT ![k] = t]
  BY DEF FlushSave
<1>6. input \in Input /\ Fit(input.snap, used, strays)
  <2>1. Len(batch) \in 1 .. Len(batch)
    <3> HIDE DEF batch
    <3>1. Len(batch) # 0
      BY <1>3, <1>5, EmptySeq, LenProperties
    <3> QED BY <1>4, <3>1
  <2> QED BY <1>4, <2>1 DEF Last
<1>18. \E j \in DOMAIN batch : input = batch[j]
  <2>1. Len(batch) \in 1 .. Len(batch)
    <3> HIDE DEF batch
    <3>1. Len(batch) # 0
      BY <1>3, <1>5, EmptySeq, LenProperties
    <3> QED BY <1>4, <3>1
  <2> QED BY <1>4, <2>1 DEF Last
<1>7. Fit(s, used, strays) /\ s.ws = input.snap.ws /\ s.columns = input.snap.columns
  BY <1>6, InputSessionFits
<1>8. S \in SUBSET (1 .. Len(batch))
  BY <1>4
<1>9. b \in Seq(Input) /\ \A i \in 1 .. Len(b) : \E j \in S : b[i] = batch[j]
  <2> HIDE DEF S, batch
  <2> QED BY <1>3, <1>8, PickIsSeq, PickKeeps
<1>10. DOMAIN b = 1 .. Len(b)
  BY <1>9, LenProperties
<1>11. \A i \in DOMAIN b : Fit(b[i].snap, used, strays)
  <2> HIDE DEF b, S
  <2> QED BY <1>4, <1>8, <1>9, <1>10
<1>12. d \in Seq(Snapshot)
  BY <1>3, <1>7, AppendProperties DEF Fit
<1> HIDE DEF s, b, S, input, batch
<1> HIDE DEF d
<1>14. t \in Flushes /\ t.batch = b /\ t.kind = "flush" /\ t.step = task[k].step
  BY <1>2, <1>9, <1>12 DEF Flushes
<1>15. TaskFit(t, used, strays)
  BY <1>11, <1>14, FlushFits
<1>16. DiskFits'
  BY <1>5, <1>7, DiskPut DEF TaskInv, history
<1>17. jj' \subseteq Workspace /\ rows' \subseteq Workspace
  BY <1>5 DEF TaskInv, WorldFits
<1> HIDE DEF t
<1>19. TaskInv'
  BY <1>5, <1>15, <1>16, <1>17, TaskStepFits
<1>20. task[k].step = "save"
  BY DEF FlushSave, At
<1>21. \A i \in DOMAIN b : \E j \in DOMAIN batch : b[i] = batch[j]
  BY <1>4, <1>8, <1>9, <1>10
<1>22. /\ t.kind = "flush" /\ t.step = "save"
       /\ \A i \in DOMAIN t.batch : \E j \in DOMAIN task[k].batch : t.batch[i] = task[k].batch[j]
  BY <1>14, <1>20, <1>21 DEF batch
<1>23. \E j \in DOMAIN task[k].batch : /\ s.ws = task[k].batch[j].snap.ws
                                      /\ s.columns = task[k].batch[j].snap.columns
  BY <1>7, <1>18 DEF batch
<1>24. disk' = Put(s) /\ task' = [task EXCEPT ![k] = t]
  BY <1>5
<1> QED BY <1>15, <1>19, <1>22, <1>23, <1>24

LEMMA FlushFailFits ==
  ASSUME TaskInv, NEW k \in Slot, FlushFail(k)
  PROVE  TaskInv'
<1>1. task' = [task EXCEPT ![k] = FlushTask] /\ disturbed' = TRUE /\ faulty' = faulty
      /\ faults' = faults /\ UNCHANGED <<app, kills, world, used, strays, closed, reloads>>
  BY DEF FlushFail
<1>2. faulty' \subseteq Workspace
  BY <1>1 DEF TaskInv, HistoryFits
<1> QED BY <1>1, <1>2, FlushTaskFits, FailFits

-----------------------------------------------------------------------------
(* Navigation operations.                                                     *)

LEMMA NavigateFits ==
  ASSUME TaskInv, NEW k \in Slot, NEW op \in {"reload", "create", "rename", "forget"},
         NEW step \in {"check", "jj", "list"}, NEW w \in Workspace \cup {None},
         NEW to \in Workspace \cup {None}, NEW want \in Workspace \cup {None},
         op \in {"create", "rename", "forget"} => w \in Workspace,
         op = "rename" => to \in Workspace, Navigate(k, op, step, w, to, want)
  PROVE  TaskInv'
<1> DEFINE t == ReloadTask(op, step, w, to, want)
<1>1. /\ reloads < MaxReloads /\ reloads' = reloads + 1
      /\ task' = [task EXCEPT ![k] = t] /\ UNCHANGED <<app, kills, world, used, strays, closed, faulty, faults>>
  BY DEF Navigate, Start
<1>2. disturbed' \in BOOLEAN
  BY DEF Navigate, Use
<1>3. t \in Reloads
  BY DEF ReloadTask, Reloads
<1>4. t.op = op /\ t.step = step /\ t.ws = w /\ t.to = to /\ t.snap = None
  BY DEF ReloadTask
<1> HIDE DEF t
<1>5. TaskFit(t, used, strays)
  BY <1>3, <1>4, ReloadFits
<1>6. /\ reloads' \in 0 .. MaxReloads
      /\ faulty' \subseteq Workspace /\ faults' \in 0 .. MaxFaults
  BY <1>1, TaskSpaceAssumption DEF TaskInv, HistoryFits
<1>7. WorldFits'
  BY <1>1 DEF TaskInv, WorldFits, world
<1>8. DiskFits'
  BY <1>1 DEF TaskInv, DiskFits, world
<1> QED BY <1>1, <1>2, <1>5, <1>6, <1>7, <1>8, RuntimeStep

LEMMA OperationsFit ==
  ASSUME TaskInv, NEW k \in Slot,
         \/ Reload(k)
         \/ \E w \in Workspace : CreateWorkspace(w, k) \/ ForgetWorkspace(w, k)
         \/ \E w, to \in Workspace : RenameWorkspace(w, to, k)
  PROVE  TaskInv'
<1>1. active \in Workspace \cup {None} /\ listed \subseteq Workspace
  BY DEF TaskInv, AppFits
<1>2. CASE Reload(k)
  BY <1>1, <1>2, NavigateFits DEF Reload
<1>3. ASSUME NEW w \in Workspace, CreateWorkspace(w, k)
      PROVE  TaskInv'
  BY <1>3, NavigateFits DEF CreateWorkspace
<1>4. ASSUME NEW w \in Workspace, ForgetWorkspace(w, k)
      PROVE  TaskInv'
  <2>1. (IF active = w THEN None ELSE active) \in Workspace \cup {None}
    BY <1>1
  <2> QED BY <1>4, <2>1, NavigateFits DEF ForgetWorkspace
<1>5. ASSUME NEW w \in Workspace, NEW to \in Workspace, RenameWorkspace(w, to, k)
      PROVE  TaskInv'
  <2>1. (IF active = w THEN to ELSE active) \in Workspace \cup {None}
    BY <1>1
  <2> QED BY <1>5, <2>1, NavigateFits DEF RenameWorkspace
<1> QED BY <1>2, <1>3, <1>4, <1>5

\* The operation that a reload carries out.
SameOperation(t, r) == t.op = r.op /\ t.ws = r.ws /\ t.to = r.to

\* A navigation operation at a step before its layout is read.
LEMMA OperationStep ==
  ASSUME TaskInv, NEW k \in Slot, NEW op \in {"create", "rename", "forget"}, NEW step,
         NEW next \in {"delete", "row", "jj", "copy", "commit", "list"}, Step(k, op, step, next),
         next \in {"copy", "commit"} => op = "rename"
  PROVE  \E t : /\ TaskFit(t, used, strays) /\ task' = [task EXCEPT ![k] = t]
                /\ t.kind = "reload" /\ t.step = next /\ SameOperation(t, task[k])
                /\ UNCHANGED <<app, kills, shells, history>>
<1> DEFINE t == [task[k] EXCEPT !.step = next]
<1>1. /\ task[k] # None /\ task[k].kind = "reload" /\ task[k].op = op
      /\ task' = [task EXCEPT ![k].step = next] /\ UNCHANGED <<app, kills, shells, history>>
  BY DEF Step, At
<1>2. task[k] \in Reloads /\ TaskFit(task[k], used, strays) /\ task \in [Slot -> Tasks \cup {None}]
  BY <1>1, TaskIs
<1>3. t \in Reloads /\ t.snap = task[k].snap /\ t.op = task[k].op /\ t.ws = task[k].ws
      /\ t.to = task[k].to /\ t.step = next /\ t.kind = "reload"
  BY <1>2 DEF Reloads
<1>4. task' = [task EXCEPT ![k] = t]
  BY <1>1, <1>2
<1> HIDE DEF t
<1>5. TaskFit(t, used, strays)
  BY <1>1, <1>2, <1>3, ReloadFits DEF TaskFit
<1> QED BY <1>1, <1>3, <1>4, <1>5 DEF SameOperation

\* What a navigation operation knows of its workspaces.
LEMMA OperationIs ==
  ASSUME TaskInv, NEW k \in Slot, task[k] # None, task[k].kind = "reload"
  PROVE  /\ task[k] \in Reloads /\ TaskFit(task[k], used, strays)
         /\ task \in [Slot -> Tasks \cup {None}]
         /\ task[k].op \in {"create", "rename", "forget"} => task[k].ws \in Workspace
         /\ task[k].op = "rename" => task[k].to \in Workspace
<1>1. task[k] \in Reloads /\ TaskFit(task[k], used, strays) /\ task \in [Slot -> Tasks \cup {None}]
  BY TaskIs
<1> QED BY <1>1 DEF TaskFit

LEMMA JJStepFits ==
  ASSUME TaskInv, NEW k \in Slot,
         \/ CreateInJJ(k) \/ ForgetInJJ(k) \/ DeleteRow(k) \/ CheckName(k) \/ RenameInJJ(k)
  PROVE  TaskInv'
<1>1. task[k] # None /\ task[k].kind = "reload" /\ task[k].op \in {"create", "rename", "forget"}
  BY DEF CreateInJJ, ForgetInJJ, DeleteRow, CheckName, RenameInJJ, Step, At
<1>2. /\ task[k].op \in {"create", "rename", "forget"} => task[k].ws \in Workspace
      /\ task[k].op = "rename" => task[k].to \in Workspace
  BY <1>1, OperationIs
<1>3. PICK t : /\ TaskFit(t, used, strays) /\ task' = [task EXCEPT ![k] = t]
               /\ UNCHANGED <<app, kills, shells, history>>
  BY OperationStep DEF CreateInJJ, ForgetInJJ, DeleteRow, CheckName, RenameInJJ
<1>4. jj' \subseteq Workspace /\ rows' \subseteq Workspace /\ disk' = disk
  <2>1. jj \subseteq Workspace /\ rows \subseteq Workspace
    BY DEF TaskInv, WorldFits
  <2>2. CASE CreateInJJ(k)
    BY <1>1, <1>2, <2>1, <2>2 DEF CreateInJJ
  <2>3. CASE ForgetInJJ(k)
    BY <2>1, <2>3 DEF ForgetInJJ
  <2>4. CASE DeleteRow(k)
    BY <2>1, <2>4 DEF DeleteRow
  <2>5. CASE CheckName(k)
    BY <2>1, <2>5 DEF CheckName
  <2>6. CASE RenameInJJ(k)
    BY <1>2, <2>1, <2>6 DEF RenameInJJ, Step
  <2> QED BY <2>2, <2>3, <2>4, <2>5, <2>6
<1>5. DiskFits'
  BY <1>3, <1>4 DEF TaskInv, DiskFits, history
<1> QED BY <1>3, <1>4, <1>5, TaskStepFits

LEMMA DeleteLayoutFits ==
  ASSUME TaskInv, NEW k \in Slot, DeleteLayout(k)
  PROVE  TaskInv'
<1>1. PICK t : /\ TaskFit(t, used, strays) /\ task' = [task EXCEPT ![k] = t]
               /\ UNCHANGED <<app, kills, shells, history>>
  BY OperationStep DEF DeleteLayout
<1>2. jj' = jj /\ rows' = rows /\ disk' = Drop(task[k].ws)
  BY DEF DeleteLayout
<1>3. jj' \subseteq Workspace /\ rows' \subseteq Workspace
  BY <1>2 DEF TaskInv, WorldFits
<1>4. DOMAIN disk' \subseteq DOMAIN disk /\ \A w \in DOMAIN disk' : disk'[w] = disk[w]
  BY <1>2 DEF Drop, Restrict
<1>5. DiskFits'
  BY <1>1, <1>4 DEF TaskInv, DiskFits, history
<1> QED BY <1>1, <1>3, <1>5, TaskStepFits

LEMMA RenameCopyFits ==
  ASSUME TaskInv, NEW k \in Slot, RenameCopy(k)
  PROVE  /\ TaskInv'
         /\ \E t : /\ TaskFit(t, used, strays) /\ task' = [task EXCEPT ![k] = t]
                   /\ t.kind = "reload" /\ t.step = "commit" /\ t.ws = task[k].ws /\ t.to = task[k].to
                   /\ t.snap = IF t.ws \in DOMAIN disk THEN [disk[t.ws] EXCEPT !.ws = t.to] ELSE None
<1> DEFINE w == task[k].ws
           s == IF w \in DOMAIN disk THEN [disk[w] EXCEPT !.ws = task[k].to] ELSE None
           t == [task[k] EXCEPT !.step = "commit", !.snap = s]
<1>1. /\ task[k] # None /\ task[k].kind = "reload" /\ task[k].step = "copy"
      /\ task' = [task EXCEPT ![k].step = "commit", ![k].snap = s]
      /\ UNCHANGED <<app, kills, world, history>>
  BY DEF RenameCopy, At
<1>2. task[k] \in Reloads /\ TaskFit(task[k], used, strays) /\ task \in [Slot -> Tasks \cup {None}]
      /\ task[k].op = "rename" /\ task[k].ws \in Workspace /\ task[k].to \in Workspace
  BY <1>1, OperationIs DEF TaskFit
<1>3. s = None \/ Fit(s, used, strays)
  BY <1>2, WorkspaceFits DEF TaskInv, DiskFits
<1> HIDE DEF s
<1>4. t \in Reloads /\ t.snap = s /\ t.op = task[k].op /\ t.ws = task[k].ws
      /\ t.to = task[k].to /\ t.step = "commit" /\ t.kind = "reload"
  BY <1>2, <1>3 DEF Reloads, Fit
<1>5. task' = [task EXCEPT ![k] = t]
  BY <1>1, <1>2
<1> HIDE DEF t
<1>6. TaskFit(t, used, strays)
  BY <1>2, <1>3, <1>4, ReloadFits
<1>7. TaskInv'
  BY <1>1, <1>5, <1>6, TaskOnlyFits
<1> QED BY <1>4, <1>5, <1>6, <1>7 DEF s

LEMMA RenameRowsFits ==
  ASSUME TaskInv, NEW k \in Slot, RenameRows(k)
  PROVE  TaskInv'
<1> DEFINE w == task[k].ws
           to == task[k].to
<1>1. /\ task[k] # None /\ task[k].kind = "reload" /\ task[k].step = "commit" /\ task[k].op = "rename"
  BY DEF RenameRows, Step, At
<1>2. TaskFit(task[k], used, strays) /\ w \in Workspace /\ to \in Workspace
  BY <1>1, OperationIs
<1>3. PICK t : /\ TaskFit(t, used, strays) /\ task' = [task EXCEPT ![k] = t]
               /\ UNCHANGED <<app, kills, shells, history>>
  BY OperationStep DEF RenameRows
<1>4. /\ jj' = jj /\ rows' = IF w \in rows THEN (rows \ {w}) \cup {to} ELSE rows
      /\ disk' = IF w \notin DOMAIN disk THEN disk
                 ELSE [v \in (DOMAIN disk \ {w}) \cup {to} |->
                        IF v # to THEN disk[v]
                        ELSE IF task[k].snap # None THEN task[k].snap ELSE disk[w]]
  BY DEF RenameRows
<1>5. task[k].snap # None => Fit(task[k].snap, used, strays)
  BY <1>1, <1>2 DEF TaskFit
<1>6. jj' \subseteq Workspace /\ rows' \subseteq Workspace
  BY <1>2, <1>4 DEF TaskInv, WorldFits
<1>7. DOMAIN disk \subseteq Workspace /\ \A v \in DOMAIN disk : Fit(disk[v], used, strays)
  BY DEF TaskInv, DiskFits
<1> DEFINE s == task[k].snap
<1> HIDE DEF w, to, s
<1>8. CASE w \in DOMAIN disk
  <2>1. disk' = [v \in (DOMAIN disk \ {w}) \cup {to} |->
                   IF v # to THEN disk[v] ELSE IF s # None THEN s ELSE disk[w]]
    BY <1>4, <1>8 DEF s
  <2>2. DOMAIN disk' = (DOMAIN disk \ {w}) \cup {to}
    BY <2>1
  <2>3. ASSUME NEW v \in DOMAIN disk'
        PROVE  Fit(disk'[v], used, strays)
    <3>1. disk'[v] \in {disk[x] : x \in DOMAIN disk} \/ (s # None /\ disk'[v] = s)
      BY <1>8, <2>1, <2>3
    <3> QED BY <1>5, <1>7, <3>1 DEF s
  <2>4. used' = used /\ strays' = strays
    BY <1>3 DEF history
  <2>5. DiskFits'
    BY <1>2, <1>7, <2>2, <2>3, <2>4 DEF DiskFits
  <2> QED BY <1>3, <1>6, <2>5, TaskStepFits
<1>9. CASE w \notin DOMAIN disk
  <2>1. disk' = disk
    BY <1>4, <1>9
  <2>2. DiskFits'
    BY <1>3, <2>1 DEF TaskInv, DiskFits, history
  <2> QED BY <1>3, <1>6, <2>2, TaskStepFits
<1> QED BY <1>8, <1>9

LEMMA ReloadFailFits ==
  ASSUME TaskInv, NEW k \in Slot, ReloadFail(k)
  PROVE  TaskInv'
<1>1. task' = [task EXCEPT ![k] = None] /\ disturbed' = TRUE /\ faulty' = faulty
      /\ (faults' = faults \/ Fault)
      /\ UNCHANGED <<app, kills, world, used, strays, closed, reloads>>
  BY DEF ReloadFail, Finish
<1>2. faulty' \subseteq Workspace
  BY <1>1 DEF TaskInv, HistoryFits
<1> QED BY <1>1, <1>2, FailFits

LEMMA ReloadListFits ==
  ASSUME TaskInv, NEW k \in Slot, ReloadList(k)
  PROVE  /\ TaskInv'
         /\ \E t : /\ TaskFit(t, used, strays) /\ task' = [task EXCEPT ![k] = t]
                   /\ SameOperation(t, task[k])
                   /\ t.kind = "reload" /\ t.step = "upsert"
<1> DEFINE t == [task[k] EXCEPT !.step = "upsert", !.list = jj]
<1>1. /\ task[k] # None /\ task[k].kind = "reload"
      /\ task' = [task EXCEPT ![k].step = "upsert", ![k].list = jj]
      /\ UNCHANGED <<app, kills, world, history>>
  BY DEF ReloadList, At
<1>2. task[k] \in Reloads /\ TaskFit(task[k], used, strays) /\ task \in [Slot -> Tasks \cup {None}]
  BY <1>1, TaskIs
<1>3. jj \subseteq Workspace
  BY DEF TaskInv, WorldFits
<1>4. t \in Reloads /\ t.snap = task[k].snap /\ t.op = task[k].op /\ t.ws = task[k].ws
      /\ t.to = task[k].to /\ t.step = "upsert" /\ t.kind = "reload"
  BY <1>2, <1>3 DEF Reloads
<1>5. task' = [task EXCEPT ![k] = t]
  BY <1>1, <1>2
<1> HIDE DEF t
<1>6. TaskFit(t, used, strays)
  BY <1>1, <1>2, <1>4, ReloadFits DEF TaskFit
<1>7. TaskInv'
  BY <1>1, <1>5, <1>6, TaskOnlyFits
<1> QED BY <1>4, <1>5, <1>6, <1>7 DEF SameOperation

LEMMA ReloadUpsertFits ==
  ASSUME TaskInv, NEW k \in Slot, ReloadUpsert(k)
  PROVE  /\ TaskInv'
         /\ \E t : /\ TaskFit(t, used, strays) /\ task' = [task EXCEPT ![k] = t]
                   /\ SameOperation(t, task[k])
                   /\ t.kind = "reload" /\ t.step \in {"apply", "read"}
                   /\ t.step = "apply" => t.want = None
<1> DEFINE list == IF task[k].list = {} THEN rows ELSE task[k].list
<1>1. /\ task[k] # None /\ task[k].kind = "reload"
      /\ rows' = rows \cup task[k].list
      /\ UNCHANGED <<app, kills, jj, disk, shells, history>>
  BY DEF ReloadUpsert, At
<1>2. task[k] \in Reloads /\ TaskFit(task[k], used, strays) /\ task \in [Slot -> Tasks \cup {None}]
  BY <1>1, TaskIs
<1>3. PICK w \in IF task[k].want \in list THEN {task[k].want}
                 ELSE IF list = {} THEN {None} ELSE list :
        task' = [task EXCEPT ![k] = [task[k] EXCEPT
               !.step = IF w = None THEN "apply" ELSE "read", !.list = list, !.want = w]]
  BY DEF ReloadUpsert
<1>4. list \subseteq Workspace /\ task[k].list \subseteq Workspace
  BY <1>2 DEF TaskInv, WorldFits, Reloads
<1>5. w = None \/ (w \in list /\ w # None /\ w \in Workspace)
  <2> HIDE DEF list
  <2> QED BY <1>3, <1>4, NoneAssumption
<1> DEFINE step == IF w = None THEN "apply" ELSE "read"
           t == [task[k] EXCEPT !.step = step, !.list = list, !.want = w]
<1> HIDE DEF list
<1>6. t \in Reloads /\ t.snap = task[k].snap /\ t.op = task[k].op /\ t.ws = task[k].ws
      /\ t.to = task[k].to /\ t.step = step /\ t.list = list /\ t.want = w
      /\ t.kind = "reload"
  BY <1>2, <1>4, <1>5 DEF Reloads
<1>7. task' = [task EXCEPT ![k] = t]
  BY <1>3
<1> HIDE DEF t
<1>8. TaskFit(t, used, strays)
  BY <1>1, <1>2, <1>5, <1>6, ReloadFits DEF TaskFit
<1>9. jj' \subseteq Workspace /\ rows' \subseteq Workspace
  BY <1>1, <1>4 DEF TaskInv, WorldFits
<1>10. DiskFits'
  BY <1>1 DEF TaskInv, DiskFits, history
<1>11. TaskInv'
  BY <1>1, <1>7, <1>8, <1>9, <1>10, TaskStepFits
<1> QED BY <1>6, <1>7, <1>8, <1>11 DEF SameOperation

LEMMA ReloadReadFits ==
  ASSUME TaskInv, NEW k \in Slot, ReloadRead(k)
  PROVE  /\ TaskInv'
         /\ \E t : /\ TaskFit(t, used, strays) /\ task' = [task EXCEPT ![k] = t]
                   /\ SameOperation(t, task[k])
                   /\ t.kind = "reload" /\ t.want \in Workspace
                   /\ t.step = IF t.want \in DOMAIN disk THEN "apply" ELSE "create"
                   /\ t.snap = IF t.want \in DOMAIN disk THEN disk[t.want] ELSE EmptyLayout(t.want)
<1> DEFINE w == task[k].want
           s == IF w \in DOMAIN disk THEN disk[w] ELSE EmptyLayout(w)
           step == IF w \in DOMAIN disk THEN "apply" ELSE "create"
           t == [task[k] EXCEPT !.step = step, !.snap = s]
<1>1. task[k] # None /\ task[k].kind = "reload" /\ task[k].step = "read"
      /\ task' = [task EXCEPT ![k].step = step, ![k].snap = s]
      /\ UNCHANGED <<app, kills, world, history>>
  BY DEF ReloadRead, At
<1>2. task[k] \in Reloads /\ TaskFit(task[k], used, strays) /\ task \in [Slot -> Tasks \cup {None}]
  BY <1>1, TaskIs
<1>3. w \in Workspace /\ w # None /\ w \in task[k].list
  BY <1>1, <1>2 DEF TaskFit, Reloads
<1>4. Fit(s, used, strays) /\ s # None
  BY <1>3, StoredFits
<1>5. step \in {"create", "apply"}
  OBVIOUS
<1> HIDE DEF s, step
<1>6. t \in Reloads /\ t.snap = s /\ t.op = task[k].op /\ t.ws = task[k].ws
      /\ t.to = task[k].to /\ t.step = step /\ t.list = task[k].list /\ t.want = w
      /\ t.kind = "reload"
  BY <1>2, <1>4, <1>5 DEF Reloads, Fit
<1>7. task' = [task EXCEPT ![k] = t]
  BY <1>1, <1>2
<1> HIDE DEF t
<1>8. TaskFit(t, used, strays)
  BY <1>1, <1>2, <1>3, <1>4, <1>5, <1>6, ReloadFits DEF TaskFit
<1>9. TaskInv'
  BY <1>1, <1>7, <1>8, TaskOnlyFits
<1> QED BY <1>3, <1>6, <1>7, <1>8, <1>9 DEF s, step, SameOperation

LEMMA ReloadCreateFits ==
  ASSUME TaskInv, NEW k \in Slot, ReloadCreate(k)
  PROVE  /\ TaskInv'
         /\ \E t : /\ TaskFit(t, used, strays) /\ task' = [task EXCEPT ![k] = t]
                   /\ SameOperation(t, task[k])
                   /\ t.kind = "reload" /\ t.step = "apply" /\ t.want = task[k].want
                   /\ t.snap = task[k].snap
<1> DEFINE s == task[k].snap
           t == [task[k] EXCEPT !.step = "apply"]
<1>1. /\ task[k] # None /\ task[k].kind = "reload" /\ task[k].step = "create"
      /\ task' = [task EXCEPT ![k].step = "apply"] /\ disk' = Put(s)
      /\ UNCHANGED <<app, kills, jj, rows, shells, history>>
  BY DEF ReloadCreate, At
<1>2. task[k] \in Reloads /\ TaskFit(task[k], used, strays) /\ task \in [Slot -> Tasks \cup {None}]
  BY <1>1, TaskIs
<1>3. Fit(s, used, strays) /\ s # None /\ task[k].want \in task[k].list
  BY <1>1, <1>2 DEF TaskFit
<1>4. t \in Reloads /\ t.snap = task[k].snap /\ t.op = task[k].op /\ t.ws = task[k].ws
      /\ t.to = task[k].to /\ t.step = "apply" /\ t.list = task[k].list /\ t.want = task[k].want
      /\ t.kind = "reload"
  BY <1>2 DEF Reloads
<1>5. task' = [task EXCEPT ![k] = t]
  BY <1>1, <1>2
<1> HIDE DEF t
<1>6. TaskFit(t, used, strays)
  BY <1>1, <1>2, <1>3, <1>4, ReloadFits DEF TaskFit
<1> HIDE DEF s
<1>7. DiskFits'
  BY <1>1, <1>3, DiskPut DEF TaskInv, history
<1>8. jj' \subseteq Workspace /\ rows' \subseteq Workspace
  BY <1>1 DEF TaskInv, WorldFits
<1>9. TaskInv'
  BY <1>1, <1>5, <1>6, <1>7, <1>8, TaskStepFits
<1> QED BY <1>4, <1>5, <1>6, <1>9 DEF SameOperation

-----------------------------------------------------------------------------
(* The steps of the main thread.                                              *)

LEMMA TasksStay ==
  ASSUME TasksFit, used \subseteq used', strays \subseteq strays', UNCHANGED task
  PROVE  TasksFit'
BY TaskFitGrows DEF TasksFit

LEMMA PendingStays ==
  ASSUME PendingFits, used \subseteq used', strays \subseteq strays', UNCHANGED pending
  PROVE  PendingFits'
BY FitGrows DEF PendingFits

LEMMA OpenFits ==
  ASSUME TaskInv, NEW k \in Slot, NEW w \in Workspace, OpenWorkspace(w, k)
  PROVE  TaskInv'
<1>1. /\ w \in listed /\ active' = w /\ shown' = None /\ task' = [task EXCEPT ![k] = LoadTask(w)]
      /\ listed' = listed /\ live' = live /\ failed' = failed /\ flushing' = flushing
      /\ UNCHANGED pending /\ UNCHANGED <<kills, world>> /\ used' = used /\ strays' = strays /\ closed' = closed
      /\ reloads' = reloads /\ faulty' = faulty /\ faults' = faults /\ disturbed' \in BOOLEAN
  BY DEF OpenWorkspace, Start, Use
<1>2. TaskFit(LoadTask(w), used, strays)
  <2>1. LoadTask(w) \in Loads /\ LoadTask(w).snap = None /\ LoadTask(w).step = "read"
    BY DEF LoadTask, Loads
  <2> QED BY <2>1, LoadFits
<1>3. AppFits'
  BY <1>1 DEF TaskInv, AppFits
<1>4. PendingFits'
  BY <1>1, PendingStays DEF TaskInv
<1>5. TasksFit'
  BY <1>1, <1>2, TaskPut DEF TaskInv
<1>6. DiskFits' /\ WorldFits'
  BY <1>1 DEF TaskInv, DiskFits, WorldFits, world
<1>7. HistoryFits'
  BY <1>1 DEF TaskInv, HistoryFits
<1> QED BY <1>3, <1>4, <1>5, <1>6, <1>7 DEF TaskInv

LEMMA LoadApplyFits ==
  ASSUME TaskInv, NEW k \in Slot, LoadApply(k)
  PROVE  /\ TaskInv'
         /\ IF active = task[k].ws
            THEN /\ shown' # None /\ shown'.ws = task[k].snap.ws
                 /\ shown'.columns = task[k].snap.columns /\ Started(live, active, shown')
            ELSE shown' = shown /\ live' = live
<1>1. /\ task[k] # None /\ task[k].kind = "load" /\ task[k].step = "apply"
      /\ task' = [task EXCEPT ![k] = None]
      /\ listed' = listed /\ active' = active /\ flushing' = flushing
      /\ UNCHANGED pending /\ UNCHANGED <<kills, jj, rows, disk>> /\ used' = used /\ strays' = strays /\ closed' = closed
      /\ reloads' = reloads /\ faulty' = faulty /\ disturbed' = disturbed
  BY DEF LoadApply, Finish, At
<1>2. TaskFit(task[k], used, strays) /\ task[k].ws \in Workspace
  <2>1. TaskFit(task[k], used, strays) /\ task[k] \in Loads
    BY <1>1, TaskIs
  <2> QED BY <2>1 DEF Loads
<1>3. Fit(task[k].snap, used, strays)
  BY <1>1, <1>2 DEF TaskFit
<1>4. LiveFits(live) /\ failed \subseteq Workspace \X Terminal /\ faults \in 0 .. MaxFaults /\ shells \subseteq Shell
  BY DEF TaskInv, AppFits, HistoryFits, WorldFits
<1>5. /\ IF active = task[k].ws
         THEN /\ shown' # None /\ shown'.ws = task[k].snap.ws
              /\ shown'.columns = task[k].snap.columns /\ Started(live, active, shown')
         ELSE shown' = shown /\ live' = live
      /\ LiveFits(live') /\ failed' \subseteq Workspace \X Terminal
      /\ faults' \in 0 .. MaxFaults /\ shells' \subseteq Shell
      /\ shown' # None => active # None /\ Fit(shown', used, strays)
  <2>1. CASE active = task[k].ws
    <3>1. Present(active, task[k].snap, live, failed)
      BY <2>1 DEF LoadApply
    <3>2. active \in Workspace /\ active # None
      BY <1>2, <2>1, NoneAssumption
    <3> QED BY <2>1, <1>3, <1>4, <3>1, <3>2, PresentFits
  <2>2. CASE active # task[k].ws
    <3>1. shown' = shown /\ live' = live /\ failed' = failed /\ shells' = shells /\ faults' = faults
      BY <2>2 DEF LoadApply
    <3>2. shown # None => active # None /\ Fit(shown, used, strays)
      BY DEF TaskInv, AppFits
    <3> QED BY <2>2, <1>4, <3>1, <3>2
  <2> QED BY <2>1, <2>2
<1>6. AppFits'
  BY <1>1, <1>5 DEF TaskInv, AppFits
<1>7. PendingFits'
  BY <1>1, PendingStays DEF TaskInv
<1>8. TasksFit'
  BY <1>1, TaskPut DEF TaskInv
<1>9. DiskFits'
  BY <1>1, DiskStays DEF TaskInv
<1>10. WorldFits' /\ HistoryFits'
  BY <1>1, <1>5 DEF TaskInv, WorldFits, HistoryFits
<1> QED BY <1>5, <1>6, <1>7, <1>8, <1>9, <1>10 DEF TaskInv

\* The layout on the screen has the columns it had.
SameLayout == shown # None /\ shown' # None /\ shown'.ws = shown.ws /\ shown'.columns = shown.columns

\* The layout that a pane is added to.
LEMMA BaseFits ==
  ASSUME TaskInv, active # None
  PROVE  Fit(IF shown = None THEN EmptyLayout(active) ELSE shown, used, strays)
BY EmptyFits DEF TaskInv, AppFits

LEMMA AddPaneFits ==
  ASSUME TaskInv, NEW k \in Slot, NEW p \in Pane, AddPane(p, k)
  PROVE  /\ TaskInv' /\ shown' # None /\ task' = [task EXCEPT ![k] = SaveTask(shown')]
         /\ shown # None => shown'.ws = shown.ws /\ Panes(shown') = Panes(shown) \cup {p}
         /\ Started(live, active, shown')
<1> DEFINE base == IF shown = None THEN EmptyLayout(active) ELSE shown
           added == AddToLayout(base, p)
           s == Adopt(active, added)
<1>1. /\ active # None /\ p \notin used /\ task' = [task EXCEPT ![k] = SaveTask(s)]
      /\ shown' = s /\ EnsureLive(active, s, live, failed) /\ used' = used \cup {p} /\ strays' = strays
      /\ listed' = listed /\ active' = active /\ flushing' = flushing
      /\ UNCHANGED pending /\ UNCHANGED <<kills, jj, rows, disk>> /\ closed' = closed
      /\ reloads' = reloads /\ faulty' = faulty /\ disturbed' \in BOOLEAN
  BY DEF AddPane, Start, Use
<1>2. active \in Workspace
  BY <1>1 DEF TaskInv, AppFits
<1>3. Fit(base, used, strays)
  BY <1>1, BaseFits
<1>13. shown # None => base = shown
  OBVIOUS
<1> HIDE DEF base
<1>4. Fit(added, used', strays') /\ added.ws = base.ws /\ Panes(added) = Panes(base) \cup {p}
  BY <1>1, <1>3, AddFits
<1> HIDE DEF added
<1>5. Fit(s, used', strays') /\ s.ws = added.ws /\ s.columns = added.columns /\ s # None
  BY <1>2, <1>4, AdoptFits
<1> HIDE DEF s
<1>14. Panes(s) = Panes(added)
  BY <1>5 DEF Panes
<1>6. LiveFits(live) /\ failed \subseteq Workspace \X Terminal /\ faults \in 0 .. MaxFaults /\ shells \subseteq Shell
  BY DEF TaskInv, AppFits, HistoryFits, WorldFits
<1>7. /\ LiveFits(live') /\ failed' \subseteq Workspace \X Terminal
      /\ faults' \in 0 .. MaxFaults /\ shells' \subseteq Shell
      /\ Started(live, active, s)
  <2>1. /\ LiveFits(live') /\ failed' \subseteq Workspace \X Terminal
        /\ faults' \in 0 .. MaxFaults /\ shells' \subseteq Shell
        /\ \A key \in Key : live'[key] # live[key] => key[1] = active /\ key[2] \in Terminals(s)
    BY <1>1, <1>2, <1>5, <1>6, EnsureLiveFits
  <2> QED BY <2>1 DEF Started, Terminals
<1>8. AppFits'
  BY <1>1, <1>5, <1>7 DEF TaskInv, AppFits
<1>9. PendingFits'
  BY <1>1, PendingStays DEF TaskInv
<1>10. TasksFit'
  BY <1>1, <1>5, SaveFits, TaskPut DEF TaskInv
<1>11. DiskFits'
  BY <1>1, DiskStays DEF TaskInv
<1>12. WorldFits' /\ HistoryFits'
  BY <1>1, <1>7 DEF TaskInv, WorldFits, HistoryFits
<1> QED BY <1>1, <1>4, <1>5, <1>7, <1>8, <1>9, <1>10, <1>11, <1>12, <1>13, <1>14 DEF TaskInv

\* Only the layout on the screen changes, and it is saved or not.
LEMMA ShownFits ==
  ASSUME TaskInv, NEW k \in Slot, Fit(shown', used, strays'), active # None,
         task' = task \/ task' = [task EXCEPT ![k] = SaveTask(shown')],
         UNCHANGED <<listed, active, live, failed, pending, flushing, kills, world,
                     used, closed, reloads, faulty, faults>>,
         strays \subseteq strays', strays' \subseteq Pane, disturbed' \in BOOLEAN
  PROVE  TaskInv'
<1>1. /\ listed' = listed /\ active' = active /\ live' = live /\ failed' = failed
      /\ UNCHANGED pending /\ flushing' = flushing /\ kills' = kills /\ UNCHANGED world
      /\ used' = used /\ closed' = closed /\ reloads' = reloads /\ faulty' = faulty
      /\ faults' = faults
  OBVIOUS
<1>2. AppFits'
  BY <1>1 DEF TaskInv, AppFits
<1>3. PendingFits'
  BY <1>1, PendingStays DEF TaskInv
<1>4. TasksFit'
  BY <1>1, SaveFits, TaskPut, TasksStay DEF TaskInv
<1>5. DiskFits'
  BY <1>1, DiskStays DEF TaskInv, world
<1>6. WorldFits' /\ HistoryFits'
  BY <1>1 DEF TaskInv, WorldFits, HistoryFits, world
<1> QED BY <1>2, <1>3, <1>4, <1>5, <1>6 DEF TaskInv

LEMMA ShownIs ==
  ASSUME TaskInv, shown # None
  PROVE  /\ Fit(shown, used, strays) /\ shown \in Snapshot /\ active # None /\ active \in Workspace
         /\ shown.ws \in Workspace
<1>1. Fit(shown, used, strays) /\ active # None /\ active \in Workspace
  BY DEF TaskInv, AppFits
<1> QED BY <1>1, SnapshotIs DEF Fit

LEMMA FocusStepFits ==
  ASSUME TaskInv, NEW k \in Slot,
         \/ \E p \in Pane : SelectPane(p, k) \/ ActivateTerminal(p) \/ TypeLive(p)
         \/ NavigatePane(k)
  PROVE  TaskInv' /\ SameLayout
<1>1. shown # None
  BY DEF SelectPane, ActivateTerminal, TypeLive, NavigatePane
<1>2. Fit(shown, used, strays) /\ shown \in Snapshot /\ active # None
  BY <1>1, ShownIs
<1>0. strays \subseteq Pane /\ Panes(shown) \subseteq Pane
  BY <1>2, SnapshotIs DEF TaskInv, HistoryFits
<1>3. ASSUME NEW p \in Pane, Focus(p, k)
      PROVE  TaskInv' /\ SameLayout
  <2>0. strays' = strays \cup ({p} \ Panes(shown)) /\ shown' = [shown EXCEPT !.focus = p]
    BY <1>3 DEF Focus
  <2>1. Fit(shown', used, strays') /\ shown'.ws = shown.ws /\ shown'.columns = shown.columns
    <3>1. strays \subseteq strays' /\ p \in Panes(shown) \cup strays'
      BY <2>0
    <3> QED BY <1>2, <2>0, <3>1, FocusFits
  <2>2. task' = [task EXCEPT ![k] = SaveTask(shown')] /\ disturbed' \in BOOLEAN
        /\ UNCHANGED <<listed, active, live, failed, pending, flushing, kills, world,
                       used, closed, reloads, faulty, faults>>
        /\ strays \subseteq strays' /\ strays' \subseteq Pane
    BY <1>0, <1>3, <2>0 DEF Focus, Start, Use
  <2>3. shown' # None
    BY <2>1, SnapshotIs DEF Fit
  <2> QED BY <1>1, <1>2, <2>1, <2>2, <2>3, ShownFits DEF SameLayout
<1>4. ASSUME NEW p \in Panes(shown), ActivateTerminal(p) \/ TypeLive(p)
      PROVE  TaskInv' /\ SameLayout
  <2>1. Fit(shown', used, strays) /\ shown'.ws = shown.ws /\ shown'.columns = shown.columns
    <3>1. p \in Pane /\ p \in Panes(shown) \cup strays /\ shown' = [shown EXCEPT !.focus = p]
      BY <1>0, <1>4 DEF ActivateTerminal, TypeLive
    <3> QED BY <1>2, <3>1, FocusFits
  <2>2. task' = task /\ disturbed' = disturbed
        /\ UNCHANGED <<listed, active, live, failed, pending, flushing, kills, world,
                       used, strays, closed, reloads, faulty, faults>>
    BY <1>4 DEF ActivateTerminal, TypeLive, history
  <2>3. disturbed' \in BOOLEAN
    BY <2>2 DEF TaskInv, HistoryFits
  <2>4. shown' # None
    BY <2>1, SnapshotIs DEF Fit
  <2> QED BY <1>0, <1>1, <1>2, <2>1, <2>2, <2>3, <2>4, ShownFits DEF SameLayout
<1>5. ASSUME NEW p \in Pane, SelectPane(p, k)
      PROVE  TaskInv' /\ SameLayout
  BY <1>3, <1>5 DEF SelectPane
<1>6. ASSUME NEW p \in Pane, ActivateTerminal(p)
      PROVE  TaskInv' /\ SameLayout
  <2>1. p \in Panes(shown)
    BY <1>6 DEF ActivateTerminal, Terminals
  <2> QED BY <1>4, <1>6, <2>1
<1>7. ASSUME NEW p \in Pane, TypeLive(p)
      PROVE  TaskInv' /\ SameLayout
  <2>1. p \in Panes(shown)
    BY <1>7 DEF TypeLive, InputPanes, Terminals
  <2> QED BY <1>4, <1>7, <2>1
<1>8. CASE NavigatePane(k)
  <2>1. PICK p \in NavigationTargets(shown) : Focus(p, k)
    BY <1>8 DEF NavigatePane
  <2>2. p \in Pane
    BY <1>0, <1>2, NavigationFits
  <2> QED BY <1>3, <2>1, <2>2
<1> QED BY <1>5, <1>6, <1>7, <1>8

LEMMA DrainFits ==
  ASSUME TaskInv, NEW p \in Pane, DrainOutput(p)
  PROVE  TaskInv' /\ SameLayout
<1>1. /\ shown # None /\ active # None /\ shown' = [shown EXCEPT !.session[p] = live[<<active, p>>]]
      /\ UNCHANGED <<listed, active, live, failed, pending, flushing, task, kills, world, history>>
  BY DEF DrainOutput
<1>2. Fit(shown, used, strays) /\ shown \in Snapshot /\ active \in Workspace
  BY <1>1, ShownIs
<1>3. shown.session \in [Pane -> Shell \cup {None}] /\ live[<<active, p>>] \in Shell \cup {None}
  BY <1>2, SnapshotIs DEF TaskInv, AppFits, LiveFits, Key
<1> DEFINE f == [shown.session EXCEPT ![p] = live[<<active, p>>]]
<1>4. shown' = [shown EXCEPT !.session = f] /\ f \in [Pane -> Shell \cup {None}]
  BY <1>1, <1>2, <1>3 DEF Snapshot
<1> HIDE DEF f
<1>5. Fit(shown', used, strays) /\ shown'.ws = shown.ws /\ shown'.columns = shown.columns
  BY <1>2, <1>4, SessionsFit
<1>6. AppFits'
  BY <1>1, <1>5 DEF TaskInv, AppFits, history
<1>7. PendingFits' /\ TasksFit'
  BY <1>1, PendingStays, TasksStay DEF TaskInv, history
<1>8. DiskFits'
  BY <1>1, DiskStays DEF TaskInv, world, history
<1>9. WorldFits' /\ HistoryFits'
  BY <1>1 DEF TaskInv, WorldFits, HistoryFits, world, history
<1>10. shown' # None
  BY <1>5, SnapshotIs DEF Fit
<1> QED BY <1>1, <1>5, <1>6, <1>7, <1>8, <1>9, <1>10 DEF TaskInv, SameLayout

LEMMA CloseFits ==
  ASSUME TaskInv, NEW k \in Slot, CloseActivePane(k)
  PROVE  /\ TaskInv' /\ shown # None /\ shown' # None /\ shown'.ws = shown.ws
         /\ \E s : /\ task' = [task EXCEPT ![k] = SaveTask(s)] /\ s.ws = shown.ws
                   /\ shown'.columns = s.columns /\ Panes(s) = Panes(shown) \ {shown.focus}
                   /\ Fit(s, used, strays)
         /\ Started([live EXCEPT ![<<shown.ws, shown.focus>>] = None], active, shown')
<1> DEFINE p == shown.focus
           key == <<shown.ws, p>>
           s == RemoveFromLayout(shown, p)
           lives == [live EXCEPT ![key] = None]
           gone == IF live[key] # None THEN live[key] ELSE shown.session[p]
<1>1. /\ shown # None /\ p \in Panes(shown) /\ task' = [task EXCEPT ![k] = SaveTask(s)]
      /\ shown' = Adopt(active, s) /\ EnsureLive(active, s, lives, failed)
      /\ kills' = kills \cup ({gone} \ {None}) /\ closed' = closed \cup {p}
      /\ listed' = listed /\ active' = active /\ flushing' = flushing
      /\ UNCHANGED pending /\ UNCHANGED <<jj, rows, disk>> /\ used' = used /\ strays' = strays
      /\ reloads' = reloads /\ faulty' = faulty /\ disturbed' \in BOOLEAN
  BY DEF CloseActivePane, Start, Use
<1>2. Fit(shown, used, strays) /\ shown \in Snapshot /\ active # None /\ active \in Workspace
  BY <1>1, ShownIs
<1>3. p \in Pane /\ shown.ws \in Workspace /\ shown.session \in [Pane -> Shell \cup {None}]
  BY <1>1, <1>2, SnapshotIs
<1>4. key \in Key
  BY <1>3 DEF Key
<1>5. LiveFits(live) /\ failed \subseteq Workspace \X Terminal /\ faults \in 0 .. MaxFaults /\ shells \subseteq Shell
      /\ kills \subseteq Shell
  BY DEF TaskInv, AppFits, HistoryFits, WorldFits
<1> HIDE DEF key
<1>6. LiveFits(lives)
  BY <1>4, <1>5 DEF LiveFits
<1>7. kills' \subseteq Shell
  BY <1>1, <1>3, <1>4, <1>5 DEF LiveFits
<1>8. Fit(s, used, strays) /\ s.ws = shown.ws /\ Panes(s) = Panes(shown) \ {shown.focus}
  BY <1>2, <1>3, RemoveFits
<1> HIDE DEF lives, gone, p
<1> HIDE DEF s
<1>9. Fit(shown', used, strays) /\ shown'.ws = s.ws /\ shown'.columns = s.columns /\ shown' # None
  BY <1>1, <1>2, <1>8, AdoptFits
<1>10. /\ LiveFits(live') /\ failed' \subseteq Workspace \X Terminal
       /\ faults' \in 0 .. MaxFaults /\ shells' \subseteq Shell
       /\ Started(lives, active, shown')
  <2>1. /\ LiveFits(live') /\ failed' \subseteq Workspace \X Terminal
        /\ faults' \in 0 .. MaxFaults /\ shells' \subseteq Shell
        /\ \A id \in Key : live'[id] # lives[id] => id[1] = active /\ id[2] \in Terminals(s)
    BY <1>1, <1>2, <1>5, <1>6, <1>8, EnsureLiveFits
  <2> QED BY <1>9, <2>1 DEF Started, Terminals, Panes
<1>11. AppFits'
  BY <1>1, <1>2, <1>9, <1>10 DEF TaskInv, AppFits
<1>12. PendingFits'
  BY <1>1, PendingStays DEF TaskInv
<1>13. TasksFit'
  BY <1>1, <1>8, SaveFits, TaskPut DEF TaskInv
<1>14. DiskFits'
  BY <1>1, DiskStays DEF TaskInv
<1>15. WorldFits' /\ HistoryFits'
  BY <1>1, <1>3, <1>7, <1>10 DEF TaskInv, WorldFits, HistoryFits
<1>16. Started([live EXCEPT ![<<shown.ws, shown.focus>>] = None], active, shown')
  BY <1>10 DEF lives, key, p
<1> QED BY <1>1, <1>8, <1>9, <1>11, <1>12, <1>13, <1>14, <1>15, <1>16 DEF TaskInv

LEMMA KillFits ==
  ASSUME TaskInv, NEW s \in Shell, KillRun(s) \/ KillFail(s)
  PROVE  TaskInv'
<1>1. /\ UNCHANGED app /\ task' = task /\ UNCHANGED <<jj, rows, disk, used, strays, closed, reloads, faulty, disturbed>>
      /\ kills' = kills \ {s} /\ shells' \subseteq shells /\ (faults' = faults \/ Fault)
  BY DEF KillRun, KillFail, history, world
<1>2. AppFits' /\ PendingFits'
  BY <1>1, AppStays DEF TaskInv
<1>3. TasksFit' /\ DiskFits'
  BY <1>1, TasksStay, DiskStays DEF TaskInv
<1>4. faults' \in 0 .. MaxFaults
  BY <1>1, TaskSpaceAssumption DEF Fault, TaskInv, HistoryFits
<1>5. WorldFits' /\ HistoryFits'
  BY <1>1, <1>4 DEF TaskInv, WorldFits, HistoryFits
<1> QED BY <1>2, <1>3, <1>5 DEF TaskInv

LEMMA TerminalExitFits ==
  ASSUME TaskInv, NEW k \in Slot, NEW w \in Workspace, NEW p \in Pane, TerminalExit(w, p, k)
  PROVE  /\ TaskInv'
         /\ \/ /\ shown # None /\ shown' # None /\ shown'.ws = shown.ws /\ shown.ws = w
               /\ task' = [task EXCEPT ![k] = SaveTask(shown')]
               /\ Panes(shown') = Panes(shown) \ {p} /\ Fit(shown', used, strays)
            \/ /\ ~ (shown # None /\ shown.ws = w /\ p \in Panes(shown)) /\ shown' = shown
               /\ p \in Terminal
               /\ task' = [task EXCEPT ![k] = ExitTask(w, p)]
<1> DEFINE key == <<w, p>>
           s == RemoveFromLayout(shown, p)
<1>1. /\ active # None /\ live[key] # None /\ shells' \subseteq shells
      /\ live' = [live EXCEPT ![key] = None] /\ failed' = failed \ {key} /\ closed' = closed \cup {p}
      /\ listed' = listed /\ active' = active /\ flushing' = flushing
      /\ UNCHANGED pending /\ UNCHANGED <<kills, jj, rows, disk>> /\ used' = used /\ strays' = strays
      /\ reloads' = reloads /\ faulty' = faulty /\ faults' = faults /\ disturbed' \in BOOLEAN
  BY DEF TerminalExit, Use
<1>2. \/ shown # None /\ shown.ws = w /\ shown' = s /\ task' = [task EXCEPT ![k] = SaveTask(s)]
      \/ ~ (shown # None /\ shown.ws = w /\ p \in Panes(shown)) /\ shown' = shown /\ task' = [task EXCEPT ![k] = ExitTask(w, p)]
  BY DEF TerminalExit, Start
<1>3. key \in Key /\ key[2] = p
  BY DEF Key
<1> HIDE DEF key
<1>4. LiveFits(live') /\ p \in Terminal
  BY <1>1, <1>3 DEF TaskInv, AppFits, LiveFits
<1>10. shown # None => Fit(s, used, strays) /\ s.ws = shown.ws /\ Panes(s) = Panes(shown) \ {p} /\ s # None
  <2>1. shown # None => Fit(s, used, strays) /\ s.ws = shown.ws /\ Panes(s) = Panes(shown) \ {p}
    BY ShownIs, RemoveFits
  <2> QED BY <2>1, SnapshotIs DEF Fit
<1>5. (shown' # None => Fit(shown', used, strays)) /\ TasksFit'
  <2>1. CASE shown # None /\ shown' = s /\ task' = [task EXCEPT ![k] = SaveTask(s)]
    <3>1. Fit(s, used, strays)
      BY <2>1, ShownIs, RemoveFits
    <3> HIDE DEF s
    <3> QED BY <1>1, <2>1, <3>1, SaveFits, TaskPut DEF TaskInv
  <2>2. CASE shown' = shown /\ task' = [task EXCEPT ![k] = ExitTask(w, p)]
    <3>1. ExitTask(w, p) \in Exits /\ ExitTask(w, p).snap = None /\ ExitTask(w, p).step = "read"
      BY <1>4 DEF ExitTask, Exits
    <3>2. TaskFit(ExitTask(w, p), used', strays')
      BY <3>1, ExitFits
    <3> QED BY <1>1, <2>2, <3>2, ShownIs, TaskPut DEF TaskInv
  <2> QED BY <1>2, <2>1, <2>2
<1>6. AppFits'
  BY <1>1, <1>4, <1>5 DEF TaskInv, AppFits
<1>7. PendingFits'
  BY <1>1, PendingStays DEF TaskInv
<1>8. DiskFits'
  BY <1>1, DiskStays DEF TaskInv
<1>9. WorldFits' /\ HistoryFits'
  BY <1>1 DEF TaskInv, WorldFits, HistoryFits
<1>11. TaskInv'
  BY <1>5, <1>6, <1>7, <1>8, <1>9 DEF TaskInv
<1> HIDE DEF s
<1> QED BY <1>2, <1>4, <1>10, <1>11

LEMMA TypeQueuedFits ==
  ASSUME TaskInv, NEW k \in Slot, NEW p \in Pane, TypeQueued(p, k)
  PROVE  /\ TaskInv' /\ SameLayout
         /\ Len(pending) \in Nat /\ DOMAIN pending = 1 .. Len(pending) /\ DOMAIN pending' = 1 .. (Len(pending) + 1)
         /\ pending'[Len(pending) + 1].snap = shown'
         /\ \A j \in DOMAIN pending : pending'[j] = pending[j]
<1> DEFINE s == [shown EXCEPT !.focus = p]
           i == [ws |-> active, snap |-> s, pane |-> p]
<1>1. /\ active # None /\ shown # None /\ p \in InputPanes(shown)
      /\ shown' = s /\ pending' = Append(pending, i) /\ flushing' = TRUE
      /\ (task' = task \/ task' = [task EXCEPT ![k] = FlushTask])
      /\ listed' = listed /\ active' = active /\ live' = live /\ failed' = failed
      /\ UNCHANGED <<kills, world>> /\ used' = used /\ strays' = strays /\ closed' = closed
      /\ reloads' = reloads /\ faulty' = faulty /\ faults' = faults /\ disturbed' \in BOOLEAN
  BY DEF TypeQueued, Start, Use
<1>2. Fit(shown, used, strays) /\ active \in Workspace /\ p \in Panes(shown)
  BY <1>1, ShownIs DEF InputPanes, Terminals
<1>3. Fit(s, used, strays) /\ s.ws = shown.ws /\ s.columns = shown.columns
  BY <1>2, FocusFits
<1> HIDE DEF s
<1>4. i \in Input /\ i.snap = s
  BY <1>2, <1>3 DEF Input, Fit
<1> HIDE DEF i
<1>5. pending \in Seq(Input) /\ Len(pending) \in Nat /\ \A j \in 1 .. Len(pending) : Fit(pending[j].snap, used, strays)
  <2>1. pending \in Seq(Input)
    BY DEF TaskInv, PendingFits
  <2>2. Len(pending) \in Nat /\ DOMAIN pending = 1 .. Len(pending)
    BY <2>1, LenProperties
  <2> QED BY <2>1, <2>2 DEF TaskInv, PendingFits
<1>6. pending' \in Seq(Input) /\ Len(pending') = Len(pending) + 1
      /\ pending'[Len(pending) + 1] = i /\ \A j \in 1 .. Len(pending) : pending'[j] = pending[j]
  BY <1>1, <1>4, <1>5, AppendProperties
<1>7. DOMAIN pending' = 1 .. Len(pending')
  BY <1>6, LenProperties
<1>8. \A j \in DOMAIN pending' : j = Len(pending) + 1 \/ j \in 1 .. Len(pending)
  BY <1>5, <1>6, <1>7
<1>9. \A j \in DOMAIN pending' : Fit(pending'[j].snap, used, strays)
  BY <1>3, <1>4, <1>5, <1>6, <1>8
<1>10. PendingFits'
  BY <1>1, <1>6, <1>9 DEF PendingFits
<1>11. AppFits'
  BY <1>1, <1>3 DEF TaskInv, AppFits
<1>12. TasksFit'
  BY <1>1, FlushTaskFits, TaskPut, TasksStay DEF TaskInv
<1>13. DiskFits'
  BY <1>1, DiskStays DEF TaskInv, world
<1>14. WorldFits' /\ HistoryFits'
  BY <1>1 DEF TaskInv, WorldFits, HistoryFits, world
<1>15. shown' # None
  BY <1>1, <1>3, SnapshotIs DEF Fit
<1>16. SameLayout
  BY <1>1, <1>3, <1>15 DEF SameLayout
<1>17. DOMAIN pending = 1 .. Len(pending)
  BY <1>5, LenProperties
<1>18. TaskInv'
  BY <1>10, <1>11, <1>12, <1>13, <1>14 DEF TaskInv
<1> QED BY <1>1, <1>4, <1>5, <1>6, <1>7, <1>16, <1>17, <1>18

LEMMA FlushTakeFits ==
  ASSUME TaskInv, NEW k \in Slot, FlushTake(k)
  PROVE  /\ TaskInv'
         /\ IF pending = <<>> THEN task' = [task EXCEPT ![k] = None]
            ELSE \E t : /\ TaskFit(t, used, strays) /\ task' = [task EXCEPT ![k] = t]
                        /\ t.kind = "flush" /\ t.step = "send" /\ t.batch = pending
<1> DEFINE t == [task[k] EXCEPT !.step = "send", !.batch = pending, !.done = <<>>]
<1>1. /\ task[k] # None /\ task[k].kind = "flush" /\ pending' = <<>>
      /\ listed' = listed /\ active' = active /\ shown' = shown /\ live' = live /\ failed' = failed
      /\ UNCHANGED <<kills, world, history>> /\ used' = used /\ strays' = strays
      /\ \/ pending = <<>> /\ flushing' = FALSE /\ task' = [task EXCEPT ![k] = None]
         \/ pending # <<>> /\ flushing' = flushing /\ task' = [task EXCEPT ![k] = t]
  BY DEF FlushTake, At, Finish, history
<1>2. task[k] \in Flushes
  BY <1>1, TaskIs
<1>3. pending \in Seq(Input) /\ \A j \in DOMAIN pending : Fit(pending[j].snap, used, strays)
  BY DEF TaskInv, PendingFits
<1>4. <<>> \in Seq(Snapshot) /\ <<>> \in Seq(Input) /\ DOMAIN <<>> = {}
  BY EmptySeq
<1>5. t \in Flushes /\ t.batch = pending /\ t.kind = "flush" /\ t.step = "send"
  BY <1>2, <1>3, <1>4 DEF Flushes
<1> HIDE DEF t
<1>6. TaskFit(t, used, strays)
  BY <1>3, <1>5, FlushFits
<1>7. TasksFit'
  BY <1>1, <1>6, TaskPut DEF TaskInv
<1>8. AppFits'
  BY <1>1 DEF TaskInv, AppFits
<1>9. PendingFits'
  BY <1>1, <1>4 DEF PendingFits
<1>10. DiskFits'
  BY <1>1, DiskStays DEF TaskInv, world
<1>11. WorldFits' /\ HistoryFits'
  BY <1>1 DEF TaskInv, WorldFits, HistoryFits, world, history
<1>12. TaskInv'
  BY <1>7, <1>8, <1>9, <1>10, <1>11 DEF TaskInv
<1> QED BY <1>1, <1>5, <1>6, <1>12

\* The latest of some positions of a sequence.
LEMMA LatestIs ==
  ASSUME NEW n \in Nat, NEW S \in SUBSET (1 .. n), S # {}
  PROVE  (CHOOSE i \in S : \A j \in S : j <= i) \in S
<1> DEFINE i == Nth(S, Cardinality(S))
<1>1. IsFiniteSet(S) /\ Cardinality(S) \in Nat
  BY FinitePositions
<1>2. Cardinality(S) # 0
  BY <1>1, FS_EmptySet
<1>3. Cardinality(S) \in 1 .. Cardinality(S)
  BY <1>1, <1>2
<1>4. i \in S /\ Rank(S, i) = Cardinality(S)
  BY <1>3, NthRank
<1> HIDE DEF i
<1>5. ASSUME NEW j \in S
      PROVE  j <= i
  <2>1. ~ (i < j)
    <3>1. Rank(S, j) \in 1 .. Cardinality(S) /\ (i < j => Rank(S, i) < Rank(S, j))
      BY <1>4, RankGrows
    <3> QED BY <1>1, <1>4, <3>1
  <2>2. i \in Int /\ j \in Int
    BY <1>4
  <2> QED BY <2>1, <2>2
<1> QED BY <1>4, <1>5

LEMMA FlushApplyFits ==
  ASSUME TaskInv, NEW k \in Slot, FlushApply(k)
  PROVE  TaskInv' /\ (shown' = None \/ SameLayout) /\ (shown' = None => shown = None)
<1> DEFINE newer == {pending[i].pane : i \in DOMAIN pending}
           finished == task[k].done
           done == {i \in DOMAIN finished : shown # None /\ finished[i].ws = shown.ws}
           updates(p) == {i \in done : p \in Terminals(finished[i])}
           latest(p) == CHOOSE i \in updates(p) : \A j \in updates(p) : j <= i
           f == [p \in Pane |-> IF p \in Panes(shown) \ newer /\ updates(p) # {}
                                THEN finished[latest(p)].session[p] ELSE shown.session[p]]
<1>1. /\ task[k] # None /\ task[k].kind = "flush" /\ task' = [task EXCEPT ![k] = FlushTask]
      /\ shown' = IF shown = None THEN None ELSE [shown EXCEPT !.session = f]
      /\ UNCHANGED <<listed, active, live, failed, pending, flushing, kills, world, history>>
  BY DEF FlushApply, At
<1>2. task[k] \in Flushes
  BY <1>1, TaskIs
<1>3. finished \in Seq(Snapshot)
  BY <1>2 DEF Flushes
<1> HIDE DEF finished
<1>4. Len(finished) \in Nat /\ DOMAIN finished = 1 .. Len(finished)
      /\ \A i \in DOMAIN finished : finished[i] \in Snapshot
  BY <1>3, LenProperties, ElementOfSeq
<1>5. \A i \in DOMAIN finished : finished[i].session \in [Pane -> Shell \cup {None}]
  BY <1>4, SnapshotIs
<1>6. IF shown = None THEN shown' = None ELSE Fit(shown', used, strays) /\ shown'.ws = shown.ws /\ shown'.columns = shown.columns /\ shown' # None
  <2>1. CASE shown = None
    BY <1>1, <2>1
  <2>2. CASE shown # None
    <3>1. Fit(shown, used, strays) /\ shown.session \in [Pane -> Shell \cup {None}]
      BY <2>2, ShownIs, SnapshotIs
    <3>2. ASSUME NEW p \in Pane, updates(p) # {}
          PROVE  finished[latest(p)].session[p] \in Shell \cup {None}
      <4>1. updates(p) \in SUBSET (1 .. Len(finished))
        BY <1>4
      <4>2. latest(p) \in updates(p)
        <5> HIDE DEF updates
        <5> QED BY <1>4, <3>2, <4>1, LatestIs
      <4>3. latest(p) \in DOMAIN finished
        BY <1>4, <4>1, <4>2
      <4> HIDE DEF latest
      <4> QED BY <1>5, <4>3
    <3> HIDE DEF updates, latest
    <3>3. f \in [Pane -> Shell \cup {None}]
      BY <3>1, <3>2
    <3> HIDE DEF f
    <3>4. Fit(shown', used, strays) /\ shown'.ws = shown.ws /\ shown'.columns = shown.columns
      BY <1>1, <2>2, <3>1, <3>3, SessionsFit
    <3>5. shown' # None
      BY <3>4, SnapshotIs DEF Fit
    <3> QED BY <2>2, <3>4, <3>5
  <2> QED BY <2>1, <2>2
<1>7. shown' # None => shown # None
  BY <1>1
<1> HIDE DEF f
<1>8. used' = used /\ strays' = strays
  BY <1>1 DEF history
<1>9. AppFits'
  BY <1>1, <1>6, <1>7 DEF TaskInv, AppFits, history
<1>10. TasksFit'
  BY <1>1, FlushTaskFits, TaskPut DEF TaskInv, history
<1>11. PendingFits'
  BY <1>1, PendingStays DEF TaskInv, history
<1>12. DiskFits'
  BY <1>1, DiskStays DEF TaskInv, world, history
<1>13. WorldFits' /\ HistoryFits'
  BY <1>1 DEF TaskInv, WorldFits, HistoryFits, world, history
<1> QED BY <1>6, <1>9, <1>10, <1>11, <1>12, <1>13 DEF TaskInv, SameLayout

\* What a rename moves to the new name.
LEMMA RekeyFits ==
  ASSUME TaskInv, NEW w \in Workspace, NEW to \in Workspace
  PROVE  /\ LiveFits(RekeyLive(w, to)) /\ RekeyFailed(w, to) \subseteq Workspace \X Terminal
         /\ RekeyPending(w, to) \in Seq(Input) /\ DOMAIN RekeyPending(w, to) = DOMAIN pending
         /\ \A i \in DOMAIN pending : Fit(RekeyPending(w, to)[i].snap, used, strays)
<1>1. LiveFits(live) /\ failed \subseteq Workspace \X Terminal
  BY DEF TaskInv, AppFits
<1>2. LiveFits(RekeyLive(w, to))
  <2>1. \A key \in Key : <<w, key[2]>> \in Key /\ <<w, key[2]>>[2] = key[2]
    BY DEF Key
  <2>2. RekeyLive(w, to) \in [Key -> Shell \cup {None}]
    BY <1>1, <2>1 DEF RekeyLive, LiveFits
  <2>3. ASSUME NEW key \in Key, RekeyLive(w, to)[key] # None
        PROVE  key[2] \in Terminal /\ RekeyLive(w, to)[key][2] = key[2]
    <3>1. \/ RekeyLive(w, to)[key] = live[<<w, key[2]>>]
          \/ RekeyLive(w, to)[key] = live[key]
      BY <2>3 DEF RekeyLive
    <3> QED BY <1>1, <2>1, <2>3, <3>1 DEF LiveFits
  <2> QED BY <2>2, <2>3 DEF LiveFits
<1>3. RekeyFailed(w, to) \subseteq Workspace \X Terminal
  BY <1>1 DEF RekeyFailed
<1>4. pending \in Seq(Input) /\ Len(pending) \in Nat /\ DOMAIN pending = 1 .. Len(pending)
      /\ \A i \in DOMAIN pending : pending[i] \in Input /\ Fit(pending[i].snap, used, strays)
  <2>1. pending \in Seq(Input)
    BY DEF TaskInv, PendingFits
  <2> QED BY <2>1, LenProperties, ElementOfSeq DEF TaskInv, PendingFits
<1> DEFINE R == RekeyPending(w, to)
<1>5. ASSUME NEW i \in DOMAIN pending
      PROVE  R[i] \in Input /\ Fit(R[i].snap, used, strays)
  <2> DEFINE s == [pending[i].snap EXCEPT !.ws = to]
  <2>1. Fit(s, used, strays)
    BY <1>4, WorkspaceFits
  <2>2. R[i] = IF pending[i].ws = w THEN [pending[i] EXCEPT !.ws = to, !.snap.ws = to] ELSE pending[i]
    BY DEF RekeyPending
  <2>3. [pending[i] EXCEPT !.ws = to, !.snap.ws = to] = [pending[i] EXCEPT !.ws = to, !.snap = s]
    BY <1>4 DEF Input
  <2> HIDE DEF s
  <2>4. [pending[i] EXCEPT !.ws = to, !.snap = s] \in Input
        /\ [pending[i] EXCEPT !.ws = to, !.snap = s].snap = s
    BY <1>4, <2>1 DEF Input, Fit
  <2> HIDE DEF R
  <2>5. CASE pending[i].ws = w
    BY <2>1, <2>2, <2>3, <2>4, <2>5
  <2>6. CASE pending[i].ws # w
    BY <1>4, <2>2, <2>6
  <2> QED BY <2>5, <2>6
<1>6. DOMAIN R = DOMAIN pending /\ R = [i \in DOMAIN pending |-> R[i]]
  BY DEF RekeyPending
<1>7. R \in Seq(Input)
  <2> HIDE DEF R
  <2>1. R \in [1 .. Len(pending) -> Input]
    BY <1>4, <1>5, <1>6
  <2> QED BY <1>4, <2>1
<1> QED BY <1>2, <1>3, <1>5, <1>6, <1>7

LEMMA ReloadApplyFits ==
  ASSUME TaskInv, NEW k \in Slot, ReloadApply(k)
  PROVE  /\ TaskInv'
         /\ IF task[k].want = None THEN shown' = None
            ELSE /\ shown' # None /\ shown'.ws = task[k].snap.ws
                 /\ shown'.columns = task[k].snap.columns
         /\ LET lives == IF task[k].op = "rename" THEN RekeyLive(task[k].ws, task[k].to) ELSE live
            IN \/ live' = lives
               \/ shown' # None /\ Started(lives, task[k].want, shown')
<1> DEFINE t == task[k]
           renamed == t.op = "rename"
           lives == IF renamed THEN RekeyLive(t.ws, t.to) ELSE live
           fails == IF renamed THEN RekeyFailed(t.ws, t.to) ELSE failed
<1>1. /\ t # None /\ t.kind = "reload" /\ t.step = "apply" /\ task' = [task EXCEPT ![k] = None]
      /\ listed' = t.list /\ active' = t.want
      /\ pending' = IF renamed THEN RekeyPending(t.ws, t.to) ELSE pending
      /\ flushing' = flushing /\ UNCHANGED <<kills, jj, rows, disk>> /\ used' = used /\ strays' = strays
      /\ closed' = closed /\ reloads' = reloads /\ disturbed' = disturbed /\ faulty' = faulty
  BY DEF ReloadApply, At, Finish
<1>2. /\ t \in Reloads /\ TaskFit(t, used, strays)
      /\ renamed => t.ws \in Workspace /\ t.to \in Workspace
  BY <1>1, OperationIs
<1>3. /\ t.list \subseteq Workspace /\ t.want \in Workspace \cup {None}
      /\ t.want # None => t.want \in t.list /\ t.snap # None /\ Fit(t.snap, used, strays)
  BY <1>1, <1>2 DEF TaskFit, Reloads
<1>4. LiveFits(live) /\ failed \subseteq Workspace \X Terminal /\ faults \in 0 .. MaxFaults /\ shells \subseteq Shell
  BY DEF TaskInv, AppFits, HistoryFits, WorldFits
<1>5. LiveFits(lives) /\ fails \subseteq Workspace \X Terminal
  BY <1>2, <1>4, RekeyFits
<1>6. /\ IF t.want = None THEN shown' = None
         ELSE shown' # None /\ shown'.ws = t.snap.ws /\ shown'.columns = t.snap.columns
      /\ LiveFits(live') /\ failed' \subseteq Workspace \X Terminal
      /\ faults' \in 0 .. MaxFaults /\ shells' \subseteq Shell
      /\ shown' # None => t.want # None /\ Fit(shown', used, strays)
      /\ live' = lives \/ (shown' # None /\ Started(lives, t.want, shown'))
  <2>1. CASE t.want = None
    <3>1. shown' = None /\ live' = lives /\ failed' = fails /\ shells' = shells /\ faults' = faults
      BY <2>1 DEF ReloadApply
    <3> HIDE DEF lives, fails
    <3> QED BY <2>1, <1>4, <1>5, <3>1
  <2>2. CASE t.want # None
    <3>1. Present(t.want, t.snap, lives, fails)
      BY <2>2 DEF ReloadApply
    <3> HIDE DEF lives, fails
    <3> QED BY <1>3, <1>4, <1>5, <2>2, <3>1, PresentFits
  <2> QED BY <2>1, <2>2
<1>7. AppFits'
  BY <1>1, <1>3, <1>6 DEF TaskInv, AppFits
<1>8. TasksFit'
  BY <1>1, TaskPut DEF TaskInv
<1>9. PendingFits'
  <2>1. CASE renamed
    BY <1>1, <1>2, <2>1, RekeyFits DEF PendingFits
  <2>2. CASE ~renamed
    BY <1>1, <2>2, PendingStays DEF TaskInv
  <2> QED BY <2>1, <2>2
<1>10. DiskFits'
  BY <1>1, DiskStays DEF TaskInv
<1>11. WorldFits' /\ HistoryFits'
  BY <1>1, <1>6 DEF TaskInv, WorldFits, HistoryFits
<1> QED BY <1>6, <1>7, <1>8, <1>9, <1>10, <1>11 DEF TaskInv

-----------------------------------------------------------------------------
(* The induction.                                                             *)

LEMMA LeftFits ==
  ASSUME NEW w \in Workspace, NEW p \in Stored
  PROVE  Fit(Left(w, p), Stored, {}) /\ Left(w, p).ws = w
<1> DEFINE e == EmptyLayout(w)
           f == [e.session EXCEPT ![p] = IF p \in Terminal THEN <<w, p>> ELSE None]
           c == <<p>>
           s == [e EXCEPT !.columns = c, !.focus = p, !.session = f]
<1>1. p \in Pane /\ c \in Seq(Pane) /\ e \in Snapshot /\ e.ws = w
  BY TaskSpaceAssumption, EmptyFits DEF Fit
<1>2. f \in [Pane -> Shell \cup {None}]
  BY <1>1, SnapshotIs DEF Shell
<1> HIDE DEF e
<1>3. Left(w, p) = s
  BY <1>1 DEF Left, e, Snapshot
<1>5. Len(c) = 1 /\ c[1] = p /\ c # <<>> /\ 1 \in 1 .. Len(c)
  OBVIOUS
<1> HIDE DEF f, c
<1>4. s \in Snapshot /\ s.columns = c /\ s.focus = p /\ s.ws = w
  BY <1>1, <1>2 DEF Snapshot
<1> HIDE DEF s
<1>6. \A i \in 1 .. Len(c) : i = 1
  BY <1>5
<1>7. \A i, j \in 1 .. Len(c) : c[i] = c[j] => i = j
  BY <1>6
<1>8. Fit(s, Stored, {})
  BY <1>1, <1>4, <1>5, <1>6, <1>7, ColumnsFit
<1> QED BY <1>3, <1>4, <1>8

LEMMA InitFits ==
  ASSUME Init
  PROVE  TaskInv
<1> DEFINE t == ReloadTask("start", "list", None, None, None)
<1>1. /\ listed = {} /\ active = None /\ shown = None /\ failed = {} /\ pending = <<>>
      /\ flushing = FALSE /\ live = [key \in Key |-> None] /\ kills = {}
      /\ used = Stored /\ strays = {} /\ closed = {} /\ reloads = 0
      /\ disturbed = FALSE /\ faulty = {} /\ faults = 0
      /\ jj \subseteq Existing /\ rows = jj
  BY DEF Init
<1>2. PICK k \in Slot : task = [j \in Slot |-> IF j = k THEN t ELSE None]
  BY DEF Init
<1>3. PICK W \in SUBSET rows : \E panes \in [W -> Stored] :
         /\ disk = [w \in W |-> Left(w, panes[w])]
         /\ shells \in SUBSET {<<w, panes[w]>> : w \in {w \in W : panes[w] \in Terminal}}
  <2>1. \E W \in SUBSET rows : \E panes \in [W -> Stored] :
          /\ \A v, w \in W : panes[v] = panes[w] => v = w
          /\ disk = [w \in W |-> Left(w, panes[w])]
          /\ shells \in SUBSET {<<w, panes[w]>> : w \in {w \in W : panes[w] \in Terminal}}
    BY DEF Init
  <2> QED BY <2>1
<1>4. PICK panes \in [W -> Stored] :
         /\ disk = [w \in W |-> Left(w, panes[w])]
         /\ shells \in SUBSET {<<w, panes[w]>> : w \in {w \in W : panes[w] \in Terminal}}
  BY <1>3
<1>5. jj \subseteq Workspace /\ rows \subseteq Workspace /\ W \subseteq Workspace /\ Stored \subseteq Pane
  BY <1>1, <1>3, TaskSpaceAssumption
<1>6. AppFits
  BY <1>1 DEF AppFits, LiveFits
<1>7. PendingFits
  <2>1. <<>> \in Seq(Input) /\ DOMAIN <<>> = {}
    BY EmptySeq
  <2> QED BY <1>1, <2>1 DEF PendingFits
<1>8. TasksFit
  <2>1. t \in Reloads /\ t.op = "start" /\ t.step = "list" /\ t.snap = None
    BY DEF ReloadTask, Reloads
  <2> HIDE DEF t
  <2>2. TaskFit(t, used, strays)
    BY <2>1, ReloadFits
  <2>3. t \in Tasks
    BY <2>2 DEF TaskFit
  <2> QED BY <1>2, <2>2, <2>3 DEF TasksFit
<1>9. DiskFits
  <2>1. \A w \in W : Fit(Left(w, panes[w]), used, strays)
    BY <1>1, <1>5, LeftFits
  <2> QED BY <1>1, <1>4, <1>5, <2>1 DEF DiskFits
<1>10. WorldFits
  <2>1. \A w \in W : <<w, panes[w]>> \in Shell
    BY <1>5 DEF Shell
  <2> QED BY <1>1, <1>4, <1>5, <2>1 DEF WorldFits
<1>11. HistoryFits
  <2>1. 0 \in 0 .. MaxReloads /\ 0 \in 0 .. MaxFaults
    BY TaskSpaceAssumption
  <2> QED BY <1>1, <1>5, <2>1 DEF HistoryFits
<1> QED BY <1>6, <1>7, <1>8, <1>9, <1>10, <1>11 DEF TaskInv

LEMMA StutterFits ==
  ASSUME TaskInv, UNCHANGED vars
  PROVE  TaskInv'
<1>1. UNCHANGED app /\ UNCHANGED task /\ UNCHANGED kills /\ UNCHANGED world /\ UNCHANGED history
  BY DEF vars
<1>2. used' = used /\ strays' = strays
  BY <1>1 DEF history
<1>3. AppFits' /\ PendingFits'
  BY <1>1, <1>2, AppStays DEF TaskInv
<1>4. TasksFit' /\ DiskFits'
  BY <1>1, <1>2, TasksStay, DiskStays DEF TaskInv, world
<1>5. WorldFits' /\ HistoryFits'
  BY <1>1 DEF TaskInv, WorldFits, HistoryFits, world, history
<1> QED BY <1>3, <1>4, <1>5 DEF TaskInv

LEMMA NextFits ==
  ASSUME TaskInv, Next
  PROVE  TaskInv'
<1>1. ASSUME NEW k \in Slot, TaskStep(k)
      PROVE  TaskInv'
  BY <1>1, LoadReadFits, LoadCreateFits, LoadApplyFits, LoadFailFits, SaveTaskFits, ExitTaskFits,
     FlushTakeFits, FlushSendFits, FlushSaveFits, FlushFailFits, FlushApplyFits, JJStepFits, DeleteLayoutFits, RenameCopyFits,
     RenameRowsFits, ReloadListFits, ReloadUpsertFits, ReloadReadFits, ReloadCreateFits,
     ReloadFailFits, ReloadApplyFits DEF TaskStep
<1>2. CASE User
  <2>1. PICK k \in Slot :
    \/ \E w \in Workspace :
         OpenWorkspace(w, k) \/ CreateWorkspace(w, k) \/ ForgetWorkspace(w, k)
    \/ \E w, to \in Workspace : RenameWorkspace(w, to, k)
    \/ \E p \in Pane : AddPane(p, k) \/ SelectPane(p, k) \/ ActivateTerminal(p)
                        \/ TypeLive(p) \/ TypeQueued(p, k)
    \/ NavigatePane(k) \/ CloseActivePane(k) \/ Reload(k)
    BY <1>2 DEF User
  <2> QED BY <2>1, OpenFits, OperationsFit, AddPaneFits, FocusStepFits, TypeQueuedFits, CloseFits
<1>3. CASE TerminalEvent
  BY <1>3, DrainFits, TerminalExitFits DEF TerminalEvent
<1>4. ASSUME NEW s \in Shell, KillRun(s) \/ KillFail(s)
      PROVE  TaskInv'
  BY <1>4, KillFits
<1> QED BY <1>1, <1>2, <1>3, <1>4 DEF Next

\* Every reachable state fits.
THEOREM AlwaysFits == Spec => []TaskInv
<1>1. Init => TaskInv
  BY InitFits
<1>2. TaskInv /\ [Next]_vars => TaskInv'
  BY NextFits, StutterFits
<1> QED BY <1>1, <1>2, PTL DEF Spec

\* Every reachable state of the application, its tasks, the store and the
\* history is well typed: TypeOK.
THEOREM TypeCorrect == Spec => []TypeOK
<1>1. TaskInv => TypeOK
  <2> SUFFICES ASSUME TaskInv PROVE TypeOK
    OBVIOUS
  <2>1. shown \in Snapshot \cup {None}
    BY ShownIs
  <2>2. \A w \in DOMAIN disk : disk[w] \in Snapshot
    BY DEF TaskInv, DiskFits, Fit
  <2> QED BY <2>1, <2>2
          DEF TaskInv, AppFits, PendingFits, TasksFit, DiskFits, WorldFits, HistoryFits,
              LiveFits, TypeOK
<1> QED BY <1>1, AlwaysFits, PTL

\* Whatever opens, saves, closes, reloads and renames in between: no layout, on
\* the screen, in the store or on its way, has two columns for a pane, or a
\* focus that is neither on one of its panes nor on one that was clicked on
\* after it had left (add_pane, remove_pane, select_pane and all that carries a
\* layout).
THEOREM LayoutsStaySound == Spec => []LayoutSound
<1>1. TaskInv => LayoutSound
  <2> SUFFICES ASSUME TaskInv PROVE LayoutSound
    OBVIOUS
  <2>1. shown # None => Sound(shown, strays)
    BY ShownIs DEF Fit
  <2>2. \A w \in DOMAIN disk : Sound(disk[w], strays)
    BY DEF TaskInv, DiskFits, Fit
  <2>3. ASSUME NEW k \in Slot, task[k] # None, task[k].kind \notin {"flush"}, task[k].snap # None
        PROVE  Sound(task[k].snap, strays)
    BY <2>3 DEF TaskInv, TasksFit, TaskFit, Fit
  <2>4. \A i \in DOMAIN pending : Sound(pending[i].snap, strays)
    BY DEF TaskInv, PendingFits, Fit
  <2> QED BY <2>1, <2>2, <2>3, <2>4 DEF LayoutSound
<1> QED BY <1>1, AlwaysFits, PTL

-----------------------------------------------------------------------------
(* An active workspace without a layout has a load in flight.                 *)

LEMMA LoadsKept ==
  ASSUME TaskInv, NeverBlank, NEW k \in Slot, NEW t, task' = [task EXCEPT ![k] = t],
         active' = active, shown' = None => shown = None, faulty \subseteq faulty',
         task[k] # None /\ task[k].kind = "load" /\ task[k].ws = active
           => (t # None /\ t.kind = "load" /\ t.ws = active) \/ active \in faulty' \/ shown' # None
  PROVE  NeverBlank'
<1>1. task \in [Slot -> Tasks \cup {None}]
  BY DEF TaskInv, TasksFit
<1>2. task'[k] = t /\ \A j \in Slot : j # k => task'[j] = task[j]
  BY <1>1
<1> SUFFICES ASSUME active' # None, shown' = None, active' \notin faulty'
             PROVE  \E j \in Slot : task'[j] # None /\ task'[j].kind = "load" /\ task'[j].ws = active'
  BY DEF NeverBlank
<1>3. PICK j \in Slot : task[j] # None /\ task[j].kind = "load" /\ task[j].ws = active
  BY DEF NeverBlank
<1> QED BY <1>2, <1>3

LEMMA BlankStays ==
  ASSUME NeverBlank, UNCHANGED <<active, faulty, task>>, shown' = None => shown = None
  PROVE  NeverBlank'
BY DEF NeverBlank

LEMMA OpenBlank ==
  ASSUME TaskInv, NEW k \in Slot, NEW w \in Workspace, OpenWorkspace(w, k)
  PROVE  NeverBlank'
<1>1. task' = [task EXCEPT ![k] = LoadTask(w)] /\ active' = w
  BY DEF OpenWorkspace, Start
<1>2. task'[k] = LoadTask(w)
  BY <1>1 DEF TaskInv, TasksFit
<1>3. LoadTask(w).kind = "load" /\ LoadTask(w).ws = w /\ LoadTask(w) # None
  <2>1. LoadTask(w) \in Loads /\ LoadTask(w).kind = "load" /\ LoadTask(w).ws = w
    BY DEF LoadTask, Loads
  <2> QED BY <2>1, TaskAssumption DEF Tasks
<1> QED BY <1>1, <1>2, <1>3 DEF NeverBlank

LEMMA LoadBlank ==
  ASSUME TaskInv, NeverBlank, NEW k \in Slot,
         LoadRead(k) \/ LoadCreate(k) \/ LoadFail(k) \/ LoadApply(k)
  PROVE  NeverBlank'
<1>1. task[k] # None /\ task[k].kind = "load"
  BY DEF LoadRead, LoadCreate, LoadFail, LoadApply, At
<1>2. task[k] \in Loads /\ task \in [Slot -> Tasks \cup {None}]
  BY <1>1, TaskIs
<1>3. CASE LoadRead(k)
  <2> DEFINE w == task[k].ws
             s == IF w \in DOMAIN disk THEN disk[w] ELSE EmptyLayout(w)
             step == IF w \in DOMAIN disk THEN "apply" ELSE "create"
             t == [task[k] EXCEPT !.step = step, !.snap = s]
  <2>1. task' = [task EXCEPT ![k].step = step, ![k].snap = s] /\ active' = active /\ shown' = shown
        /\ faulty' = faulty
    BY <1>3 DEF LoadRead, app, history
  <2> HIDE DEF s, step
  <2>2. task' = [task EXCEPT ![k] = t]
    BY <1>2, <2>1
  <2>3. t # None /\ t.kind = "load" /\ t.ws = task[k].ws
    <3>1. TaskInv'
      BY <1>3, LoadReadFits
    <3>2. task'[k] = t /\ t.kind = "load" /\ t.ws = task[k].ws /\ t.snap = s
      BY <1>2, <2>2 DEF Loads
    <3>3. s \in Snapshot
      <4>1. w \in Workspace
        BY <1>2 DEF Loads
      <4> QED BY <4>1, StoredFits DEF s, Fit
    <3>4. step \in {"apply", "create"}
      BY DEF step
    <3>5. t \in Loads
      BY <1>2, <3>3, <3>4 DEF Loads
    <3> QED BY <3>2, <3>5, TaskAssumption DEF Tasks
  <2> HIDE DEF t
  <2> QED BY <2>1, <2>2, <2>3, LoadsKept
<1>4. CASE LoadCreate(k)
  <2> DEFINE t == [task[k] EXCEPT !.step = "apply"]
  <2>1. task' = [task EXCEPT ![k].step = "apply"] /\ active' = active /\ shown' = shown
        /\ faulty' = faulty
    BY <1>4 DEF LoadCreate, app, history
  <2>2. task' = [task EXCEPT ![k] = t]
    BY <1>2, <2>1
  <2>3. t \in Loads /\ t.kind = "load" /\ t.ws = task[k].ws
    BY <1>2 DEF Loads
  <2>4. t # None
    BY <2>3, TaskAssumption DEF Tasks
  <2> HIDE DEF t
  <2> QED BY <2>1, <2>2, <2>3, <2>4, LoadsKept
<1>5. CASE LoadFail(k)
  <2>1. task' = [task EXCEPT ![k] = None] /\ active' = active /\ shown' = shown
        /\ faulty' = faulty \cup {task[k].ws}
    BY <1>5 DEF LoadFail, Finish, app
  <2> QED BY <2>1, LoadsKept
<1>6. CASE LoadApply(k)
  <2>1. task' = [task EXCEPT ![k] = None] /\ active' = active /\ faulty' = faulty
    BY <1>6 DEF LoadApply, Finish
  <2>2. IF active = task[k].ws THEN shown' # None ELSE shown' = shown
    BY <1>6, LoadApplyFits
  <2> QED BY <2>1, <2>2, LoadsKept
<1> QED BY <1>3, <1>4, <1>5, <1>6

\* Steps of other tasks, and the start of one.
LEMMA RuntimeBlank ==
  ASSUME TaskInv, NeverBlank, NEW k \in Slot,
         task[k] = None \/ task[k].kind # "load", \A j \in Slot : j # k => task'[j] = task[j],
         active' = active, shown' = None => shown = None, faulty' = faulty
  PROVE  NeverBlank'
<1> SUFFICES ASSUME active' # None, shown' = None, active' \notin faulty'
             PROVE  \E j \in Slot : task'[j] # None /\ task'[j].kind = "load" /\ task'[j].ws = active'
  BY DEF NeverBlank
<1>1. PICK j \in Slot : task[j] # None /\ task[j].kind = "load" /\ task[j].ws = active
  BY DEF NeverBlank
<1> QED BY <1>1

\* The other slots of a step that changes one.
LEMMA OtherTasks ==
  ASSUME NEW k \in Slot,
         \/ \E t : task' = [task EXCEPT ![k] = t]
         \/ \E a, b : task' = [task EXCEPT ![k].step = a, ![k].snap = b]
         \/ \E a, b : task' = [task EXCEPT ![k].step = a, ![k].list = b]
         \/ \E a : task' = [task EXCEPT ![k].step = a],
         TaskInv
  PROVE  \A j \in Slot : j # k => task'[j] = task[j]
<1>1. task \in [Slot -> Tasks \cup {None}]
  BY DEF TaskInv, TasksFit
<1> QED BY <1>1

LEMMA TaskStepBlank ==
  ASSUME TaskInv, NeverBlank, NEW k \in Slot,
         \/ SaveRun(k) \/ SaveFail(k) \/ ExitRead(k) \/ ExitWrite(k) \/ ExitFail(k)
         \/ FlushSend(k) \/ FlushSave(k) \/ FlushFail(k)
         \/ CreateInJJ(k) \/ ForgetInJJ(k) \/ DeleteLayout(k) \/ DeleteRow(k)
         \/ CheckName(k) \/ RenameInJJ(k) \/ RenameCopy(k) \/ RenameRows(k)
         \/ ReloadList(k) \/ ReloadUpsert(k) \/ ReloadRead(k) \/ ReloadCreate(k)
         \/ ReloadFail(k)
  PROVE  NeverBlank'
<1>1. UNCHANGED <<active, shown>> /\ faulty' = faulty
  BY DEF SaveRun, SaveFail, ExitRead, ExitWrite, ExitFail, FlushSend, FlushSave, FlushFail,
         CreateInJJ, ForgetInJJ, DeleteLayout, DeleteRow, CheckName, RenameInJJ, RenameCopy,
         RenameRows, ReloadList, ReloadUpsert, ReloadRead, ReloadCreate, ReloadFail, Step,
         app, history
<1>2. task[k].kind # "load"
  BY DEF SaveRun, SaveFail, ExitRead, ExitWrite, ExitFail, FlushSend, FlushSave, FlushFail,
         CreateInJJ, ForgetInJJ, DeleteLayout, DeleteRow, CheckName, RenameInJJ, RenameCopy,
         RenameRows, ReloadList, ReloadUpsert, ReloadRead, ReloadCreate, ReloadFail, Step, At
<1>3. \A j \in Slot : j # k => task'[j] = task[j]
  <2>1. CASE SaveRun(k) \/ SaveFail(k) \/ ExitRead(k) \/ ExitWrite(k) \/ ExitFail(k)
    BY <2>1, OtherTasks DEF SaveRun, SaveFail, ExitRead, ExitWrite, ExitFail, Finish
  <2>2. CASE FlushSend(k) \/ FlushSave(k) \/ FlushFail(k) \/ ReloadFail(k)
    BY <2>2, OtherTasks DEF FlushSend, FlushSave, FlushFail, ReloadFail, Finish
  <2>3. CASE CreateInJJ(k) \/ ForgetInJJ(k) \/ DeleteLayout(k) \/ DeleteRow(k)
             \/ CheckName(k) \/ RenameInJJ(k) \/ RenameRows(k)
    BY <2>3, OtherTasks DEF CreateInJJ, ForgetInJJ, DeleteLayout, DeleteRow, CheckName,
                            RenameInJJ, RenameRows, Step
  <2>4. CASE RenameCopy(k) \/ ReloadList(k) \/ ReloadUpsert(k) \/ ReloadRead(k) \/ ReloadCreate(k)
    BY <2>4, OtherTasks DEF RenameCopy, ReloadList, ReloadUpsert, ReloadRead, ReloadCreate
  <2> QED BY <2>1, <2>2, <2>3, <2>4
<1> QED BY <1>1, <1>2, <1>3, RuntimeBlank

LEMMA OperationsBlank ==
  ASSUME TaskInv, NeverBlank, NEW k \in Slot,
         \/ Reload(k)
         \/ \E w \in Workspace : CreateWorkspace(w, k) \/ ForgetWorkspace(w, k)
         \/ \E w, to \in Workspace : RenameWorkspace(w, to, k)
  PROVE  NeverBlank'
<1>1. PICK op, step, w, to, want : Navigate(k, op, step, w, to, want)
  BY DEF Reload, CreateWorkspace, ForgetWorkspace, RenameWorkspace
<1>2. active' = active /\ shown' = shown /\ faulty' = faulty /\ task[k] = None
      /\ task' = [task EXCEPT ![k] = ReloadTask(op, step, w, to, want)]
  BY <1>1 DEF Navigate, Start, app
<1>3. \A j \in Slot : j # k => task'[j] = task[j]
  BY <1>2, OtherTasks
<1> QED BY <1>2, <1>3, RuntimeBlank

LEMMA PanesBlank ==
  ASSUME TaskInv, NeverBlank, NEW k \in Slot, NEW p \in Pane,
         \/ AddPane(p, k) \/ SelectPane(p, k) \/ NavigatePane(k) \/ CloseActivePane(k)
         \/ TypeQueued(p, k) \/ \E w \in Workspace : TerminalExit(w, p, k)
  PROVE  NeverBlank'
<1>1. active' = active /\ faulty' = faulty
  BY DEF AddPane, SelectPane, NavigatePane, CloseActivePane, TypeQueued, TerminalExit, Focus
<1>2. task' = task \/ (task[k] = None /\ \E t : task' = [task EXCEPT ![k] = t])
  BY DEF AddPane, SelectPane, NavigatePane, CloseActivePane, TypeQueued, TerminalExit, Focus, Start
<1>3. shown' = None => shown = None
  BY AddPaneFits, FocusStepFits, CloseFits, TypeQueuedFits, TerminalExitFits DEF SameLayout
<1>4. CASE task' = task
  BY <1>1, <1>3, <1>4, BlankStays
<1>5. CASE task[k] = None /\ \E t : task' = [task EXCEPT ![k] = t]
  <2>1. \A j \in Slot : j # k => task'[j] = task[j]
    BY <1>5, OtherTasks
  <2> QED BY <1>1, <1>3, <1>5, <2>1, RuntimeBlank
<1> QED BY <1>2, <1>4, <1>5

LEMMA ScreenBlank ==
  ASSUME TaskInv, NeverBlank, NEW k \in Slot, NEW p \in Pane,
         ActivateTerminal(p) \/ TypeLive(p) \/ DrainOutput(p)
  PROVE  NeverBlank'
<1>1. active' = active /\ faulty' = faulty /\ task' = task
  BY DEF ActivateTerminal, TypeLive, DrainOutput, history
<1>2. shown' # None
  BY FocusStepFits, DrainFits DEF SameLayout
<1> QED BY <1>1, <1>2, BlankStays

LEMMA FlushBlank ==
  ASSUME TaskInv, NeverBlank, NEW k \in Slot, FlushTake(k) \/ FlushApply(k)
  PROVE  NeverBlank'
<1>1. active' = active /\ faulty' = faulty /\ task[k].kind # "load"
  BY DEF FlushTake, FlushApply, At, history
<1>2. \A j \in Slot : j # k => task'[j] = task[j]
  BY OtherTasks DEF FlushTake, FlushApply, Finish
<1>3. shown' = None => shown = None
  BY FlushApplyFits DEF FlushTake
<1> QED BY <1>1, <1>2, <1>3, RuntimeBlank

LEMMA ReloadApplyBlank ==
  ASSUME TaskInv, NEW k \in Slot, ReloadApply(k)
  PROVE  NeverBlank'
<1>1. active' = task[k].want
  BY DEF ReloadApply
<1>2. task[k].want # None => shown' # None
  BY ReloadApplyFits
<1> QED BY <1>1, <1>2 DEF NeverBlank

LEMMA NextNeverBlank ==
  ASSUME TaskInv, NeverBlank, Next
  PROVE  NeverBlank'
<1>1. ASSUME NEW k \in Slot, TaskStep(k)
      PROVE  NeverBlank'
  BY <1>1, LoadBlank, TaskStepBlank, FlushBlank, ReloadApplyBlank DEF TaskStep
<1>2. CASE User
  <2>1. PICK k \in Slot :
    \/ \E w \in Workspace :
         OpenWorkspace(w, k) \/ CreateWorkspace(w, k) \/ ForgetWorkspace(w, k)
    \/ \E w, to \in Workspace : RenameWorkspace(w, to, k)
    \/ \E p \in Pane : AddPane(p, k) \/ SelectPane(p, k) \/ ActivateTerminal(p)
                        \/ TypeLive(p) \/ TypeQueued(p, k)
    \/ NavigatePane(k) \/ CloseActivePane(k) \/ Reload(k)
    BY <1>2 DEF User
  <2>2. CASE NavigatePane(k) \/ CloseActivePane(k)
    <3>1. \E p : p \in Pane
      <4>1. shown # None
        BY <2>2 DEF NavigatePane, CloseActivePane
      <4>2. shown \in Snapshot
        BY <4>1, ShownIs
      <4>3. NavigationTargets(shown) \subseteq Pane /\ Panes(shown) \subseteq Pane
        BY <4>2, NavigationFits, SnapshotIs
      <4> QED BY <2>2, <4>3 DEF NavigatePane, CloseActivePane
    <3> QED BY <2>2, <3>1, PanesBlank
  <2> QED BY <2>1, <2>2, OpenBlank, OperationsBlank, PanesBlank, ScreenBlank
<1>3. CASE TerminalEvent
  <2>1. PICK p \in Pane : DrainOutput(p) \/ \E w \in Workspace, k \in Slot : TerminalExit(w, p, k)
    BY <1>3 DEF TerminalEvent
  <2>2. CASE DrainOutput(p)
    <3>1. active' = active /\ faulty' = faulty /\ task' = task
      BY <2>2 DEF DrainOutput, history
    <3>2. shown' # None
      BY <2>2, DrainFits DEF SameLayout
    <3> QED BY <3>1, <3>2, BlankStays
  <2> QED BY <2>1, <2>2, PanesBlank
<1>4. ASSUME NEW s \in Shell, KillRun(s) \/ KillFail(s)
      PROVE  NeverBlank'
  BY <1>4, BlankStays DEF KillRun, KillFail, app, history
<1> QED BY <1>1, <1>2, <1>3, <1>4 DEF Next

\* The active workspace has its layout on the screen, or a load for it is in
\* flight, unless one failed: for any number of workspaces, tasks and
\* operations in between.
THEOREM NeverStaysBlank == Spec => []NeverBlank
<1>1. Init => NeverBlank
  BY DEF Init, NeverBlank
<1>2. TaskInv /\ NeverBlank /\ [Next]_vars => NeverBlank'
  BY NextNeverBlank, BlankStays DEF vars, app, history
<1> QED BY <1>1, <1>2, AlwaysFits, PTL DEF Spec

-----------------------------------------------------------------------------
(* While the operations on a workspace do not overlap, the layouts on their   *)
(* way agree with the stored one and with the one on the screen.              *)

\* The stored layout of its workspace has the columns of s.
StoredAs(s, d) == s.ws \in DOMAIN d /\ d[s.ws].columns = s.columns

\* The layout on the screen is not the one of w.
Hidden(w, s) == s # None => s.ws # w

\* A copy of the layout that waits to be flushed.
Agrees(x, s, d) ==
  /\ s # None /\ s.ws = x.ws => s.columns = x.columns
  /\ StoredAs(x, d)

\* What the layout of a load says of the stored one.
LoadAgrees(w, t, d) ==
  /\ t.snap # None => t.snap.ws = w
  /\ t.step = "create" => w \notin DOMAIN d
  /\ t.step = "apply" => StoredAs(t.snap, d)

\* s is on the screen, d is stored, the panes of c were closed.
TaskCalm(t, s, d, c) ==
  /\ t.kind = "load" => Hidden(t.ws, s) /\ LoadAgrees(t.ws, t, d)
  /\ t.kind = "save" =>
       /\ s # None /\ s.ws = t.snap.ws => s.columns = t.snap.columns
       /\ t.snap.ws \in DOMAIN d => Panes(d[t.snap.ws]) \ Panes(t.snap) \subseteq c
  /\ t.kind = "exit" =>
       /\ t.pane \in c
       /\ Hidden(t.ws, s) \/ (t.step = "read" /\ t.pane \notin Panes(s) /\ StoredAs(s, d))
       /\ t.step = "write" => /\ t.snap.ws = t.ws /\ t.ws \in DOMAIN d
                              /\ Panes(t.snap) = Panes(d[t.ws]) \ {t.pane}
  /\ t.kind = "flush" =>
       /\ t.step = "wait" => t.batch = <<>>
       /\ \A i \in DOMAIN t.batch : Agrees(t.batch[i].snap, s, d)
  /\ t.kind = "reload" =>
       /\ t.step \in {"create", "apply"} /\ t.want # None => LoadAgrees(t.want, t, d)
       /\ t.step = "commit" => IF t.snap = None THEN t.ws \notin DOMAIN d
                               ELSE /\ t.snap.ws = t.to /\ t.ws \in DOMAIN d
                                    /\ t.snap.columns = d[t.ws].columns

Calm ==
  /\ faulty = {}
  /\ \A j, k \in Slot : j # k => Touches(task[j]) \cap Touches(task[k]) = {}
  /\ \A k \in Slot : task[k] # None => TaskCalm(task[k], shown, disk, closed)
  /\ \A i \in DOMAIN pending : /\ \A k \in Slot : pending[i].snap.ws \notin Touches(task[k])
                               /\ Agrees(pending[i].snap, shown, disk)
  /\ \A w \in DOMAIN disk : disk[w].ws = w
  /\ shown # None => shown.ws = active
  /\ \A w \in Workspace : ~Busy(w) /\ shown # None /\ shown.ws = w => StoredAs(shown, disk)

LEMMA TouchesIs ==
  ASSUME NEW t, NEW u, NEW y, TaskFit(t, u, y)
  PROVE  /\ Touches(None) = {} /\ Touches(t) \subseteq Workspace
         /\ t.kind = "load" => Touches(t) = {t.ws} /\ t.ws \in Workspace
         /\ t.kind = "exit" => Touches(t) = {t.ws} /\ t.ws \in Workspace
         /\ t.kind = "save" => /\ Touches(t) = {t.snap.ws} /\ t.snap \in Snapshot
                               /\ t.snap.ws \in Workspace
         /\ t.kind = "flush" => /\ Touches(t) = {t.batch[i].snap.ws : i \in DOMAIN t.batch}
                                /\ \A i \in DOMAIN t.batch : t.batch[i].snap.ws \in Workspace
         /\ t.kind = "reload" => Touches(t) = Workspace
<1>1. t \in Tasks /\ t # None /\ t.kind \in {"load", "save", "exit", "flush", "reload"}
  BY TaskKinds DEF TaskFit
<1>2. Touches(None) = {}
  BY DEF Touches
<1>3. CASE t.kind = "load"
  BY <1>1, <1>2, <1>3, TaskKinds DEF Touches, Loads
<1>4. CASE t.kind = "exit"
  BY <1>1, <1>2, <1>4, TaskKinds DEF Touches, Exits
<1>5. CASE t.kind = "save"
  <2>1. t \in Saves
    BY <1>1, <1>5, TaskKinds
  <2>2. t.snap \in Snapshot
    BY <2>1 DEF Saves
  <2>3. t.snap.ws \in Workspace
    BY <2>2, SnapshotIs
  <2>4. Touches(t) = {t.snap.ws}
    BY <1>1, <1>5 DEF Touches
  <2> QED BY <1>2, <1>5, <2>2, <2>3, <2>4
<1>6. CASE t.kind = "flush"
  <2>1. \A i \in DOMAIN t.batch : t.batch[i].snap.ws \in Workspace
    BY <1>6, SnapshotIs DEF TaskFit, Fit
  <2>2. Touches(t) = {t.batch[i].snap.ws : i \in DOMAIN t.batch}
    BY <1>1, <1>6 DEF Touches
  <2> QED BY <1>2, <1>6, <2>1, <2>2
<1>7. CASE t.kind = "reload"
  BY <1>1, <1>2, <1>7 DEF Touches
<1> QED BY <1>1, <1>3, <1>4, <1>5, <1>6, <1>7

\* A task stays calm while nothing changes that it touches.
LEMMA TaskFrame ==
  ASSUME NEW t, NEW u, NEW y, TaskFit(t, u, y), NEW s, NEW d, NEW c, TaskCalm(t, s, d, c),
         NEW s2, NEW d2, NEW c2, c \subseteq c2,
         s2 # None => s2.ws \notin Touches(t) \/ (s # None /\ s2.ws = s.ws /\ s2.columns = s.columns),
         \A w \in Touches(t) : (w \in DOMAIN d2 <=> w \in DOMAIN d) /\ (w \in DOMAIN d => d2[w] = d[w])
  PROVE  TaskCalm(t, s2, d2, c2)
<1>1. t \in Tasks /\ t.kind \in {"load", "save", "exit", "flush", "reload"}
  BY TaskKinds DEF TaskFit
<1>2. CASE t.kind = "load"
  <2>1. Touches(t) = {t.ws}
    BY <1>2, TouchesIs
  <2>2. Hidden(t.ws, s) /\ LoadAgrees(t.ws, t, d)
    BY <1>2 DEF TaskCalm
  <2>3. Hidden(t.ws, s2)
    BY <2>1, <2>2 DEF Hidden
  <2>4. t.step = "apply" => t.snap # None
    BY <1>2 DEF TaskFit
  <2>5. LoadAgrees(t.ws, t, d2)
    BY <2>1, <2>2, <2>4 DEF LoadAgrees, StoredAs
  <2> QED BY <1>2, <2>3, <2>5 DEF TaskCalm
<1>3. CASE t.kind = "save"
  <2>1. Touches(t) = {t.snap.ws}
    BY <1>3, TouchesIs
  <2>2. /\ s # None /\ s.ws = t.snap.ws => s.columns = t.snap.columns
        /\ t.snap.ws \in DOMAIN d => Panes(d[t.snap.ws]) \ Panes(t.snap) \subseteq c
    BY <1>3 DEF TaskCalm
  <2> QED BY <1>3, <2>1, <2>2 DEF TaskCalm
<1>4. CASE t.kind = "exit"
  <2>1. Touches(t) = {t.ws}
    BY <1>4, TouchesIs
  <2>2. /\ t.pane \in c
        /\ Hidden(t.ws, s) \/ (t.step = "read" /\ t.pane \notin Panes(s) /\ StoredAs(s, d))
        /\ t.step = "write" => /\ t.snap.ws = t.ws /\ t.ws \in DOMAIN d
                               /\ Panes(t.snap) = Panes(d[t.ws]) \ {t.pane}
    BY <1>4 DEF TaskCalm
  <2>3. Hidden(t.ws, s2) \/ (t.step = "read" /\ t.pane \notin Panes(s2) /\ StoredAs(s2, d2))
    BY <2>1, <2>2 DEF Hidden, StoredAs, Panes
  <2> QED BY <1>4, <2>1, <2>2, <2>3 DEF TaskCalm
<1>5. CASE t.kind = "flush"
  <2>1. Touches(t) = {t.batch[i].snap.ws : i \in DOMAIN t.batch}
    BY <1>5, TouchesIs
  <2>2. /\ t.step = "wait" => t.batch = <<>>
        /\ \A i \in DOMAIN t.batch : Agrees(t.batch[i].snap, s, d)
    BY <1>5 DEF TaskCalm
  <2>3. \A i \in DOMAIN t.batch : Agrees(t.batch[i].snap, s2, d2)
    BY <2>1, <2>2 DEF Agrees, StoredAs
  <2> QED BY <1>5, <2>2, <2>3 DEF TaskCalm
<1>6. CASE t.kind = "reload"
  <2>1. Touches(t) = Workspace /\ t \in Reloads
    BY <1>1, <1>6, TouchesIs, TaskKinds
  <2>2. /\ t.step \in {"create", "apply"} /\ t.want # None => LoadAgrees(t.want, t, d)
        /\ t.step = "commit" => IF t.snap = None THEN t.ws \notin DOMAIN d
                                ELSE /\ t.snap.ws = t.to /\ t.ws \in DOMAIN d
                                     /\ t.snap.columns = d[t.ws].columns
    BY <1>6 DEF TaskCalm
  <2>3. t.step = "commit" => t.ws \in Workspace
    BY <1>6 DEF TaskFit
  <2>4. t.want # None => t.want \in Workspace
    BY <2>1 DEF Reloads
  <2>5. t.step = "apply" /\ t.want # None => t.snap # None
    BY <1>6 DEF TaskFit
  <2>6. t.step \in {"create", "apply"} /\ t.want # None => LoadAgrees(t.want, t, d2)
    BY <2>1, <2>2, <2>4, <2>5 DEF LoadAgrees, StoredAs
  <2> QED BY <1>6, <2>1, <2>2, <2>3, <2>6 DEF TaskCalm
<1> QED BY <1>1, <1>2, <1>3, <1>4, <1>5, <1>6

\* Only what belongs to the workspaces of W changes.
Frame(W) ==
  /\ \A w \in Workspace \ W : /\ w \in DOMAIN disk' <=> w \in DOMAIN disk
                              /\ w \in DOMAIN disk => disk'[w] = disk[w]
  /\ shown' # None => shown'.ws \in W \/ SameLayout

\* No other operation is about a workspace of W.
Alone(k, W) ==
  /\ \A j \in Slot : j # k => Touches(task[j]) \cap W = {}
  /\ \A i \in DOMAIN pending : pending[i].snap.ws \notin W

LEMMA CalmStep ==
  ASSUME TaskInv, TaskInv', Calm, NEW k \in Slot, NEW t, NEW W \in SUBSET Workspace,
         task' = [task EXCEPT ![k] = t], Frame(W), Alone(k, W),
         closed \subseteq closed', faulty' = faulty,
         Touches(task[k]) \subseteq W, Touches(t) \subseteq W,
         DOMAIN pending' = DOMAIN pending, \A i \in DOMAIN pending : pending'[i] = pending[i],
         t # None => TaskCalm(t, shown', disk', closed'),
         \A w \in W \cap DOMAIN disk' : disk'[w].ws = w,
         shown' # None => shown'.ws = active',
         shown' # None /\ shown'.ws \in W /\ shown'.ws \notin Touches(t) => StoredAs(shown', disk')
  PROVE  Calm'
<1>1. task \in [Slot -> Tasks \cup {None}]
  BY DEF TaskInv, TasksFit
<1>2. task'[k] = t /\ \A j \in Slot : j # k => task'[j] = task[j]
  BY <1>1
<1>3. \A j \in Slot : task[j] = None \/ TaskFit(task[j], used, strays)
  BY DEF TaskInv, TasksFit
<1>4. \A j \in Slot : Touches(task[j]) \subseteq Workspace
  BY <1>3, TouchesIs DEF Touches
<1>5. \A j \in Slot : j # k => Touches(task[j]) \cap W = {}
  BY DEF Alone
<1>6. \A i, j \in Slot : i # j => Touches(task'[i]) \cap Touches(task'[j]) = {}
  BY <1>2, <1>5 DEF Calm
<1>7. ASSUME NEW j \in Slot, task'[j] # None
      PROVE  TaskCalm(task'[j], shown', disk', closed')
  <2>1. CASE j = k
    BY <1>2, <1>7, <2>1
  <2>2. CASE j # k
    <3>1. TaskCalm(task[j], shown, disk, closed) /\ TaskFit(task[j], used, strays) /\ task'[j] = task[j]
      BY <1>2, <1>3, <1>7, <2>2 DEF Calm
    <3>2. \A w \in Touches(task[j]) : w \in Workspace \ W
      BY <1>4, <1>5, <2>2
    <3>3. shown' # None => shown'.ws \notin Touches(task[j]) \/
             (shown # None /\ shown'.ws = shown.ws /\ shown'.columns = shown.columns)
      BY <3>2 DEF Frame, SameLayout
    <3>4. \A w \in Touches(task[j]) : /\ w \in DOMAIN disk' <=> w \in DOMAIN disk
                                      /\ w \in DOMAIN disk => disk'[w] = disk[w]
      BY <3>2 DEF Frame
    <3> QED BY <3>1, <3>3, <3>4, TaskFrame
  <2> QED BY <2>1, <2>2
<1>8. ASSUME NEW i \in DOMAIN pending'
      PROVE  /\ \A j \in Slot : pending'[i].snap.ws \notin Touches(task'[j])
             /\ Agrees(pending'[i].snap, shown', disk')
  <2>1. pending'[i] = pending[i] /\ i \in DOMAIN pending
    OBVIOUS
  <2>2. /\ \A j \in Slot : pending[i].snap.ws \notin Touches(task[j])
        /\ Agrees(pending[i].snap, shown, disk) /\ pending[i].snap.ws \notin W
    BY <2>1 DEF Calm, Alone
  <2>3. pending[i].snap.ws \in Workspace
    BY <2>1, SnapshotIs DEF TaskInv, PendingFits, Fit
  <2>4. Agrees(pending[i].snap, shown', disk')
    BY <2>2, <2>3 DEF Agrees, StoredAs, Frame, SameLayout
  <2> QED BY <1>2, <2>1, <2>2, <2>4
<1>9. ASSUME NEW w \in DOMAIN disk'
      PROVE  disk'[w].ws = w
  <2>1. w \in Workspace
    BY DEF TaskInv, DiskFits
  <2> QED BY <2>1 DEF Frame, Calm
<1>10. ASSUME NEW w \in Workspace, ~Busy(w)', shown' # None, shown'.ws = w
       PROVE  StoredAs(shown', disk')
  <2>1. \A j \in Slot : w \notin Touches(task'[j])
    BY <1>10 DEF Busy
  <2>2. \A i \in DOMAIN pending' : pending'[i].snap.ws # w
    BY <1>10 DEF Busy
  <2>3. CASE w \in W
    BY <1>2, <1>10, <2>1, <2>3
  <2>4. CASE w \notin W
    <3>1. SameLayout
      BY <1>10, <2>4 DEF Frame
    <3>2. ~Busy(w)
      BY <1>2, <2>1, <2>2, <2>4 DEF Busy
    <3>3. StoredAs(shown, disk)
      BY <1>10, <3>1, <3>2 DEF Calm, SameLayout
    <3> QED BY <1>10, <2>4, <3>1, <3>3 DEF StoredAs, SameLayout, Frame
  <2> QED BY <2>3, <2>4
<1>11. faulty' = {}
  BY DEF Calm
<1> QED BY <1>6, <1>7, <1>8, <1>9, <1>10, <1>11 DEF Calm

\* The columns of the layout on the screen, the stored layouts and the tasks
\* stay.
LEMMA CalmStays ==
  ASSUME TaskInv, TaskInv', Calm,
         shown' = shown \/ SameLayout,
         UNCHANGED <<active, pending, task, disk, closed, faulty>>
  PROVE  Calm'
<1>1. \A j \in Slot : task[j] = None \/ TaskFit(task[j], used, strays)
  BY DEF TaskInv, TasksFit
<1>2. ASSUME NEW j \in Slot, task'[j] # None
      PROVE  TaskCalm(task'[j], shown', disk', closed')
  <2>1. TaskCalm(task[j], shown, disk, closed) /\ TaskFit(task[j], used, strays) /\ task'[j] = task[j]
        /\ disk' = disk /\ closed' = closed
    BY <1>1, <1>2 DEF Calm
  <2>2. shown' # None => shown # None /\ shown'.ws = shown.ws /\ shown'.columns = shown.columns
    BY DEF SameLayout
  <2> QED BY <2>1, <2>2, TaskFrame
<1>3. \A w : Busy(w)' <=> Busy(w)
  BY DEF Busy
<1>4. \A i \in DOMAIN pending' : Agrees(pending'[i].snap, shown', disk')
  BY DEF Calm, Agrees, SameLayout
<1>5. shown' # None => shown'.ws = active'
  BY DEF Calm, SameLayout
<1>6. \A w \in Workspace : ~Busy(w)' /\ shown' # None /\ shown'.ws = w => StoredAs(shown', disk')
  BY <1>3 DEF Calm, SameLayout, StoredAs
<1>7. faulty' = {} /\ (\A w \in DOMAIN disk' : disk'[w].ws = w)
      /\ (\A j, k \in Slot : j # k => Touches(task'[j]) \cap Touches(task'[k]) = {})
      /\ (\A i \in DOMAIN pending' : \A k \in Slot : pending'[i].snap.ws \notin Touches(task'[k]))
  BY DEF Calm
<1> QED BY <1>2, <1>4, <1>5, <1>6, <1>7 DEF Calm

\* An operation that starts undisturbed is alone, and one in flight is.
LEMMA StartsAlone ==
  ASSUME NEW k \in Slot, NEW W, Use(W), ~disturbed'
  PROVE  Alone(k, W) /\ ~disturbed /\ \A w \in W : ~Busy(w)
<1>1. ~disturbed /\ \A w \in W : ~Busy(w)
  BY DEF Use
<1> QED BY <1>1 DEF Alone, Busy

LEMMA RunsAlone ==
  ASSUME Calm, NEW k \in Slot
  PROVE  Alone(k, Touches(task[k]))
BY DEF Calm, Alone

-----------------------------------------------------------------------------
(* Each step keeps the calm, unless it is one that disturbs it.               *)

LEMMA PutIs ==
  ASSUME NEW s, disk' = Put(s)
  PROVE  /\ DOMAIN disk' = DOMAIN disk \cup {s.ws} /\ disk'[s.ws] = s
         /\ \A w \in DOMAIN disk : w # s.ws => disk'[w] = disk[w]
BY DEF Put

LEMMA TouchesAny ==
  ASSUME TaskInv, NEW k \in Slot
  PROVE  Touches(task[k]) \subseteq Workspace
<1>1. task[k] = None \/ TaskFit(task[k], used, strays)
  BY DEF TaskInv, TasksFit
<1> QED BY <1>1, TouchesIs DEF Touches

\* A step of a task in flight.
LEMMA CalmRun ==
  ASSUME TaskInv, TaskInv', Calm, NEW k \in Slot, NEW t, task' = [task EXCEPT ![k] = t],
         UNCHANGED <<active, pending, closed, faulty>>, shown' = shown \/ SameLayout,
         Touches(t) \subseteq Touches(task[k]),
         disk' = disk \/ \E s : s.ws \in Touches(task[k]) /\ disk' = Put(s),
         t # None => TaskCalm(t, shown', disk', closed'),
         shown' # None /\ shown'.ws \in Touches(task[k]) /\ shown'.ws \notin Touches(t)
           => StoredAs(shown', disk')
  PROVE  Calm'
<1> DEFINE W == Touches(task[k])
<1>1. W \in SUBSET Workspace
  BY TouchesAny
<1>2. Alone(k, W)
  BY RunsAlone
<1> HIDE DEF W
<1>3. disk' = disk \/ \E s : s.ws \in W /\ disk' = Put(s)
  BY DEF W
<1>4. \A w \in Workspace \ W : /\ w \in DOMAIN disk' <=> w \in DOMAIN disk
                               /\ w \in DOMAIN disk => disk'[w] = disk[w]
  <2>1. CASE disk' = disk
    BY <2>1
  <2>2. ASSUME NEW s, s.ws \in W, disk' = Put(s)
        PROVE  \A w \in Workspace \ W : /\ w \in DOMAIN disk' <=> w \in DOMAIN disk
                                        /\ w \in DOMAIN disk => disk'[w] = disk[w]
    <3>1. /\ DOMAIN disk' = DOMAIN disk \cup {s.ws} /\ disk'[s.ws] = s
          /\ \A w \in DOMAIN disk : w # s.ws => disk'[w] = disk[w]
      BY <2>2, PutIs
    <3> QED BY <2>2, <3>1
  <2> QED BY <1>3, <2>1, <2>2
<1>5. \A w \in W \cap DOMAIN disk' : disk'[w].ws = w
  <2>1. CASE disk' = disk
    BY <2>1 DEF Calm
  <2>2. ASSUME NEW s, s.ws \in W, disk' = Put(s), NEW w \in DOMAIN disk'
        PROVE  disk'[w].ws = w
    <3>1. /\ DOMAIN disk' = DOMAIN disk \cup {s.ws} /\ disk'[s.ws] = s
          /\ \A v \in DOMAIN disk : v # s.ws => disk'[v] = disk[v]
      BY <2>2, PutIs
    <3> QED BY <2>2, <3>1 DEF Calm
  <2> QED BY <1>3, <2>1, <2>2
<1>6. Frame(W)
  BY <1>4 DEF Frame, SameLayout
<1>7. shown' # None => shown'.ws = active'
  BY DEF Calm, SameLayout
<1>8. /\ closed \subseteq closed' /\ faulty' = faulty
      /\ DOMAIN pending' = DOMAIN pending /\ \A i \in DOMAIN pending : pending'[i] = pending[i]
  OBVIOUS
<1>9. /\ Touches(task[k]) \subseteq W /\ Touches(t) \subseteq W
      /\ shown' # None /\ shown'.ws \in W /\ shown'.ws \notin Touches(t) => StoredAs(shown', disk')
  BY DEF W
<1> QED BY <1>1, <1>2, <1>5, <1>6, <1>7, <1>8, <1>9, CalmStep

\* What Calm says of the task in a slot.
LEMMA CalmTask ==
  ASSUME TaskInv, Calm, NEW k \in Slot, task[k] # None
  PROVE  TaskCalm(task[k], shown, disk, closed) /\ TaskFit(task[k], used, strays)
BY DEF Calm, TaskInv, TasksFit

LEMMA OpenCalm ==
  ASSUME TaskInv, Calm, NEW k \in Slot, NEW w \in Workspace, OpenWorkspace(w, k), ~disturbed'
  PROVE  Calm'
<1>1. TaskInv'
  BY OpenFits
<1>2. /\ task[k] = None /\ task' = [task EXCEPT ![k] = LoadTask(w)] /\ shown' = None
      /\ Use({w})
      /\ UNCHANGED <<pending, disk, closed, faulty>>
  BY DEF OpenWorkspace, Start, world
<1>3. Alone(k, {w})
  BY <1>2, StartsAlone
<1>4. Touches(task[k]) = {} /\ Touches(LoadTask(w)) = {w}
  <2>1. LoadTask(w).kind = "load" /\ LoadTask(w).ws = w
    BY DEF LoadTask
  <2>2. task' \in [Slot -> Tasks \cup {None}] /\ task'[k] = LoadTask(w)
    BY <1>1, <1>2 DEF TaskInv, TasksFit
  <2>3. LoadTask(w) # None
    BY <1>2, TaskAssumption DEF LoadTask, Tasks, Loads
  <2> QED BY <1>2, <2>1, <2>3 DEF Touches
<1>5. TaskCalm(LoadTask(w), shown', disk', closed')
  BY <1>2 DEF TaskCalm, LoadTask, Hidden, LoadAgrees
<1>6. Frame({w})
  BY <1>2 DEF Frame
<1>7. \A v \in {w} \cap DOMAIN disk' : disk'[v].ws = v
  BY <1>2 DEF Calm
<1> QED BY <1>1, <1>2, <1>3, <1>4, <1>5, <1>6, <1>7, CalmStep

LEMMA LoadReadCalm ==
  ASSUME TaskInv, Calm, NEW k \in Slot, LoadRead(k)
  PROVE  Calm'
<1>1. task[k] # None /\ task[k].kind = "load" /\ UNCHANGED <<app, kills, world, history>>
  BY DEF LoadRead, At
<1>2. PICK t : /\ TaskFit(t, used, strays) /\ task' = [task EXCEPT ![k] = t]
               /\ t.kind = "load" /\ t.ws = task[k].ws
               /\ t.step = IF t.ws \in DOMAIN disk THEN "apply" ELSE "create"
               /\ t.snap = IF t.ws \in DOMAIN disk THEN disk[t.ws] ELSE EmptyLayout(t.ws)
  BY LoadReadFits
<1>3. Touches(task[k]) = {t.ws} /\ Touches(t) = {t.ws} /\ Hidden(t.ws, shown)
  BY <1>1, <1>2, CalmTask, TouchesIs DEF TaskCalm
<1>4. t.snap.ws = t.ws
  BY <1>2 DEF EmptyLayout, Calm
<1>5. LoadAgrees(t.ws, t, disk)
  BY <1>2, <1>4 DEF LoadAgrees, StoredAs
<1>6. TaskCalm(t, shown, disk, closed)
  BY <1>2, <1>3, <1>5 DEF TaskCalm
<1>7. TaskInv' /\ shown' = shown /\ disk' = disk /\ UNCHANGED <<active, pending, closed, faulty>>
  BY <1>1, LoadReadFits DEF app, world, history
<1> QED BY <1>2, <1>3, <1>6, <1>7, CalmRun

LEMMA LoadCreateCalm ==
  ASSUME TaskInv, Calm, NEW k \in Slot, LoadCreate(k)
  PROVE  Calm'
<1>1. /\ task[k] # None /\ task[k].kind = "load" /\ task[k].step = "create"
      /\ disk' = Put(task[k].snap) /\ UNCHANGED <<app, kills, history>>
  BY DEF LoadCreate, At
<1>2. PICK t : /\ TaskFit(t, used, strays) /\ task' = [task EXCEPT ![k] = t]
               /\ t.kind = "load" /\ t.ws = task[k].ws /\ t.step = "apply" /\ t.snap = task[k].snap
  BY LoadCreateFits
<1>3. /\ Touches(task[k]) = {t.ws} /\ Touches(t) = {t.ws} /\ Hidden(t.ws, shown)
      /\ LoadAgrees(t.ws, task[k], disk)
  BY <1>1, <1>2, CalmTask, TouchesIs DEF TaskCalm
<1>4. t.snap.ws = t.ws
  BY <1>1, <1>2, <1>3, CalmTask DEF LoadAgrees, TaskFit
<1>5. LoadAgrees(t.ws, t, disk')
  BY <1>1, <1>2, <1>4, PutIs DEF LoadAgrees, StoredAs
<1>6. TaskCalm(t, shown, disk', closed)
  BY <1>2, <1>3, <1>5 DEF TaskCalm
<1>7. TaskInv' /\ shown' = shown /\ UNCHANGED <<active, pending, closed, faulty>>
  BY <1>1, LoadCreateFits DEF app, history
<1> QED BY <1>1, <1>2, <1>3, <1>4, <1>6, <1>7, CalmRun

LEMMA LoadApplyCalm ==
  ASSUME TaskInv, Calm, NEW k \in Slot, LoadApply(k)
  PROVE  Calm'
<1> DEFINE w == task[k].ws
<1>1. /\ task[k] # None /\ task[k].kind = "load" /\ task[k].step = "apply"
      /\ task' = [task EXCEPT ![k] = None]
      /\ UNCHANGED <<active, pending, disk, closed, faulty>>
  BY DEF LoadApply, At, Finish
<1>2. /\ Touches(task[k]) = {w} /\ w \in Workspace /\ Hidden(w, shown) /\ LoadAgrees(w, task[k], disk)
      /\ task[k].snap # None
  BY <1>1, CalmTask, TouchesIs DEF TaskCalm, TaskFit
<1>3. task[k].snap.ws = w /\ StoredAs(task[k].snap, disk)
  BY <1>1, <1>2 DEF LoadAgrees
<1>4. /\ TaskInv'
      /\ IF active = w
         THEN shown' # None /\ shown'.ws = task[k].snap.ws /\ shown'.columns = task[k].snap.columns
         ELSE shown' = shown
  BY LoadApplyFits
<1>5. Alone(k, {w})
  BY <1>2, RunsAlone
<1>6. Touches(None) = {}
  BY DEF Touches
<1>7. Frame({w})
  BY <1>1, <1>3, <1>4 DEF Frame, SameLayout
<1>8. shown' # None => shown'.ws = active'
  BY <1>1, <1>3, <1>4 DEF Calm
<1>9. shown' # None /\ shown'.ws = w => StoredAs(shown', disk')
  BY <1>1, <1>2, <1>3, <1>4 DEF Hidden, StoredAs
<1>10. \A v \in {w} \cap DOMAIN disk' : disk'[v].ws = v
  BY <1>1 DEF Calm
<1> QED BY <1>1, <1>2, <1>4, <1>5, <1>6, <1>7, <1>8, <1>9, <1>10, CalmStep

LEMMA SaveCalm ==
  ASSUME TaskInv, Calm, NEW k \in Slot, SaveRun(k)
  PROVE  Calm'
<1>1. /\ task[k] # None /\ task[k].kind = "save" /\ task' = [task EXCEPT ![k] = None]
      /\ disk' = Put(task[k].snap) /\ UNCHANGED <<app, kills, history>>
  BY DEF SaveRun, Finish
<1>2. /\ Touches(task[k]) = {task[k].snap.ws}
      /\ shown # None /\ shown.ws = task[k].snap.ws => shown.columns = task[k].snap.columns
  BY <1>1, CalmTask, TouchesIs DEF TaskCalm
<1>3. TaskInv' /\ shown' = shown /\ UNCHANGED <<active, pending, closed, faulty>>
  BY <1>1, SaveTaskFits DEF app, history
<1>4. Touches(None) = {}
  BY DEF Touches
<1>5. shown' # None /\ shown'.ws = task[k].snap.ws => StoredAs(shown', disk')
  <2>1. DOMAIN disk' = DOMAIN disk \cup {task[k].snap.ws} /\ disk'[task[k].snap.ws] = task[k].snap
    BY <1>1, PutIs
  <2> QED BY <1>2, <1>3, <2>1 DEF StoredAs
<1> QED BY <1>1, <1>2, <1>3, <1>4, <1>5, CalmRun

LEMMA ExitReadCalm ==
  ASSUME TaskInv, Calm, NEW k \in Slot, ExitRead(k)
  PROVE  Calm'
<1> DEFINE w == task[k].ws
           p == task[k].pane
<1>1. /\ task[k] # None /\ task[k].kind = "exit" /\ task[k].step = "read"
      /\ UNCHANGED <<app, kills, world, history>>
  BY DEF ExitRead, At
<1>2. /\ Touches(task[k]) = {w} /\ p \in closed
      /\ Hidden(w, shown) \/ (p \notin Panes(shown) /\ StoredAs(shown, disk))
  BY <1>1, CalmTask, TouchesIs DEF TaskCalm
<1>3. TaskInv' /\ shown' = shown /\ disk' = disk /\ UNCHANGED <<active, pending, closed, faulty>>
  BY <1>1, ExitTaskFits DEF app, world, history
<1>4. Touches(None) = {}
  BY DEF Touches
<1>5. CASE task' = [task EXCEPT ![k] = None]
  <2>1. shown' # None /\ shown'.ws = w => StoredAs(shown', disk')
    BY <1>2, <1>3 DEF Hidden
  <2> QED BY <1>1, <1>2, <1>3, <1>4, <1>5, <2>1, CalmRun
<1>6. ASSUME NEW t, TaskFit(t, used, strays), task' = [task EXCEPT ![k] = t], w \in DOMAIN disk,
             p \in Panes(disk[w]), t.kind = "exit", t.ws = w, t.pane = p, t.step = "write",
             t.snap.ws = disk[w].ws, Panes(t.snap) = Panes(disk[w]) \ {p}
      PROVE  Calm'
  <2>1. Touches(t) = {w}
    BY <1>6, TouchesIs
  <2>2. Hidden(w, shown)
    BY <1>2, <1>6 DEF Hidden, StoredAs, Panes
  <2>3. disk[w].ws = w
    BY <1>6 DEF Calm
  <2>4. TaskCalm(t, shown, disk, closed)
    BY <1>2, <1>6, <2>2, <2>3 DEF TaskCalm
  <2> QED BY <1>1, <1>2, <1>3, <1>6, <2>1, <2>4, CalmRun
<1> QED BY <1>5, <1>6, ExitTaskFits

LEMMA ExitWriteCalm ==
  ASSUME TaskInv, Calm, NEW k \in Slot, ExitWrite(k)
  PROVE  Calm'
<1>1. /\ task[k] # None /\ task[k].kind = "exit" /\ task[k].step = "write"
      /\ task' = [task EXCEPT ![k] = None]
      /\ disk' = Put(task[k].snap) /\ UNCHANGED <<app, kills, history>>
  BY DEF ExitWrite, At, Finish
<1>2. /\ Touches(task[k]) = {task[k].ws} /\ Hidden(task[k].ws, shown)
      /\ task[k].snap.ws = task[k].ws
  BY <1>1, CalmTask, TouchesIs DEF TaskCalm
<1>3. TaskInv' /\ shown' = shown /\ UNCHANGED <<active, pending, closed, faulty>>
  BY <1>1, ExitTaskFits DEF app, history
<1>4. Touches(None) = {}
  BY DEF Touches
<1>5. ~ (shown' # None /\ shown'.ws = task[k].ws)
  BY <1>2, <1>3 DEF Hidden
<1> QED BY <1>1, <1>2, <1>3, <1>4, <1>5, CalmRun

\* The workspaces of a batch.
LEMMA BatchIs ==
  ASSUME TaskInv, Calm, NEW k \in Slot, task[k] # None, task[k].kind = "flush"
  PROVE  /\ Touches(task[k]) = {task[k].batch[i].snap.ws : i \in DOMAIN task[k].batch}
         /\ \A i \in DOMAIN task[k].batch : Agrees(task[k].batch[i].snap, shown, disk)
  BY CalmTask, TouchesIs DEF TaskCalm

LEMMA FlushSendCalm ==
  ASSUME TaskInv, Calm, NEW k \in Slot, FlushSend(k)
  PROVE  Calm'
<1>1. task[k] # None /\ task[k].kind = "flush" /\ UNCHANGED <<app, kills, jj, rows, disk, history>>
  BY DEF FlushSend, At
<1>2. PICK t : /\ TaskFit(t, used, strays) /\ task' = [task EXCEPT ![k] = t]
               /\ t.kind = "flush" /\ t.step = "save" /\ t.batch = task[k].batch
  BY FlushSendFits
<1>3. Touches(t) = Touches(task[k])
  <2>1. Touches(t) = {t.batch[i].snap.ws : i \in DOMAIN t.batch}
    BY <1>2, TouchesIs
  <2>2. Touches(task[k]) = {task[k].batch[i].snap.ws : i \in DOMAIN task[k].batch}
    BY <1>1, BatchIs
  <2> QED BY <1>2, <2>1, <2>2
<1>4. TaskCalm(t, shown, disk, closed)
  BY <1>1, <1>2, BatchIs DEF TaskCalm
<1>5. TaskInv' /\ shown' = shown /\ disk' = disk /\ UNCHANGED <<active, pending, closed, faulty>>
  BY <1>1, FlushSendFits DEF app, history
<1> QED BY <1>1, <1>2, <1>3, <1>4, <1>5, CalmRun

LEMMA FlushSaveCalm ==
  ASSUME TaskInv, Calm, NEW k \in Slot, FlushSave(k)
  PROVE  Calm'
<1> DEFINE b == task[k].batch
<1>1. task[k] # None /\ task[k].kind = "flush" /\ UNCHANGED <<app, kills, jj, rows, shells, history>>
  BY DEF FlushSave, At
<1>2. PICK t, s : /\ TaskFit(t, used, strays) /\ task' = [task EXCEPT ![k] = t] /\ disk' = Put(s)
                  /\ t.kind = "flush" /\ t.step = "save"
                  /\ \A i \in DOMAIN t.batch : \E j \in DOMAIN b : t.batch[i] = b[j]
                  /\ \E j \in DOMAIN b : s.ws = b[j].snap.ws /\ s.columns = b[j].snap.columns
  BY FlushSaveFits
<1>3. /\ Touches(task[k]) = {b[i].snap.ws : i \in DOMAIN b}
      /\ Touches(t) = {t.batch[i].snap.ws : i \in DOMAIN t.batch}
      /\ \A i \in DOMAIN b : Agrees(b[i].snap, shown, disk)
  <2>1. Touches(t) = {t.batch[i].snap.ws : i \in DOMAIN t.batch}
    BY <1>2, TouchesIs
  <2> QED BY <1>1, <2>1, BatchIs
<1>4. PICK j \in DOMAIN b : s.ws = b[j].snap.ws /\ s.columns = b[j].snap.columns
  BY <1>2
<1>5. s.ws \in DOMAIN disk /\ disk[s.ws].columns = s.columns
  BY <1>3, <1>4 DEF Agrees, StoredAs
<1>6. /\ DOMAIN disk' = DOMAIN disk \cup {s.ws} /\ disk'[s.ws] = s
      /\ \A w \in DOMAIN disk : w # s.ws => disk'[w] = disk[w]
  BY <1>2, PutIs
<1>7. \A w \in DOMAIN disk : w \in DOMAIN disk' /\ disk'[w].columns = disk[w].columns
  BY <1>5, <1>6
<1>8. \A i \in DOMAIN b : Agrees(b[i].snap, shown, disk')
  BY <1>3, <1>7 DEF Agrees, StoredAs
<1>9. TaskCalm(t, shown, disk', closed)
  BY <1>2, <1>8 DEF TaskCalm
<1>10. Touches(t) \subseteq Touches(task[k]) /\ s.ws \in Touches(task[k])
  BY <1>2, <1>3, <1>4
<1>11. TaskInv' /\ shown' = shown /\ UNCHANGED <<active, pending, closed, faulty>>
  BY <1>1, FlushSaveFits DEF app, history
<1>12. shown' # None /\ shown'.ws \in Touches(task[k]) => StoredAs(shown', disk')
  BY <1>3, <1>8, <1>11 DEF Agrees, StoredAs
<1> QED BY <1>1, <1>2, <1>9, <1>10, <1>11, <1>12, CalmRun

LEMMA FlushApplyCalm ==
  ASSUME TaskInv, Calm, NEW k \in Slot, FlushApply(k)
  PROVE  Calm'
<1>1. /\ task[k] # None /\ task[k].kind = "flush" /\ task' = [task EXCEPT ![k] = FlushTask]
      /\ UNCHANGED <<active, pending, disk, closed, faulty>>
  BY DEF FlushApply, At, world, history
<1>2. TaskInv' /\ (shown' = None \/ SameLayout) /\ (shown' = None => shown = None)
  BY FlushApplyFits
<1>3. Touches(FlushTask) = {}
  <2>1. FlushTask.kind = "flush" /\ FlushTask.batch = <<>>
    BY DEF FlushTask
  <2>2. TaskFit(FlushTask, used, strays)
    BY FlushTaskFits
  <2> QED BY <2>1, <2>2, TouchesIs
<1>4. TaskCalm(FlushTask, shown', disk', closed')
  BY DEF FlushTask, TaskCalm
<1>5. Touches(task[k]) = {}
  <2>1. Touches(task[k]) = {task[k].batch[i].snap.ws : i \in DOMAIN task[k].batch}
    BY <1>1, BatchIs
  <2>2. task[k].batch = <<>>
    BY DEF FlushApply
  <2> QED BY <2>1, <2>2
<1>6. shown' = shown \/ SameLayout
  BY <1>2
<1> QED BY <1>1, <1>2, <1>3, <1>4, <1>5, <1>6, CalmRun

\* A step of a navigation operation: it touches every workspace.
LEMMA OperationCalm ==
  ASSUME TaskInv, TaskInv', Calm, NEW k \in Slot, task[k] # None, task[k].kind = "reload",
         NEW t, TaskFit(t, used, strays), task' = [task EXCEPT ![k] = t], t.kind = "reload",
         UNCHANGED app, UNCHANGED history,
         disk' = disk \/ \E s : s.ws \in Workspace /\ disk' = Put(s),
         TaskCalm(t, shown, disk', closed)
  PROVE  Calm'
<1>1. Touches(task[k]) = Workspace /\ Touches(t) = Workspace
  BY CalmTask, TouchesIs
<1>2. shown' # None => shown'.ws \in Workspace
  BY SnapshotIs DEF TaskInv, AppFits, Fit
<1>3. shown' = shown /\ UNCHANGED <<active, pending, closed, faulty>>
  BY DEF app, history
<1>4. disk' = disk \/ \E s : s.ws \in Touches(task[k]) /\ disk' = Put(s)
  BY <1>1
<1>5. t # None => TaskCalm(t, shown', disk', closed')
  BY <1>3
<1> QED BY <1>1, <1>2, <1>3, <1>4, <1>5, CalmRun

LEMMA JJStepCalm ==
  ASSUME TaskInv, Calm, NEW k \in Slot,
         \/ CreateInJJ(k) \/ ForgetInJJ(k) \/ DeleteRow(k) \/ CheckName(k) \/ RenameInJJ(k)
  PROVE  Calm'
<1>1. task[k] # None /\ task[k].kind = "reload" /\ disk' = disk
  BY DEF CreateInJJ, ForgetInJJ, DeleteRow, CheckName, RenameInJJ, Step, At
<1>2. PICK t : /\ TaskFit(t, used, strays) /\ task' = [task EXCEPT ![k] = t]
               /\ t.kind = "reload" /\ t.step \in {"delete", "row", "jj", "copy", "list"}
               /\ UNCHANGED <<app, kills, shells, history>>
  BY OperationStep DEF CreateInJJ, ForgetInJJ, DeleteRow, CheckName, RenameInJJ
<1>3. TaskCalm(t, shown, disk, closed)
  BY <1>2 DEF TaskCalm
<1> QED BY <1>1, <1>2, <1>3, JJStepFits, OperationCalm

LEMMA RenameCopyCalm ==
  ASSUME TaskInv, Calm, NEW k \in Slot, RenameCopy(k)
  PROVE  Calm'
<1>1. task[k] # None /\ task[k].kind = "reload" /\ UNCHANGED <<app, kills, world, history>>
  BY DEF RenameCopy, At
<1>2. PICK t : /\ TaskFit(t, used, strays) /\ task' = [task EXCEPT ![k] = t]
               /\ t.kind = "reload" /\ t.step = "commit" /\ t.ws = task[k].ws /\ t.to = task[k].to
               /\ t.snap = IF t.ws \in DOMAIN disk THEN [disk[t.ws] EXCEPT !.ws = t.to] ELSE None
  BY RenameCopyFits
<1>3. t.ws \in DOMAIN disk =>
        t.snap # None /\ t.snap.ws = t.to /\ t.snap.columns = disk[t.ws].columns
  <2>1. t.to \in Workspace
    BY <1>2, TaskKinds DEF TaskFit
  <2>2. SUFFICES ASSUME t.ws \in DOMAIN disk
                 PROVE  t.snap # None /\ t.snap.ws = t.to /\ t.snap.columns = disk[t.ws].columns
    OBVIOUS
  <2>3. Fit(disk[t.ws], used, strays) /\ disk[t.ws] \in Snapshot
    BY <2>2 DEF TaskInv, DiskFits, Fit
  <2>4. t.snap = [disk[t.ws] EXCEPT !.ws = t.to]
    BY <1>2, <2>2
  <2>5. t.snap.ws = t.to /\ t.snap.columns = disk[t.ws].columns
    BY <2>3, <2>4 DEF Snapshot
  <2>6. t.snap # None
    <3>1. Fit(t.snap, used, strays)
      BY <2>1, <2>3, <2>4, WorkspaceFits
    <3> QED BY <3>1, SnapshotIs DEF Fit
  <2> QED BY <2>5, <2>6
<1>4. TaskCalm(t, shown, disk, closed)
  BY <1>2, <1>3 DEF TaskCalm
<1>5. TaskInv' /\ disk' = disk
  BY <1>1, RenameCopyFits DEF world
<1> QED BY <1>1, <1>2, <1>4, <1>5, OperationCalm

LEMMA ReloadListCalm ==
  ASSUME TaskInv, Calm, NEW k \in Slot, ReloadList(k) \/ ReloadUpsert(k)
  PROVE  Calm'
<1>1. task[k] # None /\ task[k].kind = "reload" /\ UNCHANGED app /\ UNCHANGED history /\ disk' = disk
  BY DEF ReloadList, ReloadUpsert, At, world
<1>2. /\ TaskInv'
      /\ \E t : /\ TaskFit(t, used, strays) /\ task' = [task EXCEPT ![k] = t]
                /\ t.kind = "reload" /\ t.step \in {"upsert", "apply", "read"}
                /\ t.step = "apply" => t.want = None
  <2>1. CASE ReloadList(k)
    BY <2>1, ReloadListFits
  <2>2. CASE ReloadUpsert(k)
    BY <2>2, ReloadUpsertFits
  <2> QED BY <2>1, <2>2
<1>3. PICK t : /\ TaskFit(t, used, strays) /\ task' = [task EXCEPT ![k] = t]
               /\ t.kind = "reload" /\ t.step \in {"upsert", "apply", "read"}
               /\ t.step = "apply" => t.want = None
  BY <1>2
<1>4. TaskCalm(t, shown, disk, closed)
  BY <1>3 DEF TaskCalm
<1> QED BY <1>1, <1>2, <1>3, <1>4, OperationCalm

LEMMA ReloadReadCalm ==
  ASSUME TaskInv, Calm, NEW k \in Slot, ReloadRead(k)
  PROVE  Calm'
<1>1. task[k] # None /\ task[k].kind = "reload" /\ UNCHANGED <<app, kills, world, history>>
  BY DEF ReloadRead, At
<1>2. PICK t : /\ TaskFit(t, used, strays) /\ task' = [task EXCEPT ![k] = t]
               /\ t.kind = "reload" /\ t.want \in Workspace
               /\ t.step = IF t.want \in DOMAIN disk THEN "apply" ELSE "create"
               /\ t.snap = IF t.want \in DOMAIN disk THEN disk[t.want] ELSE EmptyLayout(t.want)
  BY ReloadReadFits
<1>3. t.snap.ws = t.want
  BY <1>2 DEF EmptyLayout, Calm
<1>4. LoadAgrees(t.want, t, disk)
  BY <1>2, <1>3 DEF LoadAgrees, StoredAs
<1>5. TaskCalm(t, shown, disk, closed)
  BY <1>2, <1>4 DEF TaskCalm
<1>6. TaskInv' /\ disk' = disk
  BY <1>1, ReloadReadFits DEF world
<1> QED BY <1>1, <1>2, <1>5, <1>6, OperationCalm

LEMMA ReloadCreateCalm ==
  ASSUME TaskInv, Calm, NEW k \in Slot, ReloadCreate(k)
  PROVE  Calm'
<1>1. /\ task[k] # None /\ task[k].kind = "reload" /\ task[k].step = "create"
      /\ disk' = Put(task[k].snap) /\ UNCHANGED <<app, kills, history>>
  BY DEF ReloadCreate, At
<1>2. PICK t : /\ TaskFit(t, used, strays) /\ task' = [task EXCEPT ![k] = t]
               /\ t.kind = "reload" /\ t.step = "apply" /\ t.want = task[k].want
               /\ t.snap = task[k].snap
  BY ReloadCreateFits
<1>3. task[k].want # None /\ task[k].snap # None /\ task[k].want \in Workspace
  <2>1. TaskFit(task[k], used, strays) /\ task[k] \in Reloads
    BY <1>1, TaskIs
  <2> QED BY <1>1, <2>1 DEF TaskFit, Reloads
<1>4. LoadAgrees(t.want, task[k], disk)
  BY <1>1, <1>2, <1>3, CalmTask DEF TaskCalm
<1>5. t.snap.ws = t.want
  BY <1>1, <1>2, <1>3, <1>4 DEF LoadAgrees
<1>6. t.want \in DOMAIN disk' /\ disk'[t.want] = t.snap
  BY <1>1, <1>2, <1>5, PutIs
<1>7. LoadAgrees(t.want, t, disk')
  BY <1>2, <1>5, <1>6 DEF LoadAgrees, StoredAs
<1>8. TaskCalm(t, shown, disk', closed)
  BY <1>2, <1>7 DEF TaskCalm
<1> QED BY <1>1, <1>2, <1>3, <1>5, <1>8, ReloadCreateFits, OperationCalm

\* A layout is dropped, or moves to another workspace.
LEMMA RowsCalm ==
  ASSUME TaskInv, Calm, NEW k \in Slot, DeleteLayout(k) \/ RenameRows(k)
  PROVE  Calm'
<1>1. task[k] # None /\ task[k].kind = "reload" /\ (RenameRows(k) => task[k].step = "commit")
  BY DEF DeleteLayout, RenameRows, Step, At
<1>2. PICK t : /\ TaskFit(t, used, strays) /\ task' = [task EXCEPT ![k] = t]
               /\ t.kind = "reload" /\ t.step \in {"row", "list"}
               /\ UNCHANGED <<app, kills, shells, history>>
  BY OperationStep DEF DeleteLayout, RenameRows
<1>3. TaskCalm(t, shown', disk', closed')
  BY <1>2 DEF TaskCalm
<1>4. Touches(task[k]) = Workspace /\ Touches(t) = Workspace
  BY <1>1, <1>2, CalmTask, TouchesIs
<1>5. Alone(k, Workspace)
  BY <1>4, RunsAlone
<1>6. shown' = shown /\ UNCHANGED <<active, pending, closed, faulty>>
  BY <1>2 DEF app, history
<1>7. TaskInv'
  BY DeleteLayoutFits, RenameRowsFits
<1>8. shown' # None => shown'.ws = active' /\ shown'.ws \in Workspace
  BY <1>6, <1>7, SnapshotIs DEF Calm, TaskInv, AppFits, Fit
<1>9. \A w \in DOMAIN disk' : disk'[w].ws = w
  <2>1. CASE DeleteLayout(k)
    <3>1. disk' = Drop(task[k].ws)
      BY <2>1 DEF DeleteLayout
    <3>2. DOMAIN disk' \subseteq DOMAIN disk /\ \A w \in DOMAIN disk' : disk'[w] = disk[w]
      BY <3>1 DEF Drop, Restrict
    <3> QED BY <3>2 DEF Calm
  <2>2. CASE RenameRows(k)
    <3> DEFINE w == task[k].ws
               to == task[k].to
               s == task[k].snap
    <3>1. disk' = IF w \notin DOMAIN disk THEN disk
                  ELSE [v \in (DOMAIN disk \ {w}) \cup {to} |->
                         IF v # to THEN disk[v] ELSE IF s # None THEN s ELSE disk[w]]
      BY <2>2 DEF RenameRows
    <3>2. w \in DOMAIN disk => s # None /\ s.ws = to
      BY <1>1, <2>2, CalmTask DEF TaskCalm
    <3> HIDE DEF w, to, s
    <3>3. CASE w \in DOMAIN disk
      BY <3>1, <3>2, <3>3 DEF Calm
    <3> QED BY <3>1, <3>3 DEF Calm
  <2> QED BY <2>1, <2>2
<1>10. Frame(Workspace)
  BY <1>8 DEF Frame
<1> QED BY <1>2, <1>3, <1>4, <1>5, <1>6, <1>7, <1>8, <1>9, <1>10, CalmStep

LEMMA ReloadApplyCalm ==
  ASSUME TaskInv, Calm, NEW k \in Slot, ReloadApply(k)
  PROVE  Calm'
<1>1. /\ task[k] # None /\ task[k].kind = "reload" /\ task[k].step = "apply"
      /\ task' = [task EXCEPT ![k] = None] /\ active' = task[k].want
      /\ UNCHANGED <<disk, closed, faulty>>
      /\ pending' = IF task[k].op = "rename" THEN RekeyPending(task[k].ws, task[k].to) ELSE pending
  BY DEF ReloadApply, At, Finish
<1>2. /\ TaskInv'
      /\ IF task[k].want = None THEN shown' = None
         ELSE /\ shown' # None /\ shown'.ws = task[k].snap.ws
              /\ shown'.columns = task[k].snap.columns
  BY ReloadApplyFits
<1>3. Touches(task[k]) = Workspace
  BY <1>1, CalmTask, TouchesIs
<1>4. Alone(k, Workspace)
  BY <1>3, RunsAlone
<1>5. DOMAIN pending = {}
  BY <1>4, SnapshotIs DEF Alone, TaskInv, PendingFits, Fit
<1>6. DOMAIN pending' = DOMAIN pending
  BY <1>1 DEF RekeyPending
<1>7. task[k].want # None =>
        task[k].snap # None /\ task[k].snap.ws = task[k].want /\ StoredAs(task[k].snap, disk)
  BY <1>1, CalmTask DEF TaskCalm, LoadAgrees, TaskFit
<1>8. shown' # None => shown'.ws = active' /\ StoredAs(shown', disk')
  BY <1>1, <1>2, <1>7 DEF StoredAs
<1>9. shown' # None => shown'.ws \in Workspace
  BY <1>2, SnapshotIs DEF TaskInv, AppFits, Fit
<1>10. Frame(Workspace) /\ \A w \in DOMAIN disk' : disk'[w].ws = w
  BY <1>1, <1>9 DEF Frame, Calm
<1>11. Touches(None) = {}
  BY DEF Touches
<1> QED BY <1>1, <1>2, <1>3, <1>4, <1>5, <1>6, <1>8, <1>10, <1>11, CalmStep

\* A save of a layout that has lost no panes but closed ones.
LEMMA SaveStarts ==
  ASSUME TaskInv, TaskInv', Calm, NEW k \in Slot, NEW s, task[k] = None, ~disturbed',
         task' = [task EXCEPT ![k] = SaveTask(s)], shown # None, shown' # None, Use({shown.ws}),
         shown'.ws = shown.ws, s.ws = shown.ws, shown'.columns = s.columns, Fit(s, used', strays'),
         Panes(shown) \ Panes(s) \subseteq closed', closed \subseteq closed',
         UNCHANGED <<active, pending, disk, faulty>>
  PROVE  Calm'
<1> DEFINE w == shown.ws
<1>1. w \in Workspace /\ shown.ws = active
  BY ShownIs DEF Calm
<1>2. Alone(k, {w}) /\ ~Busy(w)
  BY StartsAlone
<1>3. StoredAs(shown, disk)
  BY <1>1, <1>2 DEF Calm
<1>4. SaveTask(s).kind = "save" /\ SaveTask(s).snap = s
  BY DEF SaveTask
<1>5. TaskCalm(SaveTask(s), shown', disk', closed')
  <2>1. s.ws \in DOMAIN disk' => Panes(disk'[s.ws]) \ Panes(s) \subseteq closed'
    BY <1>3 DEF StoredAs, Panes
  <2> QED BY <1>4, <2>1 DEF TaskCalm
<1>6. Touches(task[k]) = {} /\ Touches(SaveTask(s)) = {w}
  <2>1. TaskFit(SaveTask(s), used', strays')
    BY SaveFits
  <2>2. Touches(SaveTask(s)) = {SaveTask(s).snap.ws}
    BY <1>4, <2>1, TouchesIs
  <2> QED BY <1>4, <2>2 DEF Touches
<1>7. Frame({w}) /\ \A v \in {w} \cap DOMAIN disk' : disk'[v].ws = v
  BY DEF Frame, Calm
<1>8. shown'.ws = active'
  BY <1>1
<1>9. DOMAIN pending' = DOMAIN pending /\ \A i \in DOMAIN pending : pending'[i] = pending[i]
  OBVIOUS
<1> QED BY <1>1, <1>2, <1>5, <1>6, <1>7, <1>8, <1>9, CalmStep

LEMMA FocusCalm ==
  ASSUME TaskInv, Calm, NEW k \in Slot, ~disturbed',
         (\E p \in Pane : SelectPane(p, k)) \/ NavigatePane(k)
  PROVE  Calm'
<1>1. TaskInv' /\ SameLayout
  BY FocusStepFits
<1>2. /\ task[k] = None /\ task' = [task EXCEPT ![k] = SaveTask(shown')] /\ Use({shown.ws})
      /\ UNCHANGED <<active, pending, disk, faulty, closed>>
  BY DEF SelectPane, NavigatePane, Focus, Start, world
<1>3. Fit(shown', used', strays')
  BY <1>1 DEF SameLayout, TaskInv, AppFits
<1>4. Panes(shown) = Panes(shown')
  BY <1>1 DEF SameLayout, Panes
<1> QED BY <1>1, <1>2, <1>3, <1>4, SaveStarts DEF SameLayout

LEMMA AddPaneCalm ==
  ASSUME TaskInv, Calm, NeverBlank, NEW k \in Slot, NEW p \in Pane, AddPane(p, k), ~disturbed'
  PROVE  Calm' /\ shown # None /\ shown.ws = active
<1>1. /\ active # None /\ task[k] = None /\ Use({active})
      /\ UNCHANGED <<active, pending, disk, faulty, closed>>
  BY DEF AddPane, Start
<1>2. /\ TaskInv' /\ shown' # None /\ task' = [task EXCEPT ![k] = SaveTask(shown')]
      /\ shown # None => shown'.ws = shown.ws /\ Panes(shown') = Panes(shown) \cup {p}
  BY AddPaneFits
<1>3. ~Busy(active)
  BY <1>1, StartsAlone
<1>4. shown # None
  <2>1. SUFFICES ASSUME shown = None
                 PROVE  FALSE
    OBVIOUS
  <2>2. PICK j \in Slot : task[j] # None /\ task[j].kind = "load" /\ task[j].ws = active
    BY <1>1, <2>1 DEF NeverBlank, Calm
  <2>3. active \in Touches(task[j])
    BY <2>2, CalmTask, TouchesIs
  <2> QED BY <1>3, <2>3 DEF Busy
<1>5. shown.ws = active
  BY <1>4 DEF Calm
<1>6. Fit(shown', used', strays')
  BY <1>2 DEF TaskInv, AppFits
<1> QED BY <1>1, <1>2, <1>4, <1>5, <1>6, SaveStarts

LEMMA CloseCalm ==
  ASSUME TaskInv, Calm, NEW k \in Slot, CloseActivePane(k), ~disturbed'
  PROVE  Calm'
<1>1. /\ task[k] = None /\ Use({shown.ws}) /\ closed' = closed \cup {shown.focus}
      /\ UNCHANGED <<active, pending, disk, faulty>>
  BY DEF CloseActivePane, Start
<1>2. TaskInv' /\ shown # None /\ shown' # None /\ shown'.ws = shown.ws
  BY CloseFits
<1>3. PICK s : /\ task' = [task EXCEPT ![k] = SaveTask(s)] /\ s.ws = shown.ws
               /\ shown'.columns = s.columns /\ Panes(s) = Panes(shown) \ {shown.focus}
               /\ Fit(s, used, strays)
  BY CloseFits
<1>4. used' = used /\ strays' = strays
  BY DEF CloseActivePane
<1> QED BY <1>1, <1>2, <1>3, <1>4, SaveStarts

LEMMA TerminalExitCalm ==
  ASSUME TaskInv, Calm, NEW k \in Slot, NEW w \in Workspace, NEW p \in Pane,
         TerminalExit(w, p, k), ~disturbed'
  PROVE  Calm'
<1>1. /\ task[k] = None /\ Use({w}) /\ closed' = closed \cup {p}
      /\ used' = used /\ strays' = strays /\ UNCHANGED <<active, pending, disk, faulty>>
  BY DEF TerminalExit, Start
<1>2. TaskInv'
  BY TerminalExitFits
<1>3. CASE /\ shown # None /\ shown' # None /\ shown'.ws = shown.ws /\ shown.ws = w
           /\ task' = [task EXCEPT ![k] = SaveTask(shown')]
           /\ Panes(shown') = Panes(shown) \ {p} /\ Fit(shown', used, strays)
  BY <1>1, <1>2, <1>3, SaveStarts
<1>4. CASE /\ ~ (shown # None /\ shown.ws = w /\ p \in Panes(shown)) /\ shown' = shown
           /\ task' = [task EXCEPT ![k] = ExitTask(w, p)] /\ p \in Terminal
  <2> DEFINE t == ExitTask(w, p)
  <2>1. t.kind = "exit" /\ t.step = "read" /\ t.ws = w /\ t.pane = p
    BY DEF ExitTask
  <2>2. TaskFit(t, used, strays)
    <3>1. t \in Exits /\ t.snap = None
      BY <1>4 DEF ExitTask, Exits
    <3> QED BY <2>1, <3>1, ExitFits
  <2>3. task' = [task EXCEPT ![k] = t]
    BY <1>4
  <2> HIDE DEF t
  <2>4. Touches(task[k]) = {} /\ Touches(t) = {w}
    BY <1>1, <2>1, <2>2, TouchesIs DEF Touches
  <2>5. Alone(k, {w}) /\ ~Busy(w)
    BY <1>1, StartsAlone
  <2>6. Hidden(w, shown) \/ (p \notin Panes(shown) /\ StoredAs(shown, disk))
    BY <1>4, <2>5 DEF Hidden, Calm
  <2>7. TaskCalm(t, shown', disk', closed')
    BY <1>1, <1>4, <2>1, <2>6 DEF TaskCalm
  <2>8. Frame({w}) /\ \A v \in {w} \cap DOMAIN disk' : disk'[v].ws = v
    BY <1>1, <1>4 DEF Frame, SameLayout, Calm
  <2>9. shown' # None => shown'.ws = active'
    BY <1>1, <1>4 DEF Calm
  <2>10. /\ closed \subseteq closed' /\ faulty' = faulty
         /\ DOMAIN pending' = DOMAIN pending /\ \A i \in DOMAIN pending : pending'[i] = pending[i]
    BY <1>1
  <2> QED BY <1>2, <2>3, <2>4, <2>5, <2>7, <2>8, <2>9, <2>10, CalmStep
<1> QED BY <1>3, <1>4, TerminalExitFits

LEMMA NavigateCalm ==
  ASSUME TaskInv, TaskInv', Calm, NEW k \in Slot, NEW op, NEW step \in {"check", "jj", "list"},
         NEW w, NEW to, NEW want, Navigate(k, op, step, w, to, want), ~disturbed'
  PROVE  Calm'
<1> DEFINE t == ReloadTask(op, step, w, to, want)
<1>1. /\ task[k] = None /\ task' = [task EXCEPT ![k] = t] /\ Use(Workspace)
      /\ UNCHANGED <<active, shown, pending, disk, closed, faulty>>
  BY DEF Navigate, Start, app, world
<1>2. t.kind = "reload" /\ t.step = step
  BY DEF ReloadTask
<1> HIDE DEF t
<1>3. Touches(task[k]) = {} /\ Touches(t) \subseteq Workspace
  BY <1>1, <1>2 DEF Touches
<1>4. Alone(k, Workspace) /\ \A v \in Workspace : ~Busy(v)
  BY <1>1, StartsAlone
<1>5. TaskCalm(t, shown', disk', closed')
  BY <1>2 DEF TaskCalm
<1>6. shown' # None => shown'.ws = active' /\ shown'.ws \in Workspace /\ StoredAs(shown', disk')
  BY <1>1, <1>4, ShownIs DEF Calm
<1>7. Frame(Workspace) /\ \A v \in Workspace \cap DOMAIN disk' : disk'[v].ws = v
  BY <1>1, <1>6 DEF Frame, Calm
<1>8. /\ closed \subseteq closed' /\ faulty' = faulty
      /\ DOMAIN pending' = DOMAIN pending /\ \A i \in DOMAIN pending : pending'[i] = pending[i]
  BY <1>1
<1> QED BY <1>1, <1>3, <1>4, <1>5, <1>6, <1>7, <1>8, CalmStep

LEMMA OperationsCalm ==
  ASSUME TaskInv, Calm, NEW k \in Slot, ~disturbed',
         \/ Reload(k)
         \/ \E w \in Workspace : CreateWorkspace(w, k) \/ ForgetWorkspace(w, k)
         \/ \E w, to \in Workspace : RenameWorkspace(w, to, k)
  PROVE  Calm'
<1>1. TaskInv'
  BY OperationsFit
<1>2. CASE Reload(k)
  BY <1>1, <1>2, NavigateCalm DEF Reload
<1>3. ASSUME NEW w \in Workspace, CreateWorkspace(w, k) \/ ForgetWorkspace(w, k)
      PROVE  Calm'
  BY <1>1, <1>3, NavigateCalm DEF CreateWorkspace, ForgetWorkspace
<1>4. ASSUME NEW w \in Workspace, NEW to \in Workspace, RenameWorkspace(w, to, k)
      PROVE  Calm'
  BY <1>1, <1>4, NavigateCalm DEF RenameWorkspace
<1> QED BY <1>2, <1>3, <1>4

LEMMA TypeQueuedCalm ==
  ASSUME TaskInv, Calm, NEW k \in Slot, NEW p \in Pane, TypeQueued(p, k), ~disturbed'
  PROVE  Calm'
<1> DEFINE w == shown.ws
           n == Len(pending)
<1>1. /\ Use({w}) /\ UNCHANGED <<active, disk, closed, faulty>>
      /\ task' = task \/ (task[k] = None /\ task' = [task EXCEPT ![k] = FlushTask])
  BY DEF TypeQueued, Start, world
<1>2. /\ TaskInv' /\ SameLayout
      /\ n \in Nat /\ DOMAIN pending = 1 .. n /\ DOMAIN pending' = 1 .. (n + 1)
      /\ pending'[n + 1].snap = shown'
      /\ \A j \in DOMAIN pending : pending'[j] = pending[j]
  BY TypeQueuedFits
<1> HIDE DEF n
<1>3. shown # None /\ shown' # None /\ shown'.ws = shown.ws /\ shown'.columns = shown.columns
  BY <1>2 DEF SameLayout
<1>4. w \in Workspace /\ w = active
  BY <1>3, ShownIs DEF Calm
<1>5. ~Busy(w)
  BY <1>1, StartsAlone
<1>6. StoredAs(shown, disk)
  BY <1>3, <1>4, <1>5 DEF Calm
<1>7. TaskFit(FlushTask, used, strays) /\ Touches(FlushTask) = {} /\ \A s, d, c : TaskCalm(FlushTask, s, d, c)
  <2>1. TaskFit(FlushTask, used, strays)
    BY FlushTaskFits
  <2>2. FlushTask.kind = "flush" /\ FlushTask.step = "wait" /\ FlushTask.batch = <<>>
    BY DEF FlushTask
  <2>3. Touches(FlushTask) = {}
    BY <2>1, <2>2, TouchesIs
  <2>4. \A s, d, c : TaskCalm(FlushTask, s, d, c)
    BY <2>2 DEF TaskCalm
  <2> QED BY <2>1, <2>3, <2>4
<1>8. \A j \in Slot : /\ Touches(task'[j]) = Touches(task[j])
                      /\ task'[j] = task[j] \/ task'[j] = FlushTask
  <2>1. Touches(None) = {}
    BY DEF Touches
  <2>2. task \in [Slot -> Tasks \cup {None}]
    BY DEF TaskInv, TasksFit
  <2>3. Touches(task[k]) = {} \/ task' = task
    BY <1>1, <2>1
  <2> QED BY <1>1, <1>7, <2>1, <2>2
<1>9. ASSUME NEW j \in Slot, task'[j] # None
      PROVE  TaskCalm(task'[j], shown', disk', closed')
  <2>1. CASE task'[j] = task[j]
    <3>1. TaskCalm(task[j], shown, disk, closed) /\ TaskFit(task[j], used, strays)
      BY <1>9, <2>1, CalmTask
    <3> QED BY <1>1, <1>3, <2>1, <3>1, TaskFrame
  <2> QED BY <1>7, <1>8, <2>1
<1>10. ASSUME NEW i \in DOMAIN pending'
       PROVE  /\ \A j \in Slot : pending'[i].snap.ws \notin Touches(task'[j])
              /\ Agrees(pending'[i].snap, shown', disk')
  <2>1. i \in DOMAIN pending \/ i = n + 1
    BY <1>2
  <2>2. CASE i \in DOMAIN pending
    <3>1. pending'[i] = pending[i]
      BY <1>2, <2>2
    <3>2. /\ \A j \in Slot : pending[i].snap.ws \notin Touches(task[j])
          /\ Agrees(pending[i].snap, shown, disk)
      BY <2>2 DEF Calm
    <3> QED BY <1>1, <1>3, <1>8, <3>1, <3>2 DEF Agrees
  <2>3. CASE i = n + 1
    <3>1. pending'[i].snap = shown'
      BY <1>2, <2>3
    <3>2. \A j \in Slot : w \notin Touches(task[j])
      BY <1>5 DEF Busy
    <3>3. Agrees(shown', shown', disk')
      BY <1>1, <1>3, <1>6 DEF Agrees, StoredAs
    <3> QED BY <1>3, <1>8, <3>1, <3>2, <3>3
  <2> QED BY <2>1, <2>2, <2>3
<1>11. StoredAs(shown', disk') /\ shown'.ws = active'
  BY <1>1, <1>3, <1>4, <1>6 DEF StoredAs
<1>12. \A i, j \in Slot : i # j => Touches(task'[i]) \cap Touches(task'[j]) = {}
  BY <1>8 DEF Calm
<1>13. faulty' = {} /\ \A v \in DOMAIN disk' : disk'[v].ws = v
  BY <1>1 DEF Calm
<1> QED BY <1>9, <1>10, <1>11, <1>12, <1>13 DEF Calm

LEMMA FlushTakeCalm ==
  ASSUME TaskInv, Calm, NEW k \in Slot, FlushTake(k)
  PROVE  Calm'
<1>1. /\ task[k] # None /\ task[k].kind = "flush" /\ task[k].step = "wait" /\ pending' = <<>>
      /\ UNCHANGED <<active, shown, disk, closed, faulty>>
  BY DEF FlushTake, At, world, history
<1>2. TaskInv'
  BY FlushTakeFits
<1>3. Touches(task[k]) = {}
  <2>1. Touches(task[k]) = {task[k].batch[i].snap.ws : i \in DOMAIN task[k].batch}
    BY <1>1, BatchIs
  <2>2. task[k].batch = <<>>
    BY <1>1, CalmTask DEF TaskCalm
  <2> QED BY <2>1, <2>2
<1>4. CASE pending = <<>>
  <2>1. task' = [task EXCEPT ![k] = None]
    BY <1>4, FlushTakeFits
  <2>2. Touches(None) = {}
    BY DEF Touches
  <2> QED BY <1>1, <1>2, <1>3, <1>4, <2>1, <2>2, CalmRun
<1>5. CASE pending # <<>>
  <2>1. PICK t : /\ TaskFit(t, used, strays) /\ task' = [task EXCEPT ![k] = t]
                 /\ t.kind = "flush" /\ t.step = "send" /\ t.batch = pending
    BY <1>5, FlushTakeFits
  <2>2. Touches(t) = {t.batch[i].snap.ws : i \in DOMAIN t.batch}
    BY <2>1, TouchesIs
  <2>3. task'[k] = t /\ \A j \in Slot : j # k => task'[j] = task[j]
    BY <2>1 DEF TaskInv, TasksFit
  <2>4. \A i \in DOMAIN pending : /\ \A j \in Slot : pending[i].snap.ws \notin Touches(task[j])
                                  /\ Agrees(pending[i].snap, shown, disk)
    BY DEF Calm
  <2>5. TaskCalm(t, shown, disk, closed)
    BY <2>1, <2>4 DEF TaskCalm
  <2>6. \A j \in Slot : task'[j] # None => TaskCalm(task'[j], shown, disk, closed)
    BY <2>3, <2>5 DEF Calm
  <2>7. \A w \in Touches(t) : \E i \in DOMAIN pending : w = pending[i].snap.ws
    BY <2>1, <2>2
  <2>8. \A j \in Slot : Touches(t) \cap Touches(task[j]) = {}
    BY <2>4, <2>7
  <2>9. \A i, j \in Slot : i # j => Touches(task'[i]) \cap Touches(task'[j]) = {}
    BY <2>3, <2>8 DEF Calm
  <2>10. \A w \in Workspace : ~Busy(w)' => ~Busy(w)
    <3>1. \A i \in DOMAIN pending : pending[i].snap.ws \in Touches(t)
      BY <2>1, <2>2
    <3> QED BY <1>3, <2>3, <3>1 DEF Busy
  <2>11. \A w \in Workspace : ~Busy(w)' /\ shown' # None /\ shown'.ws = w => StoredAs(shown', disk')
    BY <1>1, <2>10 DEF Calm
  <2>12. DOMAIN pending' = {}
    BY <1>1
  <2>13. /\ faulty' = {} /\ \A w \in DOMAIN disk' : disk'[w].ws = w
         /\ shown' # None => shown'.ws = active'
    BY <1>1 DEF Calm
  <2>14. \A j \in Slot : task'[j] # None => TaskCalm(task'[j], shown', disk', closed')
    BY <1>1, <2>6
  <2> QED BY <2>9, <2>11, <2>12, <2>13, <2>14 DEF Calm
<1> QED BY <1>4, <1>5

-----------------------------------------------------------------------------
(* The calm holds until operations overlap or a write fails.                  *)

LEMMA InitCalm ==
  ASSUME Init
  PROVE  Calm
<1> DEFINE t == ReloadTask("start", "list", None, None, None)
<1>1. shown = None /\ pending = <<>> /\ faulty = {}
  BY DEF Init
<1>2. PICK k \in Slot : task = [j \in Slot |-> IF j = k THEN t ELSE None]
  BY DEF Init
<1>3. PICK W \in SUBSET rows : \E panes \in [W -> Stored] : disk = [w \in W |-> Left(w, panes[w])]
  BY DEF Init
<1>4. \A w \in DOMAIN disk : disk[w].ws = w
  <2>1. PICK panes \in [W -> Stored] : disk = [w \in W |-> Left(w, panes[w])]
    BY <1>3
  <2> QED BY <2>1 DEF Left, EmptyLayout
<1>5. t.kind = "reload" /\ t.step = "list"
  BY DEF ReloadTask
<1> HIDE DEF t
<1>6. \A j \in Slot : task[j] # None => j = k /\ task[j] = t
  BY <1>2
<1>7. TaskCalm(t, shown, disk, closed)
  BY <1>5 DEF TaskCalm
<1>8. \A i, j \in Slot : i # j => Touches(task[i]) \cap Touches(task[j]) = {}
  <2>1. Touches(None) = {}
    BY DEF Touches
  <2> QED BY <1>6, <2>1
<1>9. DOMAIN pending = {}
  BY <1>1
<1> QED BY <1>1, <1>4, <1>6, <1>7, <1>8, <1>9 DEF Calm

\* The history does not forget.
LEMMA DisturbedStays ==
  ASSUME TaskInv, [Next]_vars, ~disturbed'
  PROVE  ~disturbed
<1>1. disturbed \in BOOLEAN
  BY DEF TaskInv, HistoryFits
<1>2. CASE UNCHANGED vars
  BY <1>2 DEF vars, history
<1>3. ASSUME NEW k \in Slot, TaskStep(k)
      PROVE  ~disturbed
  <2>1. CASE LoadRead(k) \/ LoadCreate(k) \/ LoadApply(k) \/ LoadFail(k)
    BY <2>1 DEF LoadRead, LoadCreate, LoadApply, LoadFail, history
  <2>2. CASE SaveRun(k) \/ SaveFail(k) \/ ExitRead(k) \/ ExitWrite(k) \/ ExitFail(k)
    BY <2>2 DEF SaveRun, SaveFail, ExitRead, ExitWrite, ExitFail, history
  <2>3. CASE FlushTake(k) \/ FlushSend(k) \/ FlushSave(k) \/ FlushApply(k) \/ FlushFail(k)
    BY <2>3 DEF FlushTake, FlushSend, FlushSave, FlushApply, FlushFail, history
  <2>4. CASE \/ CreateInJJ(k) \/ ForgetInJJ(k) \/ DeleteLayout(k) \/ DeleteRow(k)
             \/ CheckName(k) \/ RenameInJJ(k) \/ RenameRows(k)
    BY <2>4 DEF CreateInJJ, ForgetInJJ, DeleteLayout, DeleteRow, CheckName, RenameInJJ,
       RenameRows, Step, history
  <2>5. CASE \/ RenameCopy(k) \/ ReloadList(k) \/ ReloadUpsert(k) \/ ReloadRead(k)
             \/ ReloadCreate(k) \/ ReloadFail(k) \/ ReloadApply(k)
    BY <2>5 DEF RenameCopy, ReloadList, ReloadUpsert, ReloadRead, ReloadCreate, ReloadFail,
       ReloadApply, history
  <2> QED BY <1>3, <2>1, <2>2, <2>3, <2>4, <2>5 DEF TaskStep
<1>4. CASE User
  <2>1. (\E W : Use(W)) \/ disturbed' = disturbed
    BY <1>4 DEF User, OpenWorkspace, CreateWorkspace, ForgetWorkspace, RenameWorkspace, Reload,
       Navigate, AddPane, SelectPane, NavigatePane, Focus, ActivateTerminal, TypeLive, TypeQueued,
       CloseActivePane, history
  <2> QED BY <2>1 DEF Use
<1>5. CASE TerminalEvent
  BY <1>5 DEF TerminalEvent, DrainOutput, TerminalExit, Use, history
<1>6. ASSUME NEW s \in Shell, KillRun(s) \/ KillFail(s)
      PROVE  ~disturbed
  BY <1>6 DEF KillRun, KillFail, history
<1> QED BY <1>2, <1>3, <1>4, <1>5, <1>6 DEF Next

LEMMA NextCalm ==
  ASSUME TaskInv, NeverBlank, Calm, [Next]_vars, ~disturbed'
  PROVE  Calm'
<1>1. CASE UNCHANGED vars
  <2>1. UNCHANGED <<shown, active, pending, task, disk, closed, faulty>>
    BY <1>1 DEF vars, app, world, history
  <2> QED BY <1>1, <2>1, StutterFits, CalmStays
<1>2. ASSUME NEW k \in Slot, TaskStep(k)
      PROVE  Calm'
  <2>1. CASE LoadRead(k) \/ LoadCreate(k) \/ LoadApply(k) \/ LoadFail(k)
    BY <2>1, LoadReadCalm, LoadCreateCalm, LoadApplyCalm DEF LoadFail
  <2>2. CASE SaveRun(k) \/ SaveFail(k) \/ ExitRead(k) \/ ExitWrite(k) \/ ExitFail(k)
    BY <2>2, SaveCalm, ExitReadCalm, ExitWriteCalm DEF SaveFail, ExitFail
  <2>3. CASE FlushTake(k) \/ FlushSend(k) \/ FlushSave(k) \/ FlushApply(k) \/ FlushFail(k)
    BY <2>3, FlushTakeCalm, FlushSendCalm, FlushSaveCalm, FlushApplyCalm DEF FlushFail
  <2>4. CASE \/ CreateInJJ(k) \/ ForgetInJJ(k) \/ DeleteLayout(k) \/ DeleteRow(k)
             \/ CheckName(k) \/ RenameInJJ(k) \/ RenameRows(k)
    BY <2>4, JJStepCalm, RowsCalm
  <2>5. CASE \/ RenameCopy(k) \/ ReloadList(k) \/ ReloadUpsert(k) \/ ReloadRead(k)
             \/ ReloadCreate(k) \/ ReloadFail(k) \/ ReloadApply(k)
    BY <2>5, RenameCopyCalm, ReloadListCalm, ReloadReadCalm, ReloadCreateCalm, ReloadApplyCalm
       DEF ReloadFail
  <2> QED BY <1>2, <2>1, <2>2, <2>3, <2>4, <2>5 DEF TaskStep
<1>3. CASE User
  <2>1. PICK k \in Slot :
    \/ \E w \in Workspace :
         OpenWorkspace(w, k) \/ CreateWorkspace(w, k) \/ ForgetWorkspace(w, k)
    \/ \E w, to \in Workspace : RenameWorkspace(w, to, k)
    \/ \E p \in Pane : AddPane(p, k) \/ SelectPane(p, k) \/ ActivateTerminal(p)
                        \/ TypeLive(p) \/ TypeQueued(p, k)
    \/ NavigatePane(k) \/ CloseActivePane(k) \/ Reload(k)
    BY <1>3 DEF User
  <2>2. ASSUME NEW p \in Pane, ActivateTerminal(p) \/ TypeLive(p)
        PROVE  Calm'
    <3>1. TaskInv' /\ SameLayout
      BY <2>2, FocusStepFits
    <3>2. UNCHANGED <<active, pending, task, disk, closed, faulty>>
      BY <2>2 DEF ActivateTerminal, TypeLive, world, history
    <3> QED BY <3>1, <3>2, CalmStays
  <2> QED BY <2>1, <2>2, OpenCalm, OperationsCalm, AddPaneCalm, FocusCalm, TypeQueuedCalm, CloseCalm
<1>4. CASE TerminalEvent
  <2>1. PICK p \in Pane : DrainOutput(p) \/ \E w \in Workspace, k \in Slot : TerminalExit(w, p, k)
    BY <1>4 DEF TerminalEvent
  <2>2. CASE DrainOutput(p)
    <3>1. TaskInv' /\ SameLayout
      BY <2>2, DrainFits
    <3>2. UNCHANGED <<active, pending, task, disk, closed, faulty>>
      BY <2>2 DEF DrainOutput, world, history
    <3> QED BY <3>1, <3>2, CalmStays
  <2> QED BY <2>1, <2>2, TerminalExitCalm
<1>5. ASSUME NEW s \in Shell, KillRun(s) \/ KillFail(s)
      PROVE  Calm'
  <2>1. UNCHANGED <<shown, active, pending, task, disk, closed, faulty>>
    BY <1>5 DEF KillRun, KillFail, app, world, history
  <2> QED BY <1>5, <2>1, KillFits, CalmStays
<1> QED BY <1>1, <1>2, <1>3, <1>4, <1>5 DEF Next

\* Until operations on a workspace overlap, what the tasks in flight carry
\* agrees with the stored layout and with the one on the screen (save_session,
\* ensure_session, ManagerInputBatch).
THEOREM CalmUntilDisturbed == Spec => [](~disturbed => Calm)
<1> DEFINE Inv == ~disturbed => Calm
<1>1. Init => Inv
  BY InitCalm
<1>2. TaskInv /\ NeverBlank /\ Inv /\ [Next]_vars => Inv'
  BY DisturbedStays, NextCalm
<1> QED BY <1>1, <1>2, AlwaysFits, NeverStaysBlank, PTL DEF Spec

\* While a layout is on the screen the active workspace is in the sidebar,
\* whether operations overlap or not; and until they overlap for the first time or
\* one fails, the layout is that of the active workspace.
THEOREM ScreenShowsActive == Spec => []ShownIsActive
<1>1. TaskInv /\ (~disturbed => Calm) => ShownIsActive
  BY DEF TaskInv, AppFits, Calm, ShownIsActive
<1> QED BY <1>1, AlwaysFits, CalmUntilDisturbed, PTL

\* Until operations overlap or one fails: with nothing in flight for its
\* workspace, the layout on the screen has the panes that the next start will
\* find in the store.
THEOREM ScreenSettles == Spec => []SettledAgrees
<1>1. TaskInv /\ (~disturbed => Calm) => SettledAgrees
  BY ShownIs DEF Calm, StoredAs, SettledAgrees
<1> QED BY <1>1, AlwaysFits, CalmUntilDisturbed, PTL

\* The panes that a stored layout loses were closed.
PanesKept ==
  \A w \in DOMAIN disk \cap DOMAIN disk' : Panes(disk[w]) \ Panes(disk'[w]) \subseteq closed'

LEMMA PutKeeps ==
  ASSUME Calm, NEW s, disk' = Put(s), closed' = closed,
         s.ws \in DOMAIN disk => Panes(disk[s.ws]) \ Panes(s) \subseteq closed
  PROVE  PanesKept
<1>1. /\ DOMAIN disk' = DOMAIN disk \cup {s.ws} /\ disk'[s.ws] = s
      /\ \A w \in DOMAIN disk : w # s.ws => disk'[w] = disk[w]
  BY PutIs
<1> QED BY <1>1 DEF PanesKept

LEMMA DiskKeeps ==
  ASSUME disk' = disk
  PROVE  PanesKept
BY DEF PanesKept

LEMMA TasksKeepPanes ==
  ASSUME TaskInv, Calm, NEW k \in Slot, TaskStep(k)
  PROVE  PanesKept
<1>1. CASE LoadCreate(k)
  <2>1. /\ task[k] # None /\ task[k].kind = "load" /\ task[k].step = "create"
        /\ disk' = Put(task[k].snap) /\ closed' = closed
    BY <1>1 DEF LoadCreate, At, history
  <2>2. task[k].snap # None
    BY <2>1, CalmTask DEF TaskFit
  <2>3. task[k].snap.ws \notin DOMAIN disk
    BY <2>1, <2>2, CalmTask DEF TaskCalm, LoadAgrees
  <2> QED BY <2>1, <2>3, PutKeeps
<1>2. CASE SaveRun(k)
  <2>1. task[k] # None /\ task[k].kind = "save" /\ disk' = Put(task[k].snap) /\ closed' = closed
    BY <1>2 DEF SaveRun, history
  <2> QED BY <2>1, CalmTask, PutKeeps DEF TaskCalm
<1>3. CASE ExitWrite(k)
  <2>1. /\ task[k] # None /\ task[k].kind = "exit" /\ task[k].step = "write"
        /\ disk' = Put(task[k].snap) /\ closed' = closed
    BY <1>3 DEF ExitWrite, At, history
  <2>2. /\ task[k].pane \in closed /\ task[k].snap.ws = task[k].ws
        /\ Panes(task[k].snap) = Panes(disk[task[k].ws]) \ {task[k].pane}
    BY <2>1, CalmTask DEF TaskCalm
  <2> QED BY <2>1, <2>2, PutKeeps
<1>4. CASE FlushSave(k)
  <2>1. task[k] # None /\ task[k].kind = "flush" /\ closed' = closed
    BY <1>4 DEF FlushSave, At, history
  <2>2. PICK s, j : /\ disk' = Put(s) /\ j \in DOMAIN task[k].batch
                    /\ s.ws = task[k].batch[j].snap.ws /\ s.columns = task[k].batch[j].snap.columns
    BY <1>4, FlushSaveFits
  <2>3. Agrees(task[k].batch[j].snap, shown, disk)
    BY <2>1, <2>2, CalmTask DEF TaskCalm
  <2>4. Panes(disk[s.ws]) = Panes(s)
    BY <2>2, <2>3 DEF Agrees, StoredAs, Panes
  <2> QED BY <2>1, <2>2, <2>4, PutKeeps
<1>5. CASE DeleteLayout(k)
  BY <1>5 DEF DeleteLayout, Drop, Restrict, PanesKept
<1>6. CASE RenameRows(k)
  <2>1. \A w \in DOMAIN disk \cap DOMAIN disk' : disk'[w] = disk[w]
    BY <1>6 DEF RenameRows
  <2> QED BY <2>1 DEF PanesKept
<1>7. CASE ReloadCreate(k)
  <2>1. /\ task[k] # None /\ task[k].kind = "reload" /\ task[k].step = "create"
        /\ disk' = Put(task[k].snap) /\ closed' = closed
    BY <1>7 DEF ReloadCreate, At, history
  <2>2. task[k].snap # None /\ task[k].want # None
    BY <2>1, CalmTask DEF TaskFit
  <2>3. task[k].snap.ws \notin DOMAIN disk
    BY <2>1, <2>2, CalmTask DEF TaskCalm, LoadAgrees
  <2> QED BY <2>1, <2>3, PutKeeps
<1>8. CASE \/ LoadRead(k) \/ LoadApply(k) \/ LoadFail(k) \/ SaveFail(k) \/ ExitRead(k) \/ ExitFail(k)
           \/ FlushTake(k) \/ FlushSend(k) \/ FlushApply(k) \/ FlushFail(k)
  BY <1>8, DiskKeeps DEF LoadRead, LoadApply, LoadFail, SaveFail, ExitRead, ExitFail, FlushTake,
     FlushSend, FlushApply, FlushFail, world
<1>9. CASE \/ CreateInJJ(k) \/ ForgetInJJ(k) \/ DeleteRow(k) \/ CheckName(k) \/ RenameInJJ(k)
           \/ RenameCopy(k) \/ ReloadList(k) \/ ReloadUpsert(k) \/ ReloadRead(k)
           \/ ReloadFail(k) \/ ReloadApply(k)
  BY <1>9, DiskKeeps DEF CreateInJJ, ForgetInJJ, DeleteRow, CheckName, RenameInJJ, RenameCopy,
     ReloadList, ReloadUpsert, ReloadRead, ReloadFail, ReloadApply, world
<1> QED BY <1>1, <1>2, <1>3, <1>4, <1>5, <1>6, <1>7, <1>8, <1>9 DEF TaskStep

\* Only the tasks write layouts.
LEMMA NextKeepsPanes ==
  ASSUME TaskInv, Calm, [Next]_vars
  PROVE  PanesKept
<1>1. CASE UNCHANGED vars
  BY <1>1, DiskKeeps DEF vars, world
<1>2. CASE User
  BY <1>2, DiskKeeps DEF User, OpenWorkspace, CreateWorkspace, ForgetWorkspace, RenameWorkspace,
     Reload, Navigate, AddPane, SelectPane, NavigatePane, Focus, ActivateTerminal, TypeLive,
     TypeQueued, CloseActivePane, world
<1>3. CASE TerminalEvent
  BY <1>3, DiskKeeps DEF TerminalEvent, DrainOutput, TerminalExit, world
<1>4. CASE \E s \in Shell : KillRun(s) \/ KillFail(s)
  BY <1>4, DiskKeeps DEF KillRun, KillFail, world
<1> QED BY <1>1, <1>2, <1>3, <1>4, TasksKeepPanes DEF Next

\* A stored layout loses only closed panes, until operations on one workspace
\* overlap or one fails; a save that overlaps another may lose others.
THEOREM PanesStayStored == Spec => StoredPanesStay
<1>1. /\ TaskInv /\ (~disturbed => Calm) /\ [Next]_vars
      => [~disturbed' => \A w \in DOMAIN disk \cap DOMAIN disk' :
            Panes(disk[w]) \ Panes(disk'[w]) \subseteq closed']_vars
  BY DisturbedStays, NextKeepsPanes DEF PanesKept
<1> QED BY <1>1, AlwaysFits, CalmUntilDisturbed, PTL DEF Spec, StoredPanesStay

-----------------------------------------------------------------------------
(* Panes belong to one workspace, and closed ones are on their way out of the *)
(* stored layouts.                                                            *)

\* A pane of the stored layout of w, or of one that is being saved.
Kept(w, p) ==
  \/ w \in DOMAIN disk /\ p \in Panes(disk[w])
  \/ \E k \in Slot : /\ task[k] # None /\ task[k].kind = "save"
                     /\ task[k].snap.ws = w /\ p \in Panes(task[k].snap)

\* The same with the layout s on the screen and the terminals of lives.
Holds(w, p, s, lives) ==
  Kept(w, p) \/ (s # None /\ s.ws = w /\ p \in Panes(s)) \/ lives[<<w, p>>] # None

Apart(s, lives) ==
  \A v, w \in Workspace : \A p \in Pane : Holds(v, p, s, lives) /\ Holds(w, p, s, lives) => v = w

\* The store has the new name of a workspace and the screen still the old one.
Renamed(t) ==
  /\ t # None /\ t.kind = "reload" /\ t.op = "rename"
  /\ t.step \in {"list", "upsert", "read", "create", "apply"}

\* A task that takes p out of the stored layout of w.
Leaves(t, w, p) ==
  /\ t # None
  /\ \/ t.kind = "save" /\ t.snap.ws = w /\ p \notin Panes(t.snap)
     \/ t.kind = "exit" /\ t.ws = w /\ t.pane = p

OneEach ==
  /\ (\A k \in Slot : ~Renamed(task[k])) => Apart(shown, live)
  /\ \A k \in Slot : Renamed(task[k]) => Apart(None, RekeyLive(task[k].ws, task[k].to))

LiveOpen ==
  \A key \in Key : live[key] # None =>
    /\ key[2] \in used \ closed
    /\ \A w \in Workspace : live[<<w, key[2]>>] # None => w = key[1]

TaskOpen(t, c) ==
  /\ t.kind = "save" => Panes(t.snap) \cap c = {}
  /\ t.kind \in {"load", "reload"} /\ t.step = "create" => Panes(t.snap) = {}

ClosedLeave ==
  /\ closed \subseteq used
  /\ shown # None => Panes(shown) \cap closed = {}
  /\ \A k \in Slot : task[k] # None => TaskOpen(task[k], closed)
  /\ \A w \in DOMAIN disk : \A p \in Panes(disk[w]) \cap closed : \E k \in Slot : Leaves(task[k], w, p)

Owned == OneEach /\ LiveOpen /\ ClosedLeave

\* A step that starts, moves on or ends a task, without a new pane.
LEMMA OwnedStep ==
  ASSUME Owned, shown' = None \/ shown' = shown \/ SameLayout,
         live' = live, closed' = closed, used' = used,
         \A w \in Workspace : \A p \in Pane : Kept(w, p)' => Kept(w, p),
         \A k \in Slot : task'[k] # None => TaskOpen(task'[k], closed),
         \A w \in DOMAIN disk' : \A p \in Panes(disk'[w]) \cap closed :
           \E k \in Slot : Leaves(task'[k], w, p),
         \A k \in Slot : /\ Renamed(task'[k]) <=> Renamed(task[k])
                         /\ Renamed(task[k]) => task'[k].ws = task[k].ws /\ task'[k].to = task[k].to
  PROVE  Owned'
<1>1. \A w \in Workspace : \A p \in Pane : Holds(w, p, shown, live)' => Holds(w, p, shown, live)
  BY DEF Holds, SameLayout, Panes
<1>2. (\A k \in Slot : ~Renamed(task'[k])) => Apart(shown, live)'
  BY <1>1 DEF Owned, OneEach, Apart
<1>3. ASSUME NEW k \in Slot, Renamed(task'[k])
      PROVE  Apart(None, RekeyLive(task[k].ws, task[k].to))'
  <2>1. Renamed(task[k]) /\ task'[k].ws = task[k].ws /\ task'[k].to = task[k].to
    BY <1>3
  <2>2. Apart(None, RekeyLive(task[k].ws, task[k].to))
    BY <2>1 DEF Owned, OneEach
  <2>3. RekeyLive(task[k].ws, task[k].to)' = RekeyLive(task[k].ws, task[k].to)
    BY <2>1 DEF RekeyLive
  <2>4. \A w \in Workspace : \A p \in Pane :
          Holds(w, p, None, RekeyLive(task[k].ws, task[k].to))' => Holds(w, p, None, RekeyLive(task[k].ws, task[k].to))
    BY <2>3 DEF Holds
  <2> QED BY <2>2, <2>4 DEF Apart
<1>4. LiveOpen'
  BY DEF Owned, LiveOpen
<1>5. shown' # None => Panes(shown') \cap closed' = {}
  BY DEF Owned, ClosedLeave, SameLayout, Panes
<1>6. ClosedLeave'
  BY <1>5 DEF Owned, ClosedLeave
<1> QED BY <1>2, <1>3, <1>4, <1>6 DEF Owned, OneEach

\* What only the tasks and the stored layouts do, with one task in slot k.
LEMMA OwnedRun ==
  ASSUME TaskInv, TaskInv', Owned, NEW k \in Slot, NEW t, task' = [task EXCEPT ![k] = t],
         shown' = None \/ shown' = shown \/ SameLayout,
         live' = live, closed' = closed, used' = used,
         \A w \in Workspace : \A p \in Pane : Kept(w, p)' => Kept(w, p),
         t # None => TaskOpen(t, closed),
         \A w \in DOMAIN disk' : \A p \in Panes(disk'[w]) \cap closed :
           \E j \in Slot : Leaves(task'[j], w, p),
         Renamed(t) <=> Renamed(task[k]),
         Renamed(t) => t.ws = task[k].ws /\ t.to = task[k].to
  PROVE  Owned'
<1>1. task'[k] = t /\ \A j \in Slot : j # k => task'[j] = task[j]
  BY DEF TaskInv, TasksFit
<1>2. \A j \in Slot : task'[j] # None => TaskOpen(task'[j], closed)
  BY <1>1 DEF Owned, ClosedLeave
<1>3. \A j \in Slot : /\ Renamed(task'[j]) <=> Renamed(task[j])
                      /\ Renamed(task[j]) => task'[j].ws = task[j].ws /\ task'[j].to = task[j].to
  BY <1>1
<1> HIDE DEF Owned
<1> QED BY <1>2, <1>3, OwnedStep

\* Nothing changes but the sessions and the focus on the screen.
LEMMA OwnedStays ==
  ASSUME Owned, shown' = None \/ shown' = shown \/ SameLayout,
         UNCHANGED <<live, task, disk, closed, used>>
  PROVE  Owned'
<1>1. \A w \in Workspace : \A p \in Pane : Kept(w, p)' => Kept(w, p)
  BY DEF Kept
<1>2. /\ \A k \in Slot : task'[k] # None => TaskOpen(task'[k], closed)
      /\ \A w \in DOMAIN disk' : \A p \in Panes(disk'[w]) \cap closed :
           \E k \in Slot : Leaves(task'[k], w, p)
  BY DEF Owned, ClosedLeave
<1> QED BY <1>1, <1>2, OwnedStep

\* A task that does not leave p out of w, and the rows that stay.
LEMMA KeptSame ==
  ASSUME TaskInv, TaskInv', NEW k \in Slot, NEW t, task' = [task EXCEPT ![k] = t], disk' = disk,
         t = None \/ t.kind # "save"
  PROVE  \A w, p : Kept(w, p)' => Kept(w, p)
<1>1. task'[k] = t /\ \A j \in Slot : j # k => task'[j] = task[j]
  BY DEF TaskInv, TasksFit
<1> QED BY <1>1 DEF Kept

LEMMA LeavesSame ==
  ASSUME TaskInv, TaskInv', Owned, NEW k \in Slot, NEW t, task' = [task EXCEPT ![k] = t], disk' = disk,
         \A w, p : Leaves(task[k], w, p) => Leaves(t, w, p)
  PROVE  \A w \in DOMAIN disk' : \A p \in Panes(disk'[w]) \cap closed :
           \E j \in Slot : Leaves(task'[j], w, p)
<1>1. task'[k] = t /\ \A j \in Slot : j # k => task'[j] = task[j]
  BY DEF TaskInv, TasksFit
<1>2. \A w \in DOMAIN disk : \A p \in Panes(disk[w]) \cap closed : \E j \in Slot : Leaves(task[j], w, p)
  BY DEF Owned, ClosedLeave
<1> QED BY <1>1, <1>2

\* A task that is none of a save, an exit or a reload goes on, ends or starts.
LEMMA OwnedQuiet ==
  ASSUME TaskInv, TaskInv', Owned, NEW k \in Slot, NEW t, task' = [task EXCEPT ![k] = t],
         shown' = None \/ shown' = shown \/ SameLayout,
         live' = live, closed' = closed, used' = used, disk' = disk,
         t # None => t.kind # "save" /\ TaskOpen(t, closed),
         task[k] = None \/ task[k].kind \notin {"save", "exit"},
         Renamed(t) <=> Renamed(task[k]),
         Renamed(t) => t.ws = task[k].ws /\ t.to = task[k].to
  PROVE  Owned'
<1>1. \A w \in Workspace : \A p \in Pane : Kept(w, p)' => Kept(w, p)
  BY KeptSame
<1>2. \A w \in DOMAIN disk' : \A p \in Panes(disk'[w]) \cap closed :
        \E j \in Slot : Leaves(task'[j], w, p)
  <2>1. \A w, p : ~Leaves(task[k], w, p)
    BY DEF Leaves
  <2> QED BY <2>1, LeavesSame
<1> QED BY <1>1, <1>2, OwnedRun

\* No other task takes panes out of a layout that a task is about.
LEMMA CleanRow ==
  ASSUME TaskInv, Calm, Owned, NEW k \in Slot, NEW w \in DOMAIN disk, w \in Touches(task[k]),
         \A p : ~Leaves(task[k], w, p)
  PROVE  Panes(disk[w]) \cap closed = {}
<1>1. \A p \in Panes(disk[w]) \cap closed : \E j \in Slot : Leaves(task[j], w, p)
  BY DEF Owned, ClosedLeave
<1>2. \A j \in Slot : j # k => w \notin Touches(task[j])
  BY DEF Calm
<1>3. ASSUME NEW j \in Slot, NEW p, Leaves(task[j], w, p)
      PROVE  w \in Touches(task[j])
  <2>1. task[j] # None /\ TaskFit(task[j], used, strays)
    BY <1>3, CalmTask DEF Leaves
  <2> QED BY <1>3, <2>1, TouchesIs DEF Leaves
<1> QED BY <1>1, <1>2, <1>3

\* A task stores a layout without closed panes, of panes that its workspace has.
LEMMA OwnedPut ==
  ASSUME TaskInv, TaskInv', Owned, NEW k \in Slot, NEW t, task' = [task EXCEPT ![k] = t],
         NEW s, disk' = Put(s), shown' = shown, live' = live, closed' = closed, used' = used,
         \A p \in Panes(s) : Kept(s.ws, p), Panes(s) \cap closed = {},
         \A w, p : Leaves(task[k], w, p) => w = s.ws,
         t # None => t.kind # "save" /\ TaskOpen(t, closed),
         Renamed(t) <=> Renamed(task[k]),
         Renamed(t) => t.ws = task[k].ws /\ t.to = task[k].to
  PROVE  Owned'
<1>1. task'[k] = t /\ \A j \in Slot : j # k => task'[j] = task[j]
  BY DEF TaskInv, TasksFit
<1>2. /\ DOMAIN disk' = DOMAIN disk \cup {s.ws} /\ disk'[s.ws] = s
      /\ \A w \in DOMAIN disk : w # s.ws => disk'[w] = disk[w]
  BY PutIs
<1>3. \A w, p : Kept(w, p)' => Kept(w, p)
  BY <1>1, <1>2 DEF Kept
<1>4. ASSUME NEW w \in DOMAIN disk', NEW p \in Panes(disk'[w]) \cap closed
      PROVE  \E j \in Slot : Leaves(task'[j], w, p)
  <2>1. w # s.ws /\ w \in DOMAIN disk /\ disk'[w] = disk[w]
    BY <1>2, <1>4
  <2>2. PICK j \in Slot : Leaves(task[j], w, p)
    BY <1>4, <2>1 DEF Owned, ClosedLeave
  <2>3. j # k
    BY <2>1, <2>2
  <2> QED BY <1>1, <2>2, <2>3
<1> HIDE DEF Owned
<1>5. shown' = None \/ shown' = shown \/ SameLayout
  OBVIOUS
<1> QED BY <1>3, <1>4, <1>5, OwnedRun

LEMMA EmptyIs ==
  \A w : Panes(EmptyLayout(w)) = {}
BY DEF Panes, EmptyLayout, ToSet

LEMMA OpenOwned ==
  ASSUME TaskInv, Owned, NEW k \in Slot, NEW w \in Workspace, OpenWorkspace(w, k)
  PROVE  Owned'
<1>1. TaskInv'
  BY OpenFits
<1>2. /\ task[k] = None /\ task' = [task EXCEPT ![k] = LoadTask(w)] /\ shown' = None
      /\ live' = live /\ closed' = closed /\ used' = used /\ disk' = disk
  BY DEF OpenWorkspace, Start, world
<1>3. LoadTask(w).kind = "load" /\ LoadTask(w).step = "read"
  BY DEF LoadTask
<1>4. ~Renamed(LoadTask(w)) /\ ~Renamed(task[k]) /\ TaskOpen(LoadTask(w), closed)
  BY <1>2, <1>3 DEF Renamed, TaskOpen
<1> QED BY <1>1, <1>2, <1>3, <1>4, OwnedQuiet

LEMMA LoadReadOwned ==
  ASSUME TaskInv, Owned, NEW k \in Slot, LoadRead(k)
  PROVE  Owned'
<1>1. task[k] # None /\ task[k].kind = "load" /\ UNCHANGED <<app, kills, world, history>>
  BY DEF LoadRead, At
<1>2. TaskInv'
  BY LoadReadFits
<1>3. PICK t : /\ TaskFit(t, used, strays) /\ task' = [task EXCEPT ![k] = t]
               /\ t.kind = "load" /\ t.ws = task[k].ws
               /\ t.step = IF t.ws \in DOMAIN disk THEN "apply" ELSE "create"
               /\ t.snap = IF t.ws \in DOMAIN disk THEN disk[t.ws] ELSE EmptyLayout(t.ws)
  BY LoadReadFits
<1>4. TaskOpen(t, closed)
  BY <1>3, EmptyIs DEF TaskOpen
<1>5. ~Renamed(t) /\ ~Renamed(task[k])
  BY <1>1, <1>3 DEF Renamed
<1>6. shown' = shown /\ live' = live /\ closed' = closed /\ used' = used /\ disk' = disk
  BY <1>1 DEF app, world, history
<1> QED BY <1>1, <1>2, <1>3, <1>4, <1>5, <1>6, OwnedQuiet

LEMMA LoadCreateOwned ==
  ASSUME TaskInv, Owned, NEW k \in Slot, LoadCreate(k)
  PROVE  Owned'
<1>1. /\ task[k] # None /\ task[k].kind = "load" /\ task[k].step = "create"
      /\ disk' = Put(task[k].snap) /\ UNCHANGED <<app, kills, history>>
  BY DEF LoadCreate, At
<1>2. TaskInv'
  BY LoadCreateFits
<1>3. PICK t : task' = [task EXCEPT ![k] = t] /\ t.kind = "load" /\ t.step = "apply"
  BY LoadCreateFits
<1>4. Panes(task[k].snap) = {}
  BY <1>1 DEF Owned, ClosedLeave, TaskOpen
<1>5. ~Renamed(t) /\ ~Renamed(task[k]) /\ TaskOpen(t, closed) /\ \A w, p : ~Leaves(task[k], w, p)
  BY <1>1, <1>3 DEF Renamed, TaskOpen, Leaves
<1>6. shown' = shown /\ live' = live /\ closed' = closed /\ used' = used
  BY <1>1 DEF app, history
<1> QED BY <1>1, <1>2, <1>3, <1>4, <1>5, <1>6, OwnedPut

LEMMA SaveOwned ==
  ASSUME TaskInv, Owned, NEW k \in Slot, SaveRun(k)
  PROVE  Owned'
<1>1. /\ task[k] # None /\ task[k].kind = "save" /\ task' = [task EXCEPT ![k] = None]
      /\ disk' = Put(task[k].snap) /\ UNCHANGED <<app, kills, history>>
  BY DEF SaveRun, Finish
<1>2. TaskInv'
  BY SaveTaskFits
<1>3. Panes(task[k].snap) \cap closed = {} /\ \A p \in Panes(task[k].snap) : Kept(task[k].snap.ws, p)
  BY <1>1 DEF Owned, ClosedLeave, TaskOpen, Kept
<1>4. ~Renamed(None) /\ ~Renamed(task[k]) /\ \A w, p : Leaves(task[k], w, p) => w = task[k].snap.ws
  BY <1>1 DEF Renamed, Leaves
<1>5. shown' = shown /\ live' = live /\ closed' = closed /\ used' = used
  BY <1>1 DEF app, history
<1> QED BY <1>1, <1>2, <1>3, <1>4, <1>5, OwnedPut

LEMMA ExitReadOwned ==
  ASSUME TaskInv, Owned, NEW k \in Slot, ExitRead(k)
  PROVE  Owned'
<1> DEFINE w == task[k].ws
           p == task[k].pane
<1>1. /\ task[k] # None /\ task[k].kind = "exit" /\ UNCHANGED <<app, kills, world, history>>
      /\ ~ (w \in DOMAIN disk /\ p \in Panes(disk[w])) => task' = [task EXCEPT ![k] = None]
  BY DEF ExitRead, At, Finish
<1>2. TaskInv'
  BY ExitTaskFits
<1>3. shown' = shown /\ live' = live /\ closed' = closed /\ used' = used /\ disk' = disk
  BY <1>1 DEF app, world, history
<1>4. shown' = None \/ shown' = shown \/ SameLayout
  BY <1>3
<1>5. CASE ~ (w \in DOMAIN disk /\ p \in Panes(disk[w]))
  <2>1. task' = [task EXCEPT ![k] = None]
    BY <1>1, <1>5
  <2>2. task'[k] = None /\ \A j \in Slot : j # k => task'[j] = task[j]
    BY <2>1 DEF TaskInv, TasksFit
  <2>3. ASSUME NEW v \in DOMAIN disk', NEW q \in Panes(disk'[v]) \cap closed
        PROVE  \E j \in Slot : Leaves(task'[j], v, q)
    <3>1. PICK j \in Slot : Leaves(task[j], v, q)
      BY <1>3, <2>3 DEF Owned, ClosedLeave
    <3>2. j # k
      BY <1>1, <1>3, <1>5, <2>3, <3>1 DEF Leaves
    <3> QED BY <2>2, <3>1, <3>2
  <2>4. \A v \in Workspace : \A q \in Pane : Kept(v, q)' => Kept(v, q)
    BY <1>2, <1>3, <2>1, KeptSame
  <2>5. ~Renamed(None) /\ ~Renamed(task[k])
    BY <1>1 DEF Renamed
  <2> QED BY <1>2, <1>3, <1>4, <2>1, <2>3, <2>4, <2>5, OwnedRun
<1>6. CASE w \in DOMAIN disk /\ p \in Panes(disk[w])
  <2>1. PICK t : /\ TaskFit(t, used, strays) /\ task' = [task EXCEPT ![k] = t]
                 /\ t.kind = "exit" /\ t.ws = w /\ t.pane = p
    BY <1>6, ExitTaskFits
  <2>2. t # None
    BY <2>1, TaskKinds DEF TaskFit
  <2>3. \A v, q : Leaves(task[k], v, q) => Leaves(t, v, q)
    BY <1>1, <2>1, <2>2 DEF Leaves
  <2>4. \A v \in DOMAIN disk' : \A q \in Panes(disk'[v]) \cap closed :
          \E j \in Slot : Leaves(task'[j], v, q)
    BY <1>2, <1>3, <2>1, <2>3, LeavesSame
  <2>5. \A v \in Workspace : \A q \in Pane : Kept(v, q)' => Kept(v, q)
    BY <1>2, <1>3, <2>1, <2>2, KeptSame
  <2>6. ~Renamed(t) /\ ~Renamed(task[k]) /\ TaskOpen(t, closed)
    BY <1>1, <2>1, <2>2 DEF Renamed, TaskOpen
  <2> QED BY <1>2, <1>3, <1>4, <2>1, <2>4, <2>5, <2>6, OwnedRun
<1> QED BY <1>5, <1>6

LEMMA ExitWriteOwned ==
  ASSUME TaskInv, Calm, Owned, NEW k \in Slot, ExitWrite(k)
  PROVE  Owned'
<1> DEFINE w == task[k].ws
           p == task[k].pane
           s == task[k].snap
<1>1. /\ task[k] # None /\ task[k].kind = "exit" /\ task[k].step = "write"
      /\ task' = [task EXCEPT ![k] = None]
      /\ disk' = Put(s) /\ UNCHANGED <<app, kills, history>>
  BY DEF ExitWrite, At, Finish
<1>2. /\ Touches(task[k]) = {w} /\ s.ws = w /\ w \in DOMAIN disk
      /\ Panes(s) = Panes(disk[w]) \ {p}
  BY <1>1, CalmTask, TouchesIs DEF TaskCalm
<1>3. TaskInv' /\ shown' = shown /\ live' = live /\ closed' = closed /\ used' = used
  BY <1>1, ExitTaskFits DEF app, history
<1>4. \A q \in Panes(s) : Kept(s.ws, q)
  BY <1>2 DEF Kept
<1>5. Panes(s) \cap closed = {}
  <2>1. SUFFICES ASSUME NEW q \in Panes(disk[w]) \cap closed PROVE q = p
    BY <1>2
  <2>2. PICK j \in Slot : Leaves(task[j], w, q)
    BY <1>2, <2>1 DEF Owned, ClosedLeave
  <2>3. task[j] # None /\ TaskFit(task[j], used, strays)
    BY <2>2, CalmTask DEF Leaves
  <2>4. w \in Touches(task[j])
    BY <2>2, <2>3, TouchesIs DEF Leaves
  <2>5. j = k
    BY <1>2, <2>4 DEF Calm
  <2> QED BY <1>1, <2>2, <2>5 DEF Leaves
<1>6. ~Renamed(None) /\ ~Renamed(task[k]) /\ \A v, q : Leaves(task[k], v, q) => v = s.ws
  BY <1>1, <1>2 DEF Renamed, Leaves
<1> QED BY <1>1, <1>3, <1>4, <1>5, <1>6, OwnedPut

LEMMA FlushOwned ==
  ASSUME TaskInv, Owned, NEW k \in Slot, FlushTake(k) \/ FlushSend(k) \/ FlushApply(k), TaskInv'
  PROVE  Owned'
<1>1. task[k] # None /\ task[k].kind = "flush"
  BY DEF FlushTake, FlushSend, FlushApply, At
<1>2. /\ live' = live /\ closed' = closed /\ used' = used /\ disk' = disk
      /\ shown' = None \/ shown' = shown \/ SameLayout
  BY FlushApplyFits DEF FlushTake, FlushSend, FlushApply, app, world, history
<1>3. task[k] \in Flushes
  BY <1>1, TaskIs
<1>4. \E t : /\ task' = [task EXCEPT ![k] = t] /\ (t # None => t.kind = "flush")
  <2>1. CASE FlushTake(k)
    <3>1. [task[k] EXCEPT !.step = "send", !.batch = pending, !.done = <<>>].kind = "flush"
      BY <1>3 DEF Flushes
    <3> QED BY <2>1, <3>1 DEF FlushTake, Finish
  <2>2. CASE FlushSend(k)
    BY <2>2, FlushSendFits
  <2>3. CASE FlushApply(k)
    <3>1. FlushTask.kind = "flush"
      BY DEF FlushTask
    <3> QED BY <2>3, <3>1 DEF FlushApply
  <2> QED BY <2>1, <2>2, <2>3
<1>5. PICK t : task' = [task EXCEPT ![k] = t] /\ (t # None => t.kind = "flush")
  BY <1>4
<1>6. ~Renamed(t) /\ ~Renamed(task[k]) /\ (t # None => TaskOpen(t, closed))
  BY <1>1, <1>5 DEF Renamed, TaskOpen
<1> QED BY <1>1, <1>2, <1>5, <1>6, OwnedQuiet

LEMMA FlushSaveOwned ==
  ASSUME TaskInv, Calm, Owned, NEW k \in Slot, FlushSave(k)
  PROVE  Owned'
<1>1. task[k] # None /\ task[k].kind = "flush" /\ UNCHANGED <<app, kills, history>>
  BY DEF FlushSave, At
<1>2. PICK t, s : /\ TaskFit(t, used, strays) /\ task' = [task EXCEPT ![k] = t] /\ disk' = Put(s)
                  /\ t.kind = "flush"
                  /\ \E j \in DOMAIN task[k].batch : /\ s.ws = task[k].batch[j].snap.ws
                                                    /\ s.columns = task[k].batch[j].snap.columns
  BY FlushSaveFits
<1>3. TaskInv' /\ shown' = shown /\ live' = live /\ closed' = closed /\ used' = used
  BY <1>1, FlushSaveFits DEF app, history
<1>4. s.ws \in Touches(task[k]) /\ s.ws \in DOMAIN disk /\ disk[s.ws].columns = s.columns
  BY <1>1, <1>2, BatchIs DEF Agrees, StoredAs
<1>5. Panes(s) = Panes(disk[s.ws])
  BY <1>4 DEF Panes
<1>6. \A w, p : ~Leaves(task[k], w, p)
  BY <1>1 DEF Leaves
<1>7. Panes(s) \cap closed = {}
  BY <1>4, <1>5, <1>6, CleanRow
<1>8. \A p \in Panes(s) : Kept(s.ws, p)
  BY <1>4, <1>5 DEF Kept
<1>9. ~Renamed(t) /\ ~Renamed(task[k]) /\ TaskOpen(t, closed)
  BY <1>1, <1>2 DEF Renamed, TaskOpen
<1> QED BY <1>2, <1>3, <1>6, <1>7, <1>8, <1>9, OwnedPut

LEMMA JJStepOwned ==
  ASSUME TaskInv, Owned, NEW k \in Slot,
         \/ CreateInJJ(k) \/ ForgetInJJ(k) \/ DeleteRow(k) \/ CheckName(k) \/ RenameInJJ(k)
  PROVE  Owned'
<1>1. /\ task[k] # None /\ task[k].kind = "reload" /\ disk' = disk
      /\ task[k].op \in {"create", "forget"} \/ task[k].step \in {"check", "jj"}
  BY DEF CreateInJJ, ForgetInJJ, DeleteRow, CheckName, RenameInJJ, Step, At
<1>2. PICK t : /\ task' = [task EXCEPT ![k] = t] /\ SameOperation(t, task[k])
               /\ t.kind = "reload" /\ t.step \in {"delete", "row", "jj", "copy", "list"}
               /\ t.step = "list" => task[k].op \in {"create", "forget"}
               /\ UNCHANGED <<app, kills, shells, history>>
  <2>1. CASE CreateInJJ(k) \/ DeleteRow(k)
    <3>1. task[k].op \in {"create", "forget"}
      BY <2>1 DEF CreateInJJ, DeleteRow, Step
    <3> QED BY <2>1, <3>1, OperationStep DEF CreateInJJ, DeleteRow
  <2>2. CASE ForgetInJJ(k) \/ CheckName(k) \/ RenameInJJ(k)
    BY <2>2, OperationStep DEF ForgetInJJ, CheckName, RenameInJJ
  <2> QED BY <2>1, <2>2
<1>3. ~Renamed(t) /\ ~Renamed(task[k])
  BY <1>1, <1>2 DEF Renamed, SameOperation
<1>4. TaskOpen(t, closed) /\ t.kind # "save"
  BY <1>2 DEF TaskOpen
<1>5. shown' = shown /\ live' = live /\ closed' = closed /\ used' = used
  BY <1>2 DEF app, history
<1> QED BY <1>1, <1>2, <1>3, <1>4, <1>5, JJStepFits, OwnedQuiet

LEMMA RenameCopyOwned ==
  ASSUME TaskInv, Owned, NEW k \in Slot, RenameCopy(k)
  PROVE  Owned'
<1>1. /\ task[k] # None /\ task[k].kind = "reload" /\ task[k].step = "copy"
      /\ UNCHANGED <<app, kills, world, history>>
  BY DEF RenameCopy, At
<1>2. PICK t : task' = [task EXCEPT ![k] = t] /\ t.kind = "reload" /\ t.step = "commit"
  BY RenameCopyFits
<1>3. ~Renamed(t) /\ ~Renamed(task[k]) /\ TaskOpen(t, closed) /\ t.kind # "save"
  BY <1>1, <1>2 DEF Renamed, TaskOpen
<1>4. shown' = shown /\ live' = live /\ closed' = closed /\ used' = used /\ disk' = disk
  BY <1>1 DEF app, world, history
<1> QED BY <1>1, <1>2, <1>3, <1>4, RenameCopyFits, OwnedQuiet

LEMMA ReloadListOwned ==
  ASSUME TaskInv, Owned, NEW k \in Slot, ReloadList(k) \/ ReloadUpsert(k) \/ ReloadRead(k)
  PROVE  Owned'
<1>1. /\ task[k] # None /\ task[k].kind = "reload" /\ task[k].step \in {"list", "upsert", "read"}
      /\ disk' = disk /\ UNCHANGED <<app, history>>
  BY DEF ReloadList, ReloadUpsert, ReloadRead, At, world
<1>2. /\ TaskInv'
      /\ \E t : /\ task' = [task EXCEPT ![k] = t] /\ TaskFit(t, used, strays) /\ SameOperation(t, task[k])
                /\ t.kind = "reload" /\ t.step \in {"upsert", "read", "create", "apply"}
                /\ t.step = "create" => Panes(t.snap) = {}
  <2>1. CASE ReloadList(k)
    BY <2>1, ReloadListFits
  <2>2. CASE ReloadUpsert(k)
    BY <2>2, ReloadUpsertFits
  <2>3. CASE ReloadRead(k)
    <3>1. PICK t : /\ TaskFit(t, used, strays) /\ task' = [task EXCEPT ![k] = t]
                   /\ SameOperation(t, task[k]) /\ t.kind = "reload"
                   /\ t.step = IF t.want \in DOMAIN disk THEN "apply" ELSE "create"
                   /\ t.snap = IF t.want \in DOMAIN disk THEN disk[t.want] ELSE EmptyLayout(t.want)
      BY <2>3, ReloadReadFits
    <3>2. t.step = "create" => Panes(t.snap) = {}
      BY <3>1, EmptyIs
    <3>3. t.step \in {"create", "apply"}
      BY <3>1
    <3> QED BY <2>3, <3>1, <3>2, <3>3, ReloadReadFits
  <2> QED BY <1>1, <2>1, <2>2, <2>3
<1>3. PICK t : /\ task' = [task EXCEPT ![k] = t] /\ TaskFit(t, used, strays) /\ SameOperation(t, task[k])
               /\ t.kind = "reload" /\ t.step \in {"upsert", "read", "create", "apply"}
               /\ t.step = "create" => Panes(t.snap) = {}
  BY <1>2
<1>4. t # None
  BY <1>3, TaskKinds DEF TaskFit
<1>5. /\ Renamed(t) <=> Renamed(task[k])
      /\ Renamed(t) => t.ws = task[k].ws /\ t.to = task[k].to
  BY <1>1, <1>3, <1>4 DEF Renamed, SameOperation
<1>6. TaskOpen(t, closed) /\ t.kind # "save"
  BY <1>3 DEF TaskOpen
<1>7. shown' = shown /\ live' = live /\ closed' = closed /\ used' = used
  BY <1>1 DEF app, history
<1> QED BY <1>1, <1>2, <1>3, <1>5, <1>6, <1>7, OwnedQuiet

LEMMA ReloadCreateOwned ==
  ASSUME TaskInv, Owned, NEW k \in Slot, ReloadCreate(k)
  PROVE  Owned'
<1>1. /\ task[k] # None /\ task[k].kind = "reload" /\ task[k].step = "create"
      /\ disk' = Put(task[k].snap) /\ UNCHANGED <<app, kills, history>>
  BY DEF ReloadCreate, At
<1>2. PICK t : /\ task' = [task EXCEPT ![k] = t] /\ TaskFit(t, used, strays) /\ SameOperation(t, task[k])
               /\ t.kind = "reload" /\ t.step = "apply"
  BY ReloadCreateFits
<1>3. t # None
  BY <1>2, TaskKinds DEF TaskFit
<1>4. Panes(task[k].snap) = {}
  BY <1>1 DEF Owned, ClosedLeave, TaskOpen
<1>5. /\ Renamed(t) <=> Renamed(task[k])
      /\ Renamed(t) => t.ws = task[k].ws /\ t.to = task[k].to
  BY <1>1, <1>2, <1>3 DEF Renamed, SameOperation
<1>6. TaskOpen(t, closed) /\ t.kind # "save" /\ \A w, p : ~Leaves(task[k], w, p)
  BY <1>1, <1>2 DEF TaskOpen, Leaves
<1>7. shown' = shown /\ live' = live /\ closed' = closed /\ used' = used
  BY <1>1 DEF app, history
<1> QED BY <1>1, <1>2, <1>4, <1>5, <1>6, <1>7, ReloadCreateFits, OwnedPut

LEMMA DeleteLayoutOwned ==
  ASSUME TaskInv, Owned, NEW k \in Slot, DeleteLayout(k)
  PROVE  Owned'
<1>1. /\ task[k] # None /\ task[k].kind = "reload" /\ task[k].op = "forget"
      /\ disk' = Drop(task[k].ws)
  BY DEF DeleteLayout, Step, At
<1>2. PICK t : /\ task' = [task EXCEPT ![k] = t] /\ SameOperation(t, task[k])
               /\ t.kind = "reload" /\ t.step = "row" /\ UNCHANGED <<app, kills, shells, history>>
  BY OperationStep DEF DeleteLayout
<1>3. TaskInv'
  BY DeleteLayoutFits
<1>4. DOMAIN disk' \subseteq DOMAIN disk /\ \A w \in DOMAIN disk' : disk'[w] = disk[w]
  BY <1>1 DEF Drop, Restrict
<1>5. task'[k] = t /\ \A j \in Slot : j # k => task'[j] = task[j]
  BY <1>2 DEF TaskInv, TasksFit
<1>6. \A w \in Workspace : \A p \in Pane : Kept(w, p)' => Kept(w, p)
  BY <1>2, <1>4, <1>5 DEF Kept
<1>7. ASSUME NEW w \in DOMAIN disk', NEW p \in Panes(disk'[w]) \cap closed
      PROVE  \E j \in Slot : Leaves(task'[j], w, p)
  <2>1. PICK j \in Slot : Leaves(task[j], w, p)
    BY <1>4, <1>7 DEF Owned, ClosedLeave
  <2>2. j # k
    BY <1>1, <2>1 DEF Leaves
  <2> QED BY <1>5, <2>1, <2>2
<1>8. ~Renamed(t) /\ ~Renamed(task[k]) /\ TaskOpen(t, closed)
  BY <1>1, <1>2 DEF Renamed, SameOperation, TaskOpen
<1>9. shown' = shown /\ live' = live /\ closed' = closed /\ used' = used
  BY <1>2 DEF app, history
<1> HIDE DEF Owned
<1> QED BY <1>2, <1>3, <1>6, <1>7, <1>8, <1>9, OwnedRun

LEMMA RekeyIs ==
  ASSUME NEW w \in Workspace, NEW to, NEW v \in Workspace, NEW p \in Pane,
         RekeyLive(w, to)[<<v, p>>] # None
  PROVE  v # w /\ (live[<<v, p>>] # None \/ (v = to /\ live[<<w, p>>] # None))
<1>1. <<v, p>> \in Key /\ <<v, p>>[1] = v /\ <<v, p>>[2] = p
  BY DEF Key
<1> DEFINE key == <<v, p>>
<1> HIDE DEF key
<1>2. key \in Key /\ key[1] = v /\ key[2] = p
  BY <1>1 DEF key
<1>3. RekeyLive(w, to)[key] = IF key[1] = w THEN None
        ELSE IF key[1] = to /\ live[<<w, key[2]>>] # None THEN live[<<w, key[2]>>] ELSE live[key]
  BY <1>2 DEF RekeyLive
<1>4. RekeyLive(w, to)[key] # None
  BY DEF key
<1>5. v # w /\ (live[key] # None \/ (v = to /\ live[<<w, p>>] # None))
  BY <1>2, <1>3, <1>4
<1> QED BY <1>5 DEF key

\* While a navigation operation runs, nothing else does but a flush that waits.
LEMMA ReloadAlone ==
  ASSUME TaskInv, Calm, Owned, NEW k \in Slot, task[k] # None, task[k].kind = "reload"
  PROVE  /\ \A j \in Slot : j # k => task[j] = None \/ task[j].kind = "flush"
         /\ \A w, p : Kept(w, p) <=> w \in DOMAIN disk /\ p \in Panes(disk[w])
         /\ \A w \in DOMAIN disk : Panes(disk[w]) \cap closed = {}
<1>1. Touches(task[k]) = Workspace
  BY CalmTask, TouchesIs
<1>2. ASSUME NEW j \in Slot, j # k, task[j] # None
      PROVE  task[j].kind = "flush"
  <2>1. Touches(task[j]) = {}
    BY <1>1, <1>2, TouchesAny DEF Calm
  <2>2. TaskFit(task[j], used, strays) /\ task[j].kind \in {"load", "save", "exit", "flush", "reload"}
    BY <1>2, CalmTask, TaskKinds DEF TaskFit
  <2> QED BY <2>1, <2>2, TouchesIs, TaskSpaceAssumption
<1>3. \A w, p : Kept(w, p) <=> w \in DOMAIN disk /\ p \in Panes(disk[w])
  BY <1>2 DEF Kept
<1>4. \A w, p : ~Leaves(task[k], w, p)
  BY DEF Leaves
<1>5. \A w \in DOMAIN disk : w \in Touches(task[k])
  BY <1>1 DEF TaskInv, DiskFits
<1> QED BY <1>2, <1>3, <1>4, <1>5, CleanRow

\* A layout moves to another workspace.
LEMMA RenameRowsOwned ==
  ASSUME TaskInv, Calm, Owned, NEW k \in Slot, RenameRows(k)
  PROVE  Owned'
<1> DEFINE w == task[k].ws
           to == task[k].to
           s == task[k].snap
<1>1. /\ task[k] # None /\ task[k].kind = "reload" /\ task[k].step = "commit" /\ task[k].op = "rename"
  BY DEF RenameRows, Step, At
<1>2. PICK t : /\ TaskFit(t, used, strays) /\ task' = [task EXCEPT ![k] = t] /\ SameOperation(t, task[k])
               /\ t.kind = "reload" /\ t.step = "list" /\ UNCHANGED <<app, kills, shells, history>>
  BY OperationStep DEF RenameRows
<1>3. /\ w \in DOMAIN disk => to \notin DOMAIN disk
      /\ disk' = IF w \notin DOMAIN disk THEN disk
                 ELSE [v \in (DOMAIN disk \ {w}) \cup {to} |->
                        IF v # to THEN disk[v] ELSE IF s # None THEN s ELSE disk[w]]
  BY DEF RenameRows
<1>4. w \in DOMAIN disk => s # None /\ Panes(s) = Panes(disk[w])
  BY <1>1, CalmTask DEF TaskCalm, Panes
<1>5. w \in Workspace /\ to \in Workspace
  BY <1>1, OperationIs
<1>6. shown' = shown /\ live' = live /\ closed' = closed /\ used' = used
  BY <1>2 DEF app, history
<1>7. task'[k] = t /\ \A j \in Slot : j # k => task'[j] = task[j]
  BY <1>2 DEF TaskInv, TasksFit
<1>8. /\ \A j \in Slot : j # k => task[j] = None \/ task[j].kind = "flush"
      /\ \A v, p : Kept(v, p) <=> v \in DOMAIN disk /\ p \in Panes(disk[v])
      /\ \A v \in DOMAIN disk : Panes(disk[v]) \cap closed = {}
  BY <1>1, ReloadAlone
<1>9. \A v, p : Kept(v, p)' <=> v \in DOMAIN disk' /\ p \in Panes(disk'[v])
  BY <1>2, <1>7, <1>8 DEF Kept
<1>10. Renamed(task'[k]) /\ task'[k].ws = w /\ task'[k].to = to
  BY <1>1, <1>2, <1>7, TaskKinds DEF Renamed, SameOperation, TaskFit
<1>11. \A j \in Slot : ~Renamed(task[j]) /\ (j # k => ~Renamed(task'[j]))
  BY <1>1, <1>7, <1>8 DEF Renamed
<1>12. Apart(shown, live)
  BY <1>11 DEF Owned, OneEach
<1> HIDE DEF w, to, s
<1>13. ASSUME NEW v \in DOMAIN disk'
       PROVE  /\ v # to => v \in DOMAIN disk /\ disk'[v] = disk[v] /\ (v = w => w = to)
              /\ v = to => \/ v \in DOMAIN disk /\ disk'[v] = disk[v]
                           \/ w \in DOMAIN disk /\ Panes(disk'[v]) = Panes(disk[w])
  <2>1. CASE w \in DOMAIN disk
    <3>1. DOMAIN disk' = (DOMAIN disk \ {w}) \cup {to}
      BY <1>3, <2>1
    <3>2. disk'[v] = IF v # to THEN disk[v] ELSE IF s # None THEN s ELSE disk[w]
      BY <1>3, <2>1, <3>1
    <3> QED BY <1>4, <2>1, <3>1, <3>2
  <2>2. CASE w \notin DOMAIN disk
    BY <1>3, <2>2
  <2> QED BY <2>1, <2>2
<1> DEFINE old(u) == IF u = w THEN to ELSE u
<1>14. ASSUME NEW v \in Workspace, NEW p \in Pane, Holds(v, p, None, RekeyLive(w, to))'
       PROVE  \E u \in Workspace : Holds(u, p, shown, live) /\ v = old(u)
  <2>1. CASE Kept(v, p)'
    <3>1. v \in DOMAIN disk' /\ p \in Panes(disk'[v])
      BY <1>9, <2>1
    <3>2. \/ v \in DOMAIN disk /\ p \in Panes(disk[v]) /\ (v = w => w = to)
          \/ v = to /\ w \in DOMAIN disk /\ p \in Panes(disk[w])
      BY <1>13, <3>1
    <3>3. (Kept(v, p) /\ (v = w => w = to)) \/ (v = to /\ Kept(w, p))
      BY <1>8, <3>2
    <3> QED BY <1>5, <3>3 DEF Holds
  <2>2. CASE ~Kept(v, p)'
    <3>1. RekeyLive(w, to)'[<<v, p>>] # None
      BY <1>14, <2>2 DEF Holds
    <3>2. RekeyLive(w, to)' = RekeyLive(w, to)
      <4>1. RekeyLive(w, to)' = [key \in Key |-> IF key[1] = w' THEN None
               ELSE IF key[1] = to' /\ live[<<w', key[2]>>] # None THEN live[<<w', key[2]>>] ELSE live[key]]
        BY <1>6 DEF RekeyLive
      <4>2. w' = w /\ to' = to
        BY <1>10 DEF w, to
      <4> QED BY <4>1, <4>2 DEF RekeyLive
    <3>3. v # w /\ (live[<<v, p>>] # None \/ (v = to /\ live[<<w, p>>] # None))
      BY <1>5, <3>1, <3>2, RekeyIs
    <3> QED BY <1>5, <3>3 DEF Holds
  <2> QED BY <2>1, <2>2
<1>15. Apart(None, RekeyLive(w, to))'
  BY <1>12, <1>14 DEF Apart
<1>16. OneEach'
  <2>1. Apart(None, RekeyLive(task[k].ws, task[k].to))'
    BY <1>15 DEF w, to
  <2>2. \A j \in Slot : Renamed(task'[j]) => j = k
    BY <1>11
  <2> QED BY <1>10, <2>1, <2>2 DEF OneEach
<1>17. LiveOpen'
  BY <1>6 DEF Owned, LiveOpen
<1>18. TaskOpen(t, closed)
  BY <1>2 DEF TaskOpen
<1>19. \A v \in DOMAIN disk' : Panes(disk'[v]) \cap closed = {}
  BY <1>8, <1>13
<1>20. ClosedLeave'
  BY <1>6, <1>7, <1>18, <1>19 DEF Owned, ClosedLeave
<1> QED BY <1>16, <1>17, <1>20 DEF Owned

\* A stored layout goes on the screen, with terminals in its panes.
LEMMA PresentOwned ==
  ASSUME TaskInv, TaskInv', NEW k \in Slot, task[k] # None, task[k].kind \in {"load", "reload"},
         task' = [task EXCEPT ![k] = None], disk' = disk, closed' = closed, used' = used,
         \A j \in Slot : j # k => ~Renamed(task[j]), ClosedLeave,
         NEW lives, Apart(None, lives), \A key \in Key : lives[key] # None => key[2] \in used \ closed,
         NEW w, live' = lives \/ (shown' # None /\ Started(lives, w, shown')),
         shown' # None => /\ shown'.ws = w /\ w \in DOMAIN disk /\ Panes(shown') = Panes(disk[w])
                          /\ Panes(disk[w]) \cap closed = {}
  PROVE  Owned'
<1>1. task'[k] = None /\ \A j \in Slot : j # k => task'[j] = task[j]
  BY DEF TaskInv, TasksFit
<1>2. \A j \in Slot : ~Renamed(task'[j])
  BY <1>1 DEF Renamed
<1>3. \A v \in Workspace : \A p \in Pane : Kept(v, p)' => Kept(v, p)
  BY KeptSame
<1>4. ASSUME NEW v \in Workspace, NEW p \in Pane, Holds(v, p, shown, live)'
      PROVE  Holds(v, p, None, lives)
  <2>1. CASE Kept(v, p)'
    BY <1>3, <2>1 DEF Holds
  <2>2. CASE shown' # None /\ shown'.ws = v /\ p \in Panes(shown')
    BY <2>2 DEF Holds, Kept
  <2>3. CASE live'[<<v, p>>] # None
    <3>1. <<v, p>> \in Key /\ <<v, p>>[1] = v /\ <<v, p>>[2] = p
      BY DEF Key
    <3>2. CASE live' = lives
      BY <2>3, <3>2 DEF Holds
    <3>3. CASE shown' # None /\ Started(lives, w, shown') /\ live'[<<v, p>>] # lives[<<v, p>>]
      <4>1. v = w /\ p \in Panes(shown')
        BY <3>1, <3>3 DEF Started
      <4> QED BY <3>3, <4>1 DEF Holds, Kept
    <3>4. CASE live'[<<v, p>>] = lives[<<v, p>>]
      BY <2>3, <3>4 DEF Holds
    <3> QED BY <3>2, <3>3, <3>4
  <2> QED BY <1>4, <2>1, <2>2, <2>3 DEF Holds
<1>5. Apart(shown, live)'
  BY <1>4 DEF Apart
<1>6. OneEach'
  BY <1>2, <1>5 DEF OneEach
<1>7. ASSUME NEW key \in Key, live'[key] # None
      PROVE  /\ key[2] \in used' \ closed'
             /\ \A v \in Workspace : live'[<<v, key[2]>>] # None => v = key[1]
  <2>1. key[1] \in Workspace /\ key[2] \in Pane /\ key = <<key[1], key[2]>>
    BY DEF Key
  <2>2. lives[key] # None \/ (shown' # None /\ key[2] \in Panes(shown'))
    BY <1>7 DEF Started
  <2>3. shown' # None => Panes(shown') \subseteq used'
    BY DEF TaskInv, AppFits, Fit
  <2>4. key[2] \in used' \ closed'
    BY <2>2, <2>3
  <2>5. \A v \in Workspace : live'[<<v, key[2]>>] # None => v = key[1]
    BY <1>5, <1>7, <2>1 DEF Apart, Holds
  <2> QED BY <2>4, <2>5
<1>8. \A v, p : ~Leaves(task[k], v, p)
  BY DEF Leaves
<1>9. ClosedLeave'
  BY <1>1, <1>8 DEF ClosedLeave
<1> QED BY <1>6, <1>7, <1>9 DEF Owned, LiveOpen

LEMMA LoadApplyOwned ==
  ASSUME TaskInv, Calm, Owned, NEW k \in Slot, LoadApply(k)
  PROVE  Owned'
<1> DEFINE w == task[k].ws
<1>1. /\ task[k] # None /\ task[k].kind = "load" /\ task[k].step = "apply"
      /\ task' = [task EXCEPT ![k] = None] /\ disk' = disk /\ closed' = closed /\ used' = used
  BY DEF LoadApply, At, Finish
<1>2. Touches(task[k]) = {w} /\ w \in Workspace /\ LoadAgrees(w, task[k], disk) /\ task[k].snap # None
  BY <1>1, CalmTask, TouchesIs DEF TaskCalm, TaskFit
<1>3. task[k].snap.ws = w /\ w \in DOMAIN disk /\ disk[w].columns = task[k].snap.columns
  BY <1>1, <1>2 DEF LoadAgrees, StoredAs
<1>4. /\ TaskInv'
      /\ IF active = w
         THEN /\ shown' # None /\ shown'.ws = w /\ shown'.columns = task[k].snap.columns
              /\ Started(live, w, shown')
         ELSE shown' = shown /\ live' = live
  BY <1>3, LoadApplyFits
<1>5. ASSUME NEW j \in Slot, j # k
      PROVE  ~Renamed(task[j])
  <2>1. Touches(task[j]) # Workspace
    BY <1>2, <1>5 DEF Calm
  <2> QED BY <2>1, CalmTask, TouchesIs DEF Renamed
<1>6. ~Renamed(task[k]) /\ \A v, p : ~Leaves(task[k], v, p)
  BY <1>1 DEF Renamed, Leaves
<1>7. CASE active = w
  <2>1. Panes(disk[w]) \cap closed = {}
    BY <1>2, <1>3, <1>6, CleanRow
  <2>2. Apart(shown, live)
    BY <1>5, <1>6 DEF Owned, OneEach
  <2>3. Apart(None, live)
    BY <2>2 DEF Apart, Holds
  <2>4. Panes(shown') = Panes(disk[w]) /\ shown'.ws = w
    BY <1>3, <1>4, <1>7 DEF Panes
  <2>5. ClosedLeave /\ \A key \in Key : live[key] # None => key[2] \in used \ closed
    BY DEF Owned, LiveOpen
  <2>6. shown' # None /\ Started(live, w, shown')
    BY <1>4, <1>7
  <2> HIDE DEF w
  <2> QED BY <1>1, <1>3, <1>4, <1>5, <2>1, <2>3, <2>4, <2>5, <2>6, PresentOwned
<1>8. CASE active # w
  <2>1. ~Renamed(None)
    BY DEF Renamed
  <2> QED BY <1>1, <1>4, <1>6, <1>8, <2>1, OwnedQuiet
<1> QED BY <1>7, <1>8

LEMMA ReloadApplyOwned ==
  ASSUME TaskInv, Calm, Owned, NEW k \in Slot, ReloadApply(k)
  PROVE  Owned'
<1> DEFINE w == task[k].want
           from == task[k].ws
           to == task[k].to
           lives == IF task[k].op = "rename" THEN RekeyLive(from, to) ELSE live
<1>1. /\ task[k] # None /\ task[k].kind = "reload" /\ task[k].step = "apply"
      /\ task' = [task EXCEPT ![k] = None]
      /\ disk' = disk /\ closed' = closed /\ used' = used
  BY DEF ReloadApply, At, Finish
<1>2. /\ TaskInv'
      /\ IF w = None THEN shown' = None
         ELSE /\ shown' # None /\ shown'.ws = task[k].snap.ws
              /\ shown'.columns = task[k].snap.columns
      /\ live' = lives \/ (shown' # None /\ Started(lives, w, shown'))
  BY ReloadApplyFits
<1>3. w # None => /\ task[k].snap.ws = w /\ w \in DOMAIN disk
                  /\ disk[w].columns = task[k].snap.columns
  BY <1>1, CalmTask DEF TaskCalm, LoadAgrees, StoredAs, TaskFit
<1>4. /\ \A j \in Slot : j # k => ~Renamed(task[j])
      /\ \A v \in DOMAIN disk : Panes(disk[v]) \cap closed = {}
  BY <1>1, ReloadAlone DEF Renamed
<1>5. shown' # None => /\ shown'.ws = w /\ w \in DOMAIN disk /\ Panes(shown') = Panes(disk[w])
                       /\ Panes(disk[w]) \cap closed = {}
  BY <1>2, <1>3, <1>4 DEF Panes
<1>6. ClosedLeave /\ \A key \in Key : live[key] # None => key[2] \in used \ closed
  BY DEF Owned, LiveOpen
<1>7. Apart(None, lives) /\ \A key \in Key : lives[key] # None => key[2] \in used \ closed
  <2>1. CASE task[k].op = "rename"
    <3>1. Renamed(task[k]) /\ lives = RekeyLive(from, to)
      BY <1>1, <2>1 DEF Renamed
    <3>2. Apart(None, lives)
      BY <3>1 DEF Owned, OneEach
    <3>3. from \in Workspace
      BY <1>1, <2>1, OperationIs
    <3>4. ASSUME NEW key \in Key, lives[key] # None
          PROVE  key[2] \in used \ closed
      <4>1. key[1] \in Workspace /\ key[2] \in Pane /\ key = <<key[1], key[2]>>
        BY DEF Key
      <4>2. live[key] # None \/ live[<<from, key[2]>>] # None
        BY <3>1, <3>3, <3>4, <4>1, RekeyIs
      <4>3. <<from, key[2]>> \in Key /\ <<from, key[2]>>[2] = key[2]
        BY <3>3, <4>1 DEF Key
      <4> QED BY <1>6, <4>2, <4>3
    <3> QED BY <3>2, <3>4
  <2>2. CASE task[k].op # "rename"
    <3>1. \A j \in Slot : ~Renamed(task[j])
      BY <1>4, <2>2 DEF Renamed
    <3>2. Apart(shown, live) /\ lives = live
      BY <2>2, <3>1 DEF Owned, OneEach
    <3> QED BY <1>6, <3>2 DEF Apart, Holds
  <2> QED BY <2>1, <2>2
<1> HIDE DEF lives, w
<1> QED BY <1>1, <1>2, <1>4, <1>5, <1>6, <1>7, PresentOwned

LEMMA NavigateOwned ==
  ASSUME TaskInv, TaskInv', Owned, NEW k \in Slot, NEW op, NEW step, NEW w, NEW to, NEW want,
         op = "rename" => step = "check", step # "create", Navigate(k, op, step, w, to, want)
  PROVE  Owned'
<1> DEFINE t == ReloadTask(op, step, w, to, want)
<1>1. /\ task[k] = None /\ task' = [task EXCEPT ![k] = t] /\ shown' = shown
      /\ live' = live /\ closed' = closed /\ used' = used /\ disk' = disk
  BY DEF Navigate, Start, app, world
<1>2. t.kind = "reload" /\ t.op = op /\ t.step = step
  BY DEF ReloadTask
<1> HIDE DEF t
<1>3. ~Renamed(t) /\ ~Renamed(task[k]) /\ t.kind # "save" /\ TaskOpen(t, closed)
  BY <1>1, <1>2 DEF Renamed, TaskOpen
<1> QED BY <1>1, <1>3, OwnedQuiet

LEMMA OperationsOwned ==
  ASSUME TaskInv, Owned, NEW k \in Slot,
         \/ Reload(k)
         \/ \E w \in Workspace : CreateWorkspace(w, k) \/ ForgetWorkspace(w, k)
         \/ \E w, to \in Workspace : RenameWorkspace(w, to, k)
  PROVE  Owned'
<1>1. TaskInv'
  BY OperationsFit
<1>2. \E op, step, w, to, want : /\ op = "rename" => step = "check"
                                 /\ step # "create" /\ Navigate(k, op, step, w, to, want)
  BY DEF Reload, CreateWorkspace, ForgetWorkspace, RenameWorkspace
<1> QED BY <1>1, <1>2, NavigateOwned

LEMMA FocusOwned ==
  ASSUME TaskInv, Calm, Owned, NEW k \in Slot, NEW p \in Pane, Focus(p, k), SameLayout, TaskInv', ~disturbed'
  PROVE  Owned'
<1> DEFINE t == SaveTask(shown')
           w == shown.ws
<1>1. /\ task[k] = None /\ task' = [task EXCEPT ![k] = t] /\ Use({w})
      /\ live' = live /\ closed' = closed /\ used' = used /\ disk' = disk
  BY DEF Focus, Start, world
<1>2. shown # None /\ shown'.ws = w /\ Panes(shown') = Panes(shown)
  BY DEF SameLayout, Panes
<1>3. w \in Workspace /\ ~Busy(w)
  BY <1>1, <1>2, ShownIs, StartsAlone
<1>4. w \in DOMAIN disk /\ disk[w].columns = shown.columns
  BY <1>2, <1>3 DEF Calm, StoredAs
<1>5. t.kind = "save" /\ t.snap = shown'
  BY DEF SaveTask
<1>6. task'[k] = t /\ \A j \in Slot : j # k => task'[j] = task[j]
  BY <1>1 DEF TaskInv, TasksFit
<1> HIDE DEF t
<1>7. \A v \in Workspace : \A q \in Pane : Kept(v, q)' => Kept(v, q)
  BY <1>1, <1>2, <1>4, <1>5, <1>6 DEF Kept, Panes
<1>8. TaskOpen(t, closed)
  BY <1>2, <1>5 DEF TaskOpen, Owned, ClosedLeave
<1>9. \A v, q : Leaves(task[k], v, q) => Leaves(t, v, q)
  BY <1>1 DEF Leaves
<1>10. \A v \in DOMAIN disk' : \A q \in Panes(disk'[v]) \cap closed :
         \E j \in Slot : Leaves(task'[j], v, q)
  BY <1>1, <1>9, LeavesSame
<1>11. ~Renamed(t) /\ ~Renamed(task[k])
  BY <1>1, <1>5 DEF Renamed
<1> QED BY <1>1, <1>7, <1>8, <1>10, <1>11, OwnedRun

LEMMA FocusStepOwned ==
  ASSUME TaskInv, Calm, Owned, NEW k \in Slot, ~disturbed',
         \/ \E p \in Pane : SelectPane(p, k) \/ ActivateTerminal(p) \/ TypeLive(p)
         \/ NavigatePane(k)
  PROVE  Owned'
<1>1. TaskInv' /\ SameLayout
  BY FocusStepFits
<1>2. ASSUME NEW p \in Pane, ActivateTerminal(p) \/ TypeLive(p)
      PROVE  Owned'
  BY <1>1, <1>2, OwnedStays DEF ActivateTerminal, TypeLive, world, history
<1>3. CASE \E p \in Pane : SelectPane(p, k)
  BY <1>1, <1>3, FocusOwned DEF SelectPane
<1>4. CASE NavigatePane(k)
  <2>1. PICK p \in NavigationTargets(shown) : Focus(p, k)
    BY <1>4 DEF NavigatePane
  <2>2. p \in Pane
    BY <1>4, <2>1, ShownIs, NavigationFits, SnapshotIs DEF NavigatePane, Fit
  <2> QED BY <1>1, <2>1, <2>2, FocusOwned
<1> QED BY <1>2, <1>3, <1>4

LEMMA TypeQueuedOwned ==
  ASSUME TaskInv, Owned, NEW k \in Slot, NEW p \in Pane, TypeQueued(p, k)
  PROVE  Owned'
<1>1. TaskInv' /\ SameLayout
  BY TypeQueuedFits
<1>2. /\ live' = live /\ closed' = closed /\ used' = used /\ disk' = disk
      /\ task' = task \/ (task[k] = None /\ task' = [task EXCEPT ![k] = FlushTask])
  BY DEF TypeQueued, Start, world
<1>3. FlushTask.kind = "flush"
  BY DEF FlushTask
<1>4. ~Renamed(FlushTask) /\ TaskOpen(FlushTask, closed)
  BY <1>3 DEF Renamed, TaskOpen
<1>5. CASE task' = task
  BY <1>1, <1>2, <1>5, OwnedStays
<1>6. CASE task[k] = None /\ task' = [task EXCEPT ![k] = FlushTask]
  <2>1. ~Renamed(task[k])
    BY <1>6 DEF Renamed
  <2> QED BY <1>1, <1>2, <1>3, <1>4, <1>6, <2>1, OwnedQuiet
<1> QED BY <1>2, <1>5, <1>6

\* The panes of a workspace have been created.
LEMMA HeldUsed ==
  ASSUME TaskInv, Calm, Owned, NEW w \in Workspace, NEW p \in Pane, Holds(w, p, shown, live)
  PROVE  p \in used
<1>1. CASE w \in DOMAIN disk /\ p \in Panes(disk[w])
  BY <1>1 DEF TaskInv, DiskFits, Fit
<1>2. ASSUME NEW k \in Slot, task[k] # None, task[k].kind = "save", p \in Panes(task[k].snap)
      PROVE  p \in used
  <2>1. TaskFit(task[k], used, strays) /\ task[k] \in Saves
    BY <1>2, TaskIs
  <2>2. task[k].snap # None
    BY <2>1, NoneAssumption DEF Saves
  <2> QED BY <1>2, <2>1, <2>2 DEF TaskFit, Fit
<1>3. CASE shown # None /\ p \in Panes(shown)
  BY <1>3, ShownIs DEF Fit
<1>4. CASE live[<<w, p>>] # None
  <2>1. <<w, p>> \in Key /\ <<w, p>>[2] = p
    BY DEF Key
  <2> QED BY <1>4, <2>1 DEF Owned, LiveOpen
<1> QED BY <1>1, <1>2, <1>3, <1>4 DEF Holds, Kept

\* The layout on the screen, or the terminals of workspace w change: the panes
\* of C are closed, others may be new, and task t takes the change to the store.
Changes(t, w, C) ==
  /\ disk' = disk /\ used \subseteq used' /\ C \subseteq Pane /\ closed' = closed \cup C
  /\ \/ t.kind = "exit"
     \/ /\ t.kind = "save" /\ t.snap.ws = w /\ shown' # None /\ shown'.ws = w
        /\ Panes(t.snap) = Panes(shown')
  /\ \A p \in C : Holds(w, p, shown, live) /\ Leaves(t, w, p)
  /\ shown' # None => shown'.ws \in Workspace /\ \A p \in Panes(shown') :
       /\ shown'.ws = w => p \notin C
       /\ \/ shown # None /\ shown.ws = shown'.ws /\ p \in Panes(shown)
          \/ shown'.ws = w /\ p \notin used
  /\ \A key \in Key : live'[key] # None =>
       \/ live[key] # None /\ ~ (key[1] = w /\ key[2] \in C)
       \/ key[1] = w /\ shown' # None /\ shown'.ws = w /\ key[2] \in Panes(shown')

\* Nothing else is in flight for w.
LEMMA ChangeOwned ==
  ASSUME TaskInv, TaskInv', Calm, Owned, NEW k \in Slot, task[k] = None, NEW t,
         task' = [task EXCEPT ![k] = t], NEW w \in Workspace, ~Busy(w), NEW C, Changes(t, w, C)
  PROVE  Owned'
<1> USE DEF Changes
<1>1. task'[k] = t /\ \A j \in Slot : j # k => task'[j] = task[j]
  BY DEF TaskInv, TasksFit
<1>2. ASSUME NEW j \in Slot
      PROVE  ~Renamed(task[j]) /\ ~Renamed(task'[j])
  <2>1. w \notin Touches(task[j])
    BY DEF Busy
  <2>2. ~Renamed(task[j])
    BY <2>1, CalmTask, TouchesIs DEF Renamed
  <2> QED BY <1>1, <2>2 DEF Renamed
<1>3. Apart(shown, live)
  BY <1>2 DEF Owned, OneEach
<1>4. ASSUME shown' # None
      PROVE  Panes(shown') \subseteq Pane /\ Panes(shown') \subseteq used'
  BY <1>4, SnapshotIs DEF TaskInv, AppFits, Fit
<1>5. ASSUME NEW v \in Workspace, NEW p \in Pane, shown' # None, shown'.ws = v, p \in Panes(shown')
      PROVE  Holds(v, p, shown, live) \/ (v = w /\ p \notin used)
  BY <1>5 DEF Holds
<1>6. ASSUME NEW v \in Workspace, NEW p \in Pane, Holds(v, p, shown, live)'
      PROVE  Holds(v, p, shown, live) \/ (v = w /\ p \notin used)
  <2>1. CASE v \in DOMAIN disk' /\ p \in Panes(disk'[v])
    BY <2>1 DEF Holds, Kept
  <2>2. CASE shown' # None /\ shown'.ws = v /\ p \in Panes(shown')
    BY <1>5, <2>2
  <2>3. ASSUME NEW j \in Slot, task'[j] # None, task'[j].kind = "save", task'[j].snap.ws = v,
               p \in Panes(task'[j].snap)
        PROVE  Holds(v, p, shown, live) \/ (v = w /\ p \notin used)
    <3>1. CASE j = k
      BY <1>1, <1>5, <2>3, <3>1
    <3>2. CASE j # k
      BY <1>1, <2>3, <3>2 DEF Holds, Kept
    <3> QED BY <3>1, <3>2
  <2>4. CASE live'[<<v, p>>] # None
    <3>1. <<v, p>> \in Key /\ <<v, p>>[1] = v /\ <<v, p>>[2] = p
      BY DEF Key
    <3>2. live[<<v, p>>] # None \/ (v = w /\ shown' # None /\ shown'.ws = w /\ p \in Panes(shown'))
      BY <2>4, <3>1
    <3> QED BY <1>5, <3>2 DEF Holds
  <2> QED BY <1>6, <2>1, <2>2, <2>3, <2>4 DEF Holds, Kept
<1>7. Apart(shown, live)'
  <2>1. \A v \in Workspace : \A p \in Pane : Holds(v, p, shown, live) => p \in used
    BY HeldUsed
  <2> QED BY <1>3, <1>6, <2>1 DEF Apart
<1>8. OneEach'
  BY <1>2, <1>7 DEF OneEach
<1>9. closed \subseteq used /\ closed' \subseteq used' /\ C \subseteq used
  BY HeldUsed DEF Owned, ClosedLeave
<1>10. shown' # None => Panes(shown') \cap closed' = {}
  <2>1. SUFFICES ASSUME shown' # None, NEW p \in Panes(shown'), p \in closed'
                 PROVE  FALSE
    OBVIOUS
  <2>2. p \in Pane
    BY <1>4, <2>1
  <2>3. CASE p \in closed
    BY <1>9, <2>1, <2>3 DEF Owned, ClosedLeave
  <2>4. CASE p \in C
    <3>1. shown'.ws # w /\ shown # None /\ shown.ws = shown'.ws /\ p \in Panes(shown)
      BY <1>9, <2>1, <2>4
    <3>2. Holds(shown'.ws, p, shown, live) /\ Holds(w, p, shown, live) /\ shown'.ws \in Workspace
      BY <2>1, <2>4, <3>1 DEF Holds
    <3> QED BY <1>3, <2>2, <3>1, <3>2 DEF Apart
  <2> QED BY <2>1, <2>3, <2>4
<1>11. LiveOpen'
  <2>1. SUFFICES ASSUME NEW key \in Key, live'[key] # None
                 PROVE  /\ key[2] \in used' \ closed'
                        /\ \A v \in Workspace : live'[<<v, key[2]>>] # None => v = key[1]
    BY DEF LiveOpen
  <2>2. key[1] \in Workspace /\ key[2] \in Pane /\ key = <<key[1], key[2]>>
    BY DEF Key
  <2>3. CASE live[key] # None /\ ~ (key[1] = w /\ key[2] \in C)
    <3>1. key[2] \in used \ closed
      BY <2>3 DEF Owned, LiveOpen
    <3>2. Holds(key[1], key[2], shown, live)
      BY <2>2, <2>3 DEF Holds
    <3>3. key[2] \notin C
      BY <1>3, <2>2, <2>3, <3>2 DEF Apart
    <3>4. key[2] \in used' \ closed'
      BY <3>1, <3>3
    <3>5. \A v \in Workspace : live'[<<v, key[2]>>] # None => v = key[1]
      BY <1>7, <2>1, <2>2 DEF Apart, Holds
    <3> QED BY <3>4, <3>5
  <2>4. CASE key[1] = w /\ shown' # None /\ shown'.ws = w /\ key[2] \in Panes(shown')
    <3>1. key[2] \in used' \ closed'
      BY <1>4, <1>10, <2>4
    <3>2. \A v \in Workspace : live'[<<v, key[2]>>] # None => v = key[1]
      BY <1>7, <2>1, <2>2 DEF Apart, Holds
    <3> QED BY <3>1, <3>2
  <2> QED BY <2>1, <2>3, <2>4
<1>12. ASSUME NEW j \in Slot, task'[j] # None
       PROVE  TaskOpen(task'[j], closed')
  <2>1. CASE j = k
    BY <1>1, <1>10, <2>1 DEF TaskOpen
  <2>2. CASE j # k
    <3>1. task'[j] = task[j] /\ TaskOpen(task[j], closed) /\ TaskFit(task[j], used, strays) /\ w \notin Touches(task[j])
      BY <1>1, <1>12, <2>2, CalmTask DEF Owned, ClosedLeave, Busy
    <3>2. ASSUME task[j].kind = "save", NEW p \in Panes(task[j].snap), p \in C
          PROVE  FALSE
      <4>1. task[j].snap.ws \in Workspace /\ task[j].snap.ws # w
        BY <3>1, <3>2, TouchesIs
      <4>2. Holds(task[j].snap.ws, p, shown, live) /\ Holds(w, p, shown, live)
        BY <1>12, <3>1, <3>2 DEF Holds, Kept
      <4> QED BY <1>3, <3>2, <4>1, <4>2 DEF Apart
    <3> QED BY <3>1, <3>2 DEF TaskOpen
  <2> QED BY <2>1, <2>2
<1>13. ASSUME NEW v \in DOMAIN disk', NEW p \in Panes(disk'[v]) \cap closed'
       PROVE  \E j \in Slot : Leaves(task'[j], v, p)
  <2>1. CASE p \in closed
    <3>1. PICK j \in Slot : Leaves(task[j], v, p)
      BY <1>13, <2>1 DEF Owned, ClosedLeave
    <3>2. j # k
      BY <3>1 DEF Leaves
    <3> QED BY <1>1, <3>1, <3>2
  <2>2. CASE p \in C
    <3>1. v \in Workspace /\ Holds(v, p, shown, live)
      BY <1>13 DEF Holds, Kept, TaskInv, DiskFits
    <3>2. v = w
      BY <1>3, <2>2, <3>1 DEF Apart
    <3> QED BY <1>1, <2>2, <3>2
  <2> QED BY <1>13, <2>1, <2>2
<1>14. ClosedLeave'
  BY <1>9, <1>10, <1>12, <1>13 DEF ClosedLeave
<1> QED BY <1>8, <1>11, <1>14 DEF Owned

LEMMA AddPaneOwned ==
  ASSUME TaskInv, NeverBlank, Calm, Owned, NEW k \in Slot, NEW p \in Pane, AddPane(p, k), ~disturbed'
  PROVE  Owned'
<1> DEFINE w == active
           t == SaveTask(shown')
<1>1. /\ w # None /\ task[k] = None /\ Use({w}) /\ p \notin used /\ used' = used \cup {p}
      /\ disk' = disk /\ closed' = closed
  BY DEF AddPane, Start
<1>2. shown # None /\ shown.ws = w
  BY AddPaneCalm
<1>3. /\ TaskInv' /\ shown' # None /\ task' = [task EXCEPT ![k] = t]
      /\ shown'.ws = w /\ Panes(shown') = Panes(shown) \cup {p} /\ Started(live, w, shown')
  BY <1>2, AddPaneFits
<1>4. w \in Workspace /\ ~Busy(w)
  BY <1>1, <1>2, ShownIs, StartsAlone
<1>5. t.kind = "save" /\ t.snap = shown'
  BY DEF SaveTask
<1>6. Changes(t, w, {})
  BY <1>1, <1>2, <1>3, <1>4, <1>5 DEF Changes, Started
<1> QED BY <1>1, <1>3, <1>4, <1>6, ChangeOwned

LEMMA CloseOwned ==
  ASSUME TaskInv, Calm, Owned, NEW k \in Slot, CloseActivePane(k), ~disturbed'
  PROVE  Owned'
<1> DEFINE w == shown.ws
           p == shown.focus
<1>1. /\ task[k] = None /\ Use({w}) /\ closed' = closed \cup {p} /\ p \in Panes(shown)
      /\ disk' = disk /\ used' = used
  BY DEF CloseActivePane, Start
<1>2. /\ TaskInv' /\ shown # None /\ shown' # None /\ shown'.ws = w
      /\ Started([live EXCEPT ![<<w, p>>] = None], active, shown')
  BY CloseFits
<1>3. PICK s : /\ task' = [task EXCEPT ![k] = SaveTask(s)] /\ s.ws = w
               /\ shown'.columns = s.columns /\ Panes(s) = Panes(shown) \ {p} /\ Fit(s, used, strays)
  BY CloseFits
<1>4. w \in Workspace /\ ~Busy(w) /\ w = active /\ Fit(shown, used, strays)
  BY <1>1, <1>2, ShownIs, StartsAlone DEF Calm
<1>5. p \in Panes(shown) /\ p \in Pane
  BY <1>1, <1>4, SnapshotIs DEF Fit
<1>6. Panes(shown') = Panes(shown) \ {p} /\ Panes(s) = Panes(shown')
  BY <1>3 DEF Panes
<1> DEFINE t == SaveTask(s)
<1>7. t.kind = "save" /\ t.snap = s /\ t # None
  <2>1. s \in Snapshot
    BY <1>3 DEF Fit
  <2>2. t \in Saves
    BY <2>1 DEF SaveTask, Saves
  <2> QED BY <2>2, TaskKinds DEF SaveTask, Tasks
<1> HIDE DEF t
<1>8. Holds(w, p, shown, live) /\ Leaves(t, w, p)
  BY <1>2, <1>3, <1>5, <1>7 DEF Holds, Leaves
<1>9. \A key \in Key : live'[key] # None =>
        \/ live[key] # None /\ ~ (key[1] = w /\ key[2] \in {p})
        \/ key[1] = w /\ shown' # None /\ shown'.ws = w /\ key[2] \in Panes(shown')
  <2>1. live \in [Key -> Shell \cup {None}]
    BY DEF TaskInv, AppFits, LiveFits
  <2>2. ASSUME NEW key \in Key, key[1] = w, key[2] = p
        PROVE  key = <<w, p>>
    BY <2>2 DEF Key
  <2> QED BY <1>2, <1>4, <2>1, <2>2 DEF Started
<1>10. shown'.ws \in Workspace /\ \A q \in Panes(shown') : q \notin {p} /\ q \in Panes(shown)
  BY <1>2, <1>4, <1>6
<1>11. task' = [task EXCEPT ![k] = t] /\ {p} \in SUBSET Pane /\ used \subseteq used'
  BY <1>1, <1>3, <1>5 DEF t
<1>12. Changes(t, w, {p})
  BY <1>1, <1>2, <1>3, <1>6, <1>7, <1>8, <1>9, <1>10, <1>11 DEF Changes
<1> QED BY <1>1, <1>2, <1>4, <1>11, <1>12, ChangeOwned

LEMMA TerminalExitOwned ==
  ASSUME TaskInv, Calm, Owned, NEW k \in Slot, NEW w \in Workspace, NEW p \in Pane,
         TerminalExit(w, p, k), ~disturbed'
  PROVE  Owned'
<1>1. /\ task[k] = None /\ Use({w}) /\ closed' = closed \cup {p} /\ used' = used
      /\ disk' = disk /\ live[<<w, p>>] # None /\ live' = [live EXCEPT ![<<w, p>>] = None]
  BY DEF TerminalExit, Start
<1>2. TaskInv' /\ ~Busy(w)
  BY <1>1, TerminalExitFits, StartsAlone
<1>3. Holds(w, p, shown, live)
  BY <1>1 DEF Holds
<1>4. \A key \in Key : live'[key] # None => live[key] # None /\ ~ (key[1] = w /\ key[2] \in {p})
  <2>1. live \in [Key -> Shell \cup {None}]
    BY DEF TaskInv, AppFits, LiveFits
  <2>2. ASSUME NEW key \in Key, key[1] = w, key[2] = p
        PROVE  key = <<w, p>>
    BY <2>2 DEF Key
  <2> QED BY <1>1, <2>1, <2>2
<1>5. {p} \in SUBSET Pane /\ used \subseteq used'
  BY <1>1
<1>6. CASE /\ shown # None /\ shown' # None /\ shown'.ws = shown.ws /\ shown.ws = w
           /\ task' = [task EXCEPT ![k] = SaveTask(shown')]
           /\ Panes(shown') = Panes(shown) \ {p} /\ Fit(shown', used, strays)
  <2> DEFINE t == SaveTask(shown')
  <2>1. t.kind = "save" /\ t.snap = shown' /\ t # None
    <3>1. t \in Saves
      BY <1>6 DEF SaveTask, Saves, Fit
    <3> QED BY <3>1, TaskKinds DEF SaveTask, Tasks
  <2>2. task' = [task EXCEPT ![k] = t]
    BY <1>6
  <2> HIDE DEF t
  <2>3. Leaves(t, w, p)
    BY <1>6, <2>1 DEF Leaves
  <2>4. /\ t.snap.ws = w /\ Panes(t.snap) = Panes(shown')
        /\ \A q \in Panes(shown') : q \notin {p} /\ q \in Panes(shown)
    BY <1>6, <2>1
  <2>5. Changes(t, w, {p})
    BY <1>1, <1>3, <1>4, <1>5, <1>6, <2>1, <2>3, <2>4 DEF Changes
  <2> QED BY <1>1, <1>2, <2>2, <2>5, ChangeOwned
<1>7. CASE /\ ~ (shown # None /\ shown.ws = w /\ p \in Panes(shown)) /\ shown' = shown
           /\ task' = [task EXCEPT ![k] = ExitTask(w, p)] /\ p \in Terminal
  <2> DEFINE t == ExitTask(w, p)
  <2>1. t.kind = "exit" /\ t.ws = w /\ t.pane = p /\ t # None
    <3>1. t \in Exits
      BY <1>7 DEF ExitTask, Exits
    <3> QED BY <3>1, TaskKinds DEF ExitTask, Tasks
  <2>2. task' = [task EXCEPT ![k] = t]
    BY <1>7
  <2> HIDE DEF t
  <2>3. Leaves(t, w, p)
    BY <2>1 DEF Leaves
  <2>4. shown' # None => shown'.ws \in Workspace /\ \A q \in Panes(shown') :
           /\ shown'.ws = w => q \notin {p}
           /\ shown # None /\ shown.ws = shown'.ws /\ q \in Panes(shown)
    BY <1>7, ShownIs
  <2>5. Changes(t, w, {p})
    BY <1>1, <1>3, <1>4, <1>5, <2>1, <2>3, <2>4 DEF Changes
  <2> QED BY <1>1, <1>2, <2>2, <2>5, ChangeOwned
<1> QED BY <1>6, <1>7, TerminalExitFits

LEMMA InitOwned ==
  ASSUME Init
  PROVE  Owned
<1> DEFINE t == ReloadTask("start", "list", None, None, None)
<1>1. shown = None /\ closed = {} /\ \A key \in Key : live[key] = None
  BY DEF Init
<1>2. PICK k \in Slot : task = [j \in Slot |-> IF j = k THEN t ELSE None]
  BY DEF Init
<1>3. t.kind = "reload" /\ t.op = "start" /\ t.step = "list"
  BY DEF ReloadTask
<1> HIDE DEF t
<1>4. \A j \in Slot : task[j] # None => task[j] = t
  BY <1>2
<1>5. PICK W \in SUBSET rows : \E panes \in [W -> Stored] :
         /\ \A v, w \in W : panes[v] = panes[w] => v = w
         /\ disk = [w \in W |-> Left(w, panes[w])]
         /\ shells \in SUBSET {<<w, panes[w]>> : w \in {w \in W : panes[w] \in Terminal}}
  BY DEF Init
<1>6. PICK panes \in [W -> Stored] : /\ \A v, w \in W : panes[v] = panes[w] => v = w
                                     /\ disk = [w \in W |-> Left(w, panes[w])]
  BY <1>5
<1>7. ASSUME NEW v \in DOMAIN disk, NEW w \in DOMAIN disk, NEW p, p \in Panes(disk[v]), p \in Panes(disk[w])
      PROVE  v = w
  <2>1. \A x \in W : disk[x].columns = <<panes[x]>>
    BY <1>6 DEF Left, EmptyLayout
  <2>2. \A x \in W : Panes(disk[x]) = {panes[x]}
    BY <2>1 DEF Panes, ToSet
  <2> QED BY <1>6, <1>7, <2>2
<1>8. \A w \in Workspace : \A p \in Pane : Holds(w, p, shown, live) <=> w \in DOMAIN disk /\ p \in Panes(disk[w])
  <2>1. \A w \in Workspace : \A p \in Pane : <<w, p>> \in Key
    BY DEF Key
  <2> QED BY <1>1, <1>3, <1>4, <2>1 DEF Holds, Kept
<1>9. OneEach
  BY <1>3, <1>4, <1>7, <1>8 DEF OneEach, Apart, Renamed
<1>10. LiveOpen
  BY <1>1 DEF LiveOpen
<1>11. ClosedLeave
  BY <1>1, <1>3, <1>4 DEF ClosedLeave, TaskOpen
<1> QED BY <1>9, <1>10, <1>11 DEF Owned

LEMMA NextOwned ==
  ASSUME TaskInv, NeverBlank, Calm, Owned, [Next]_vars, ~disturbed'
  PROVE  Owned'
<1>1. CASE UNCHANGED vars
  BY <1>1, OwnedStays DEF vars, app, world, history
<1>2. ASSUME NEW k \in Slot, TaskStep(k)
      PROVE  Owned'
  <2>1. CASE LoadRead(k) \/ LoadCreate(k) \/ LoadApply(k) \/ LoadFail(k)
    BY <2>1, LoadReadOwned, LoadCreateOwned, LoadApplyOwned DEF LoadFail
  <2>2. CASE SaveRun(k) \/ SaveFail(k) \/ ExitRead(k) \/ ExitWrite(k) \/ ExitFail(k)
    BY <2>2, SaveOwned, ExitReadOwned, ExitWriteOwned DEF SaveFail, ExitFail
  <2>3. CASE FlushTake(k) \/ FlushSend(k) \/ FlushSave(k) \/ FlushApply(k) \/ FlushFail(k)
    BY <2>3, FlushTakeFits, FlushSendFits, FlushApplyFits, FlushOwned, FlushSaveOwned DEF FlushFail
  <2>4. CASE \/ CreateInJJ(k) \/ ForgetInJJ(k) \/ DeleteLayout(k) \/ DeleteRow(k)
             \/ CheckName(k) \/ RenameInJJ(k) \/ RenameRows(k)
    BY <2>4, JJStepOwned, DeleteLayoutOwned, RenameRowsOwned
  <2>5. CASE \/ RenameCopy(k) \/ ReloadList(k) \/ ReloadUpsert(k) \/ ReloadRead(k)
             \/ ReloadCreate(k) \/ ReloadFail(k) \/ ReloadApply(k)
    BY <2>5, RenameCopyOwned, ReloadListOwned, ReloadCreateOwned, ReloadApplyOwned DEF ReloadFail
  <2> QED BY <1>2, <2>1, <2>2, <2>3, <2>4, <2>5 DEF TaskStep
<1>3. CASE User
  <2>1. PICK k \in Slot :
    \/ \E w \in Workspace :
         OpenWorkspace(w, k) \/ CreateWorkspace(w, k) \/ ForgetWorkspace(w, k)
    \/ \E w, to \in Workspace : RenameWorkspace(w, to, k)
    \/ \E p \in Pane : AddPane(p, k) \/ SelectPane(p, k) \/ ActivateTerminal(p)
                        \/ TypeLive(p) \/ TypeQueued(p, k)
    \/ NavigatePane(k) \/ CloseActivePane(k) \/ Reload(k)
    BY <1>3 DEF User
  <2> HIDE DEF Owned
  <2> QED BY <2>1, OpenOwned, OperationsOwned, AddPaneOwned, FocusStepOwned, TypeQueuedOwned, CloseOwned
<1>4. CASE TerminalEvent
  <2>1. PICK p \in Pane : DrainOutput(p) \/ \E w \in Workspace, k \in Slot : TerminalExit(w, p, k)
    BY <1>4 DEF TerminalEvent
  <2>2. CASE DrainOutput(p)
    BY <2>2, DrainFits, OwnedStays DEF DrainOutput, world, history
  <2> QED BY <2>1, <2>2, TerminalExitOwned
<1>5. ASSUME NEW s \in Shell, KillRun(s) \/ KillFail(s)
      PROVE  Owned'
  BY <1>5, OwnedStays DEF KillRun, KillFail, app, world, history
<1> QED BY <1>1, <1>2, <1>3, <1>4, <1>5 DEF Next

\* Until operations on a workspace overlap, a pane belongs to one workspace and
\* the stored layouts keep closed panes only while a task takes them out.
THEOREM OwnedUntilDisturbed == Spec => [](~disturbed => Owned)
<1>1. Init => (~disturbed => Owned)
  BY InitOwned
<1>2. TaskInv /\ NeverBlank /\ (~disturbed => Calm) /\ (~disturbed => Owned) /\ [Next]_vars
      => (~disturbed => Owned)'
  BY DisturbedStays, NextOwned
<1> QED BY <1>1, <1>2, AlwaysFits, NeverStaysBlank, CalmUntilDisturbed, PTL DEF Spec

\* A closed pane, or one whose terminal ended, does not come back on the
\* screen, until operations on its workspace overlap.
THEOREM ClosedPanesStayClosed == Spec => []ClosedStaysClosed
<1>1. (~disturbed => Owned) => ClosedStaysClosed
  BY DEF Owned, ClosedLeave, ClosedStaysClosed
<1> QED BY <1>1, OwnedUntilDisturbed, PTL

\* A pane has one running terminal and a closed one has none, whatever is
\* opened, closed, renamed, forgotten and created again, until operations on
\* a workspace overlap.
THEOREM OneTerminalEach == Spec => []OneTerminal
<1>1. (~disturbed => Owned) => OneTerminal
  BY DEF Owned, LiveOpen, OneTerminal
<1> QED BY <1>1, OwnedUntilDisturbed, PTL

-----------------------------------------------------------------------------
(* What runs stays in a layout.  A navigation operation in flight knows that  *)
(* the layout on the screen, which it will replace, is stored or is one of a  *)
(* workspace that has left JJ.                                                *)

\* s is on the screen, d is stored, j is what JJ lists.
Knows(t, s, d, j) ==
  /\ s # None => StoredAs(s, d) \/ s.ws \notin j
  /\ t.op = "create" /\ t.step = "jj" => (s # None => StoredAs(s, d))
  /\ t.op = "rename" /\ t.step \in {"check", "jj", "copy", "commit"} => (s # None => StoredAs(s, d))
  /\ t.op = "rename" /\ t.step \in {"copy", "commit"} => t.ws \notin j /\ t.to \in j
  /\ t.op = "forget" /\ t.step = "delete" => t.ws \notin j
  /\ Renamed(t) =>
       /\ t.ws \notin j /\ t.to \in j /\ t.ws \notin DOMAIN d
       /\ t.step # "list" => t.list = j
       /\ s # None /\ s.ws = t.ws => t.to \in DOMAIN d /\ d[t.to].columns = s.columns

Known == \A k \in Slot : task[k] # None /\ task[k].kind = "reload" => Knows(task[k], shown, disk, jj)

\* The screen has the layout it had, or none.
SameOrNone == shown' = None \/ shown' = shown \/ SameLayout

LEMMA KnownStays ==
  ASSUME Known, SameOrNone, UNCHANGED <<task, disk, jj>>
  PROVE  Known'
<1> SUFFICES ASSUME NEW k \in Slot, task[k] # None, task[k].kind = "reload"
             PROVE  Knows(task[k], shown', disk', jj')
  BY DEF Known
<1>1. Knows(task[k], shown, disk, jj)
  BY DEF Known
<1> QED BY <1>1 DEF Knows, StoredAs, SameOrNone, SameLayout

\* A step of a task that is no navigation operation.
LEMMA KnownQuiet ==
  ASSUME TaskInv, Known, NEW k \in Slot, NEW t, task' = [task EXCEPT ![k] = t], SameOrNone,
         t # None => t.kind # "reload", disk' = disk, jj' = jj
  PROVE  Known'
<1>1. task'[k] = t /\ \A j \in Slot : j # k => task'[j] = task[j]
  BY DEF TaskInv, TasksFit
<1> SUFFICES ASSUME NEW j \in Slot, task'[j] # None, task'[j].kind = "reload"
             PROVE  Knows(task'[j], shown', disk', jj')
  BY DEF Known
<1>2. j # k /\ task'[j] = task[j]
  BY <1>1
<1>3. Knows(task[j], shown, disk, jj)
  BY <1>2 DEF Known
<1> QED BY <1>2, <1>3 DEF Knows, StoredAs, SameOrNone, SameLayout

\* What touches a workspace runs beside no navigation operation.
LEMMA NoOperation ==
  ASSUME TaskInv, NEW j \in Slot, NEW w \in Workspace, w \notin Touches(task[j]), task[j] # None
  PROVE  task[j].kind # "reload"
<1>1. TaskFit(task[j], used, strays)
  BY DEF TaskInv, TasksFit
<1> QED BY <1>1, TouchesIs

LEMMA KnownAlone ==
  ASSUME TaskInv, NEW k \in Slot, NEW t, task' = [task EXCEPT ![k] = t],
         t # None => t.kind # "reload", NEW w \in Workspace,
         \A j \in Slot : j # k => w \notin Touches(task[j])
  PROVE  Known'
<1>1. task'[k] = t /\ \A j \in Slot : j # k => task'[j] = task[j]
  BY DEF TaskInv, TasksFit
<1>2. \A j \in Slot : j # k /\ task[j] # None => task[j].kind # "reload"
  BY NoOperation
<1> QED BY <1>1, <1>2 DEF Known

\* A navigation operation is the only one.
LEMMA KnownRun ==
  ASSUME TaskInv, Calm, Owned, NEW k \in Slot, task[k] # None, task[k].kind = "reload",
         NEW t, task' = [task EXCEPT ![k] = t],
         t # None /\ t.kind = "reload" => Knows(t, shown', disk', jj')
  PROVE  Known'
<1>1. task'[k] = t /\ \A j \in Slot : j # k => task'[j] = task[j]
  BY DEF TaskInv, TasksFit
<1>2. \A j \in Slot : j # k => task[j] = None \/ task[j].kind = "flush"
  BY ReloadAlone
<1> QED BY <1>1, <1>2 DEF Known

LEMMA JJStepKnown ==
  ASSUME TaskInv, Calm, Owned, Known, NEW k \in Slot,
         \/ CreateInJJ(k) \/ ForgetInJJ(k) \/ DeleteRow(k) \/ CheckName(k) \/ RenameInJJ(k)
  PROVE  Known'
<1> DEFINE r == task[k]
<1>1. r # None /\ r.kind = "reload" /\ disk' = disk
  BY DEF CreateInJJ, ForgetInJJ, DeleteRow, CheckName, RenameInJJ, Step, At
<1>2. Knows(r, shown, disk, jj)
  BY <1>1 DEF Known
<1>3. CASE CreateInJJ(k)
  <2>1. r.op = "create" /\ r.step = "jj"
    BY <1>3 DEF CreateInJJ, Step, At
  <2>2. PICK t : /\ task' = [task EXCEPT ![k] = t] /\ t.step = "list" /\ SameOperation(t, r)
                 /\ UNCHANGED app
    BY <1>3, OperationStep DEF CreateInJJ
  <2>3. Knows(t, shown', disk', jj')
    BY <1>1, <1>2, <2>1, <2>2 DEF Knows, Renamed, SameOperation, app
  <2> QED BY <1>1, <2>2, <2>3, KnownRun
<1>4. CASE ForgetInJJ(k)
  <2>1. r.op = "forget" /\ jj' = jj \ {r.ws}
    BY <1>4 DEF ForgetInJJ, Step, At
  <2>2. PICK t : /\ task' = [task EXCEPT ![k] = t] /\ t.step = "delete" /\ SameOperation(t, r)
                 /\ UNCHANGED app
    BY <1>4, OperationStep DEF ForgetInJJ
  <2>3. Knows(t, shown', disk', jj')
    BY <1>1, <1>2, <2>1, <2>2 DEF Knows, Renamed, SameOperation, app
  <2> QED BY <1>1, <2>2, <2>3, KnownRun
<1>5. CASE DeleteRow(k)
  <2>1. r.op = "forget" /\ jj' = jj
    BY <1>5 DEF DeleteRow, Step, At
  <2>2. PICK t : /\ task' = [task EXCEPT ![k] = t] /\ t.step = "list" /\ SameOperation(t, r)
                 /\ UNCHANGED app
    BY <1>5, OperationStep DEF DeleteRow
  <2>3. Knows(t, shown', disk', jj')
    BY <1>1, <1>2, <2>1, <2>2 DEF Knows, Renamed, SameOperation, app
  <2> QED BY <1>1, <2>2, <2>3, KnownRun
<1>6. CASE CheckName(k)
  <2>1. r.op = "rename" /\ r.step = "check" /\ jj' = jj
    BY <1>6 DEF CheckName, Step, At
  <2>2. PICK t : /\ task' = [task EXCEPT ![k] = t] /\ t.step = "jj" /\ SameOperation(t, r)
                 /\ UNCHANGED app
    BY <1>6, OperationStep DEF CheckName
  <2>3. Knows(t, shown', disk', jj')
    BY <1>1, <1>2, <2>1, <2>2 DEF Knows, Renamed, SameOperation, app
  <2> QED BY <1>1, <2>2, <2>3, KnownRun
<1>7. CASE RenameInJJ(k)
  <2>1. /\ r.op = "rename" /\ r.step = "jj" /\ r.ws \in jj /\ r.to \notin jj
        /\ jj' = (jj \ {r.ws}) \cup {r.to}
    BY <1>7 DEF RenameInJJ, Step, At
  <2>2. PICK t : /\ task' = [task EXCEPT ![k] = t] /\ t.step = "copy" /\ SameOperation(t, r)
                 /\ UNCHANGED app
    BY <1>7, OperationStep DEF RenameInJJ
  <2>3. Knows(t, shown', disk', jj')
    BY <1>1, <1>2, <2>1, <2>2 DEF Knows, Renamed, SameOperation, app
  <2> QED BY <1>1, <2>2, <2>3, KnownRun
<1> QED BY <1>3, <1>4, <1>5, <1>6, <1>7

LEMMA RenameCopyKnown ==
  ASSUME TaskInv, Calm, Owned, Known, NEW k \in Slot, RenameCopy(k)
  PROVE  Known'
<1> DEFINE r == task[k]
<1>1. r # None /\ r.kind = "reload" /\ r.step = "copy" /\ shown' = shown /\ disk' = disk /\ jj' = jj
  BY DEF RenameCopy, At, app, world
<1>2. r.op = "rename" /\ Knows(r, shown, disk, jj)
  BY <1>1, OperationIs DEF Known, TaskFit
<1>3. PICK t : /\ task' = [task EXCEPT ![k] = t] /\ t.step = "commit" /\ t.ws = r.ws /\ t.to = r.to
               /\ TaskFit(t, used, strays) /\ t.kind = "reload"
  BY RenameCopyFits
<1>4. t.op = "rename"
  BY <1>3 DEF TaskFit
<1>5. Knows(t, shown', disk', jj')
  BY <1>1, <1>2, <1>3, <1>4 DEF Knows, Renamed
<1> QED BY <1>1, <1>3, <1>5, KnownRun

LEMMA DeleteLayoutKnown ==
  ASSUME TaskInv, Calm, Owned, Known, NEW k \in Slot, DeleteLayout(k)
  PROVE  /\ Known' /\ task[k] # None /\ task[k].kind = "reload" /\ task[k].ws \notin jj /\ jj' = jj
         /\ UNCHANGED app
         /\ DOMAIN disk' = DOMAIN disk \ {task[k].ws} /\ \A w \in DOMAIN disk' : disk'[w] = disk[w]
<1> DEFINE r == task[k]
<1>1. /\ r # None /\ r.kind = "reload" /\ r.op = "forget" /\ r.step = "delete"
      /\ disk' = Drop(r.ws) /\ jj' = jj
  BY DEF DeleteLayout, Step, At
<1>2. Knows(r, shown, disk, jj)
  BY <1>1 DEF Known
<1>3. PICK t : /\ task' = [task EXCEPT ![k] = t] /\ t.step = "row" /\ SameOperation(t, r) /\ UNCHANGED app
  BY OperationStep DEF DeleteLayout
<1>4. DOMAIN disk' = DOMAIN disk \ {r.ws} /\ \A w \in DOMAIN disk' : disk'[w] = disk[w]
  BY <1>1 DEF Drop, Restrict
<1>5. Knows(t, shown', disk', jj')
  BY <1>1, <1>2, <1>3, <1>4 DEF Knows, StoredAs, Renamed, SameOperation, app
<1>6. r.ws \notin jj
  BY <1>1, <1>2 DEF Knows
<1> QED BY <1>1, <1>3, <1>4, <1>5, <1>6, KnownRun

LEMMA RenameRowsKnown ==
  ASSUME TaskInv, Calm, Owned, Known, NEW k \in Slot, RenameRows(k)
  PROVE  /\ Known' /\ task[k] # None /\ task[k].kind = "reload" /\ task[k].ws \notin jj /\ jj' = jj
         /\ UNCHANGED app
         /\ \A w \in DOMAIN disk : w # task[k].ws => w \in DOMAIN disk' /\ disk'[w] = disk[w]
<1> DEFINE r == task[k]
           w == r.ws
           to == r.to
<1>1. /\ r # None /\ r.kind = "reload" /\ r.op = "rename" /\ r.step = "commit" /\ jj' = jj
  BY DEF RenameRows, Step, At
<1>2. /\ w \in DOMAIN disk => to \notin DOMAIN disk
      /\ disk' = IF w \notin DOMAIN disk THEN disk
                 ELSE [v \in (DOMAIN disk \ {w}) \cup {to} |->
                        IF v # to THEN disk[v] ELSE IF r.snap # None THEN r.snap ELSE disk[w]]
  BY DEF RenameRows
<1>3. w \in DOMAIN disk => r.snap # None /\ r.snap.columns = disk[w].columns
  BY <1>1, CalmTask DEF TaskCalm
<1>4. /\ w \notin jj /\ to \in jj /\ shown # None => StoredAs(shown, disk)
  BY <1>1 DEF Known, Knows
<1>5. PICK t : /\ task' = [task EXCEPT ![k] = t] /\ t.step = "list" /\ SameOperation(t, r) /\ UNCHANGED app
  BY OperationStep DEF RenameRows
<1>6. t.op = "rename" /\ t.ws = w /\ t.to = to /\ shown' = shown
  BY <1>1, <1>5 DEF SameOperation, app
<1> HIDE DEF w, to
<1>7. w \notin jj /\ to \in jj
  BY <1>1 DEF Known, Knows, w, to
<1>8. w # to /\ w \notin DOMAIN disk'
  BY <1>2, <1>7
<1>9. \A v \in DOMAIN disk : v # w => v \in DOMAIN disk' /\ disk'[v] = disk[v]
  BY <1>2
<1>10. w \in DOMAIN disk => to \in DOMAIN disk' /\ disk'[to].columns = disk[w].columns
  BY <1>2, <1>3
<1>11. shown # None => StoredAs(shown, disk)
  BY <1>1 DEF Known, Knows
<1>12. Knows(t, shown', disk', jj')
  BY <1>1, <1>5, <1>6, <1>7, <1>8, <1>9, <1>10, <1>11 DEF Knows, StoredAs, Renamed
<1>13. Known'
  BY <1>1, <1>5, <1>12, KnownRun
<1> QED BY <1>1, <1>5, <1>7, <1>9, <1>13 DEF w

\* The list of the workspaces in JJ: of a rename it has the new name.
LEMMA ReloadListKnown ==
  ASSUME TaskInv, Calm, Owned, Known, NEW k \in Slot, ReloadList(k) \/ ReloadUpsert(k) \/ ReloadRead(k)
  PROVE  Known'
<1> DEFINE r == task[k]
<1>1. /\ r # None /\ r.kind = "reload" /\ r.step \in {"list", "upsert", "read"}
      /\ shown' = shown /\ disk' = disk /\ jj' = jj
  BY DEF ReloadList, ReloadUpsert, ReloadRead, At, app, world
<1>2. r \in Reloads /\ task \in [Slot -> Tasks \cup {None}] /\ Knows(r, shown, disk, jj)
  BY <1>1, OperationIs DEF Known
<1>3. \E t : /\ task' = [task EXCEPT ![k] = t] /\ SameOperation(t, r)
             /\ t.step \in {"upsert", "read", "create", "apply"} /\ (Renamed(r) => t.list = jj)
  <2>1. CASE ReloadList(k)
    <3> DEFINE t == [r EXCEPT !.step = "upsert", !.list = jj]
    <3>1. task' = [task EXCEPT ![k] = t]
      BY <1>2, <2>1 DEF ReloadList
    <3>2. SameOperation(t, r) /\ t.step = "upsert" /\ t.list = jj
      BY <1>2 DEF SameOperation, Reloads
    <3> QED BY <3>1, <3>2
  <2>2. CASE ReloadUpsert(k)
    <3> DEFINE list == IF r.list = {} THEN rows ELSE r.list
    <3>1. PICK w : task' = [task EXCEPT ![k] = [r EXCEPT
              !.step = IF w = None THEN "apply" ELSE "read", !.list = list, !.want = w]]
      BY <2>2 DEF ReloadUpsert
    <3> DEFINE t == [r EXCEPT !.step = IF w = None THEN "apply" ELSE "read", !.list = list, !.want = w]
    <3>2. SameOperation(t, r) /\ t.step \in {"apply", "read"} /\ t.list = list
      BY <1>2 DEF SameOperation, Reloads
    <3>3. Renamed(r) => list = jj
      <4>1. r.step = "upsert"
        BY <2>2 DEF ReloadUpsert, At
      <4> QED BY <1>2, <4>1 DEF Knows
    <3> QED BY <3>1, <3>2, <3>3
  <2>3. CASE ReloadRead(k)
    <3> DEFINE step == IF r.want \in DOMAIN disk THEN "apply" ELSE "create"
               s == IF r.want \in DOMAIN disk THEN disk[r.want] ELSE EmptyLayout(r.want)
               t == [r EXCEPT !.step = step, !.snap = s]
    <3>1. task' = [task EXCEPT ![k] = t]
      BY <1>2, <2>3 DEF ReloadRead
    <3>2. SameOperation(t, r) /\ t.step \in {"apply", "create"} /\ t.list = r.list
      BY <1>2 DEF SameOperation, Reloads
    <3>3. Renamed(r) => r.list = jj
      <4>1. r.step = "read"
        BY <2>3 DEF ReloadRead, At
      <4> QED BY <1>2, <4>1 DEF Knows
    <3> QED BY <3>1, <3>2, <3>3
  <2> QED BY <2>1, <2>2, <2>3
<1>4. PICK t : /\ task' = [task EXCEPT ![k] = t] /\ SameOperation(t, r)
               /\ t.step \in {"upsert", "read", "create", "apply"} /\ (Renamed(r) => t.list = jj)
  BY <1>3
<1>5. Renamed(t) => Renamed(r)
  BY <1>1, <1>4 DEF Renamed, SameOperation
<1>6. Knows(t, shown', disk', jj')
  BY <1>1, <1>2, <1>4, <1>5 DEF Knows, SameOperation
<1> QED BY <1>1, <1>4, <1>6, KnownRun

LEMMA ReloadCreateKnown ==
  ASSUME TaskInv, Calm, Owned, Known, NEW k \in Slot, ReloadCreate(k)
  PROVE  Known'
<1> DEFINE r == task[k]
           t == [r EXCEPT !.step = "apply"]
<1>1. /\ r # None /\ r.kind = "reload" /\ r.step = "create" /\ disk' = Put(r.snap)
      /\ task' = [task EXCEPT ![k].step = "apply"]
      /\ shown' = shown /\ jj' = jj
  BY DEF ReloadCreate, At, app
<1>2. r \in Reloads /\ task \in [Slot -> Tasks \cup {None}] /\ Knows(r, shown, disk, jj)
      /\ TaskFit(r, used, strays)
  BY <1>1, OperationIs DEF Known
<1>3. r.want # None /\ r.snap # None /\ r.want \in r.list
  BY <1>1, <1>2 DEF TaskFit
<1>4. r.snap.ws = r.want /\ r.want \notin DOMAIN disk
  BY <1>1, <1>3, CalmTask DEF TaskCalm, LoadAgrees
<1>5. /\ DOMAIN disk' = DOMAIN disk \cup {r.want}
      /\ \A w \in DOMAIN disk : disk'[w] = disk[w]
  <2>1. /\ DOMAIN disk' = DOMAIN disk \cup {r.snap.ws}
        /\ \A w \in DOMAIN disk : w # r.snap.ws => disk'[w] = disk[w]
    BY <1>1, PutIs
  <2> QED BY <1>4, <2>1
<1>6. task' = [task EXCEPT ![k] = t] /\ SameOperation(t, r) /\ t.step = "apply" /\ t.list = r.list
  BY <1>1, <1>2 DEF SameOperation, Reloads
<1>7. Renamed(t) => Renamed(r) /\ r.list = jj
  BY <1>1, <1>2, <1>6 DEF Renamed, SameOperation, Knows
<1> HIDE DEF t
<1>8. Renamed(t) => t.ws \notin jj /\ t.to \in jj /\ t.ws \notin DOMAIN disk'
  BY <1>2, <1>3, <1>5, <1>6, <1>7 DEF Knows, SameOperation
<1>9. shown # None => StoredAs(shown, disk') \/ shown.ws \notin jj
  BY <1>2, <1>5 DEF Knows, StoredAs
<1>10. Renamed(t) /\ shown # None /\ shown.ws = t.ws => t.to \in DOMAIN disk' /\ disk'[t.to].columns = shown.columns
  BY <1>2, <1>5, <1>6, <1>7 DEF Knows, SameOperation
<1>11. Knows(t, shown', disk', jj')
  BY <1>1, <1>6, <1>7, <1>8, <1>9, <1>10 DEF Knows
<1> QED BY <1>1, <1>6, <1>11, KnownRun

LEMMA NavigateKnown ==
  ASSUME TaskInv, Calm, Owned, Known, NEW k \in Slot, ~disturbed',
         \/ Reload(k)
         \/ \E w \in Workspace : CreateWorkspace(w, k) \/ ForgetWorkspace(w, k)
         \/ \E w, to \in Workspace : RenameWorkspace(w, to, k)
  PROVE  Known'
<1>1. PICK op, step, w, to, want : /\ op = "rename" => step = "check"
                                   /\ step \in {"check", "jj", "list"}
                                   /\ Navigate(k, op, step, w, to, want)
  BY DEF Reload, CreateWorkspace, ForgetWorkspace, RenameWorkspace
<1> DEFINE t == ReloadTask(op, step, w, to, want)
<1>2. /\ task[k] = None /\ task' = [task EXCEPT ![k] = t] /\ Use(Workspace)
      /\ shown' = shown /\ disk' = disk /\ jj' = jj
  BY <1>1 DEF Navigate, Start, app, world
<1>3. t.kind = "reload" /\ t.op = op /\ t.step = step
  BY DEF ReloadTask
<1> HIDE DEF t
<1>4. \A v \in Workspace : ~Busy(v)
  BY <1>2, StartsAlone
<1>5. shown # None => StoredAs(shown, disk)
  BY <1>4, ShownIs DEF Calm
<1>6. Knows(t, shown', disk', jj')
  BY <1>1, <1>2, <1>3, <1>5 DEF Knows, Renamed
<1>7. task'[k] = t /\ \A j \in Slot : j # k => task'[j] = task[j]
  BY <1>2 DEF TaskInv, TasksFit
<1>8. Default \in Workspace
  BY TaskSpaceAssumption
<1>9. \A j \in Slot : task[j] # None => task[j].kind # "reload"
  BY <1>4, <1>8, NoOperation DEF Busy
<1> QED BY <1>6, <1>7, <1>9 DEF Known

\* Loads, saves and exits run beside no navigation operation.
LEMMA TasksKnown ==
  ASSUME TaskInv, Calm, Known, NEW k \in Slot,
         LoadCreate(k) \/ LoadApply(k) \/ SaveRun(k) \/ ExitWrite(k) \/ FlushSave(k)
  PROVE  Known'
<1>1. \A w \in Touches(task[k]) : \A j \in Slot : j # k => w \notin Touches(task[j])
  BY DEF Calm
<1>2. CASE LoadCreate(k)
  <2>1. task[k] # None /\ task[k].kind = "load"
    BY <1>2 DEF LoadCreate, At
  <2>2. task[k].ws \in Touches(task[k]) /\ task[k].ws \in Workspace
    BY <2>1, CalmTask, TouchesIs
  <2> QED BY <1>1, <1>2, <2>2, LoadCreateFits, KnownAlone
<1>3. CASE LoadApply(k)
  <2>1. task[k] # None /\ task[k].kind = "load" /\ task' = [task EXCEPT ![k] = None]
    BY <1>3 DEF LoadApply, At, Finish
  <2>2. task[k].ws \in Touches(task[k]) /\ task[k].ws \in Workspace
    BY <2>1, CalmTask, TouchesIs
  <2> QED BY <1>1, <2>1, <2>2, KnownAlone
<1>4. CASE SaveRun(k)
  <2>1. task[k] # None /\ task[k].kind = "save" /\ task' = [task EXCEPT ![k] = None]
    BY <1>4 DEF SaveRun, Finish
  <2>2. task[k].snap.ws \in Touches(task[k]) /\ task[k].snap.ws \in Workspace
    BY <2>1, CalmTask, TouchesIs
  <2> QED BY <1>1, <2>1, <2>2, KnownAlone
<1>5. CASE ExitWrite(k)
  <2>1. task[k] # None /\ task[k].kind = "exit" /\ task' = [task EXCEPT ![k] = None]
    BY <1>5 DEF ExitWrite, At, Finish
  <2>2. task[k].ws \in Touches(task[k]) /\ task[k].ws \in Workspace
    BY <2>1, CalmTask, TouchesIs
  <2> QED BY <1>1, <2>1, <2>2, KnownAlone
<1>6. CASE FlushSave(k)
  <2>1. task[k] # None /\ task[k].kind = "flush"
    BY <1>6 DEF FlushSave, At
  <2>2. PICK t, i : /\ task' = [task EXCEPT ![k] = t] /\ t.kind = "flush" /\ i \in DOMAIN task[k].batch
    BY <1>6, FlushSaveFits
  <2> DEFINE w == task[k].batch[i].snap.ws
  <2>3. w \in Touches(task[k]) /\ w \in Workspace
    BY <2>1, <2>2, CalmTask, TouchesIs
  <2> HIDE DEF w
  <2> QED BY <1>1, <2>2, <2>3, KnownAlone
<1> QED BY <1>2, <1>3, <1>4, <1>5, <1>6

\* So does what changes the panes on the screen.
LEMMA PanesKnown ==
  ASSUME TaskInv, NeverBlank, Calm, Known, NEW k \in Slot, ~disturbed',
         \/ \E p \in Pane : AddPane(p, k)
         \/ CloseActivePane(k)
         \/ \E w \in Workspace, p \in Pane : TerminalExit(w, p, k)
  PROVE  Known'
<1>1. CASE \E p \in Pane : AddPane(p, k)
  <2>1. PICK p \in Pane : AddPane(p, k)
    BY <1>1
  <2>2. task' = [task EXCEPT ![k] = SaveTask(shown')] /\ Use({active}) /\ active # None
    BY <2>1, AddPaneFits DEF AddPane
  <2>3. active \in Workspace /\ ~Busy(active)
    BY <2>2, StartsAlone DEF TaskInv, AppFits
  <2> QED BY <2>2, <2>3, KnownAlone DEF Busy, SaveTask
<1>2. CASE CloseActivePane(k)
  <2>1. PICK s : task' = [task EXCEPT ![k] = SaveTask(s)]
    BY <1>2, CloseFits
  <2>2. Use({shown.ws}) /\ shown # None
    BY <1>2 DEF CloseActivePane
  <2>3. shown.ws \in Workspace /\ ~Busy(shown.ws)
    BY <2>2, StartsAlone, ShownIs
  <2> QED BY <2>1, <2>3, KnownAlone DEF Busy, SaveTask
<1>3. CASE \E w \in Workspace, p \in Pane : TerminalExit(w, p, k)
  <2>1. PICK w \in Workspace, p \in Pane : TerminalExit(w, p, k)
    BY <1>3
  <2>2. Use({w})
    BY <2>1 DEF TerminalExit
  <2>3. ~Busy(w)
    BY <2>2, StartsAlone
  <2>4. PICK t : task' = [task EXCEPT ![k] = t] /\ t.kind \in {"save", "exit"}
    <3>1. \A s : SaveTask(s).kind = "save"
      BY DEF SaveTask
    <3>2. ExitTask(w, p).kind = "exit"
      BY DEF ExitTask
    <3> QED BY <2>1, <3>1, <3>2, TerminalExitFits
  <2> QED BY <2>3, <2>4, KnownAlone DEF Busy
<1> QED BY <1>1, <1>2, <1>3

\* The layout on the screen stays: opening and typing, and what tasks read.
LEMMA QuietKnown ==
  ASSUME TaskInv, Calm, Known, NEW k \in Slot,
         \/ LoadRead(k) \/ ExitRead(k) \/ FlushTake(k) \/ FlushSend(k) \/ FlushApply(k)
         \/ \E w \in Workspace : OpenWorkspace(w, k)
         \/ \E p \in Pane : SelectPane(p, k) \/ ActivateTerminal(p) \/ TypeLive(p) \/ TypeQueued(p, k)
         \/ NavigatePane(k)
  PROVE  Known'
<1>1. FlushTask.kind = "flush" /\ (\A s : SaveTask(s).kind = "save") /\ (\A w : LoadTask(w).kind = "load")
  BY DEF FlushTask, SaveTask, LoadTask
<1>2. task \in [Slot -> Tasks \cup {None}]
  BY DEF TaskInv, TasksFit
<1>3. CASE LoadRead(k)
  <2>1. SameOrNone /\ disk' = disk /\ jj' = jj
    BY <1>3 DEF LoadRead, app, world, SameOrNone
  <2> QED BY <1>3, <2>1, LoadReadFits, KnownQuiet
<1>4. CASE ExitRead(k)
  <2>1. /\ SameOrNone /\ disk' = disk /\ jj' = jj /\ task[k] # None /\ task[k].kind = "exit"
    BY <1>4 DEF ExitRead, At, app, world, SameOrNone
  <2>2. task[k] \in Exits
    BY <2>1, CalmTask, TaskKinds DEF TaskFit
  <2>3. PICK t : task' = [task EXCEPT ![k] = t] /\ (t # None => t.kind = "exit")
    <3> DEFINE t == [task[k] EXCEPT !.step = "write", !.snap = RemoveFromLayout(disk[task[k].ws], task[k].pane)]
    <3>1. t.kind = "exit"
      BY <2>2 DEF Exits
    <3>2. task' = [task EXCEPT ![k] = t] \/ task' = [task EXCEPT ![k] = None]
      BY <1>4 DEF ExitRead, Finish
    <3> QED BY <3>1, <3>2
  <2> QED BY <2>1, <2>3, KnownQuiet
<1>5. CASE FlushTake(k)
  <2>1. SameOrNone /\ disk' = disk /\ jj' = jj
    BY <1>5 DEF FlushTake, world, SameOrNone
  <2> QED BY <1>5, <2>1, FlushTakeFits, KnownQuiet
<1>6. CASE FlushSend(k)
  <2>1. SameOrNone /\ disk' = disk /\ jj' = jj
    BY <1>6 DEF FlushSend, app, SameOrNone
  <2> QED BY <1>6, <2>1, FlushSendFits, KnownQuiet
<1>7. CASE FlushApply(k)
  <2>1. SameOrNone /\ disk' = disk /\ jj' = jj /\ task' = [task EXCEPT ![k] = FlushTask]
    BY <1>7, FlushApplyFits DEF FlushApply, world, SameOrNone
  <2> QED BY <1>1, <2>1, KnownQuiet
<1>8. CASE \E w \in Workspace : OpenWorkspace(w, k)
  <2>1. PICK w \in Workspace : OpenWorkspace(w, k)
    BY <1>8
  <2>2. SameOrNone /\ disk' = disk /\ jj' = jj /\ task' = [task EXCEPT ![k] = LoadTask(w)]
    BY <2>1 DEF OpenWorkspace, Start, world, SameOrNone
  <2> QED BY <1>1, <2>2, KnownQuiet
<1>9. CASE \/ \E p \in Pane : SelectPane(p, k) \/ ActivateTerminal(p) \/ TypeLive(p)
           \/ NavigatePane(k)
  <2>1. SameOrNone
    BY <1>9, FocusStepFits DEF SameOrNone
  <2>2. disk' = disk /\ jj' = jj
    BY <1>9 DEF SelectPane, ActivateTerminal, TypeLive, NavigatePane, Focus, world
  <2>3. task' = task \/ \E s : task' = [task EXCEPT ![k] = SaveTask(s)]
    BY <1>9 DEF SelectPane, ActivateTerminal, TypeLive, NavigatePane, Focus, Start
  <2> QED BY <1>1, <2>1, <2>2, <2>3, KnownQuiet, KnownStays
<1>10. CASE \E p \in Pane : TypeQueued(p, k)
  <2>1. SameOrNone
    BY <1>10, TypeQueuedFits DEF SameOrNone
  <2>2. disk' = disk /\ jj' = jj /\ (task' = task \/ task' = [task EXCEPT ![k] = FlushTask])
    BY <1>10 DEF TypeQueued, Start, world
  <2> QED BY <1>1, <2>1, <2>2, KnownQuiet, KnownStays
<1> QED BY <1>3, <1>4, <1>5, <1>6, <1>7, <1>8, <1>9, <1>10

LEMMA NextKnown ==
  ASSUME TaskInv, NeverBlank, Calm, Owned, Known, [Next]_vars, ~disturbed'
  PROVE  Known'
<1>1. CASE UNCHANGED vars
  BY <1>1, KnownStays DEF vars, app, world, SameOrNone
<1>2. ASSUME NEW k \in Slot, TaskStep(k)
      PROVE  Known'
  <2>1. CASE LoadCreate(k) \/ LoadApply(k) \/ SaveRun(k) \/ ExitWrite(k) \/ FlushSave(k)
    BY <2>1, TasksKnown
  <2>2. CASE LoadRead(k) \/ ExitRead(k) \/ FlushTake(k) \/ FlushSend(k) \/ FlushApply(k)
    BY <2>2, QuietKnown
  <2>3. CASE LoadFail(k) \/ SaveFail(k) \/ ExitFail(k) \/ FlushFail(k) \/ ReloadFail(k)
    BY <2>3 DEF LoadFail, SaveFail, ExitFail, FlushFail, ReloadFail
  <2>4. CASE \/ CreateInJJ(k) \/ ForgetInJJ(k) \/ DeleteLayout(k) \/ DeleteRow(k)
             \/ CheckName(k) \/ RenameInJJ(k) \/ RenameCopy(k) \/ RenameRows(k)
    BY <2>4, JJStepKnown, DeleteLayoutKnown, RenameCopyKnown, RenameRowsKnown
  <2>5. CASE ReloadList(k) \/ ReloadUpsert(k) \/ ReloadRead(k) \/ ReloadCreate(k)
    BY <2>5, ReloadListKnown, ReloadCreateKnown
  <2>6. CASE ReloadApply(k)
    <3>1. task[k] # None /\ task[k].kind = "reload" /\ task' = [task EXCEPT ![k] = None]
      BY <2>6 DEF ReloadApply, At, Finish
    <3> QED BY <3>1, KnownRun
  <2> QED BY <1>2, <2>1, <2>2, <2>3, <2>4, <2>5, <2>6 DEF TaskStep
<1>3. CASE User
  <2>1. PICK k \in Slot :
    \/ \E w \in Workspace :
         OpenWorkspace(w, k) \/ CreateWorkspace(w, k) \/ ForgetWorkspace(w, k)
    \/ \E w, to \in Workspace : RenameWorkspace(w, to, k)
    \/ \E p \in Pane : AddPane(p, k) \/ SelectPane(p, k) \/ ActivateTerminal(p)
                        \/ TypeLive(p) \/ TypeQueued(p, k)
    \/ NavigatePane(k) \/ CloseActivePane(k) \/ Reload(k)
    BY <1>3 DEF User
  <2> HIDE DEF Known
  <2> QED BY <2>1, NavigateKnown, PanesKnown, QuietKnown
<1>4. CASE TerminalEvent
  <2>1. PICK p \in Pane : DrainOutput(p) \/ \E w \in Workspace, k \in Slot : TerminalExit(w, p, k)
    BY <1>4 DEF TerminalEvent
  <2>2. CASE DrainOutput(p)
    BY <2>2, DrainFits, KnownStays DEF DrainOutput, world, SameOrNone
  <2> QED BY <2>1, <2>2, PanesKnown
<1>5. ASSUME NEW s \in Shell, KillRun(s) \/ KillFail(s)
      PROVE  Known'
  BY <1>5, KnownStays DEF KillRun, KillFail, app, world, SameOrNone
<1> QED BY <1>1, <1>2, <1>3, <1>4, <1>5 DEF Next

LEMMA InitKnown ==
  ASSUME Init
  PROVE  Known
<1> DEFINE t == ReloadTask("start", "list", None, None, None)
<1>1. shown = None
  BY DEF Init
<1>2. PICK k \in Slot : task = [j \in Slot |-> IF j = k THEN t ELSE None]
  BY DEF Init
<1>3. t.op = "start"
  BY DEF ReloadTask
<1> HIDE DEF t
<1> QED BY <1>1, <1>2, <1>3 DEF Known, Knows, Renamed

\* Until operations on a workspace overlap, a layout that a navigation
\* operation takes off the screen is stored, under the new name if it renames
\* the workspace, or the workspace has left JJ (load_bootstrap_from_store,
\* rename_workspace).
THEOREM KnownUntilDisturbed == Spec => [](~disturbed => Known)
<1>1. Init => (~disturbed => Known)
  BY InitKnown
<1>2. TaskInv /\ NeverBlank /\ (~disturbed => Calm) /\ (~disturbed => Owned) /\ (~disturbed => Known)
      /\ [Next]_vars => (~disturbed => Known)'
  BY DisturbedStays, NextKnown
<1> QED BY <1>1, <1>2, AlwaysFits, NeverStaysBlank, CalmUntilDisturbed, OwnedUntilDisturbed, PTL DEF Spec

\* What LiveKeepsPane says of a step.
KeepsPanes ==
  \A key \in Key : live'[key] # None /\ ~Placed(key)' =>
    \/ key[1] \notin jj'
    \/ \E w \in Workspace : live[<<w, key[2]>>] # None /\ ~Placed(<<w, key[2]>>)

OnScreen(key) == shown # None /\ shown.ws = key[1] /\ key[2] \in Panes(shown)

LEMMA PlacedIs ==
  /\ \A key : Placed(key) <=> OnScreen(key) \/ Kept(key[1], key[2])
  /\ \A key : Placed(key)' <=> OnScreen(key)' \/ Kept(key[1], key[2])'
BY DEF Placed, OnScreen, Kept

LEMMA KeyIs ==
  ASSUME NEW key \in Key
  PROVE  key = <<key[1], key[2]>> /\ key[1] \in Workspace /\ key[2] \in Pane
BY DEF Key

\* A step that starts terminals only in panes on the screen.
LEMMA StepPlaced ==
  ASSUME \A key \in Key : live'[key] # None =>
           \/ OnScreen(key)'
           \/ /\ live[key] # None
              /\ key[1] \in jj' /\ OnScreen(key) => OnScreen(key)' \/ Kept(key[1], key[2])'
              /\ key[1] \in jj' /\ Kept(key[1], key[2]) => OnScreen(key)' \/ Kept(key[1], key[2])'
  PROVE  KeepsPanes
<1> SUFFICES ASSUME NEW key \in Key, live'[key] # None, ~Placed(key)', key[1] \in jj'
             PROVE  \E w \in Workspace : live[<<w, key[2]>>] # None /\ ~Placed(<<w, key[2]>>)
  BY DEF KeepsPanes
<1>1. live[key] # None /\ ~Placed(key)
  BY PlacedIs
<1> QED BY <1>1, KeyIs

\* The stored layouts stay, and so do the saves.
LEMMA KeptStays ==
  ASSUME TaskInv, NEW k \in Slot, NEW t, task' = [task EXCEPT ![k] = t], disk' = disk,
         task[k] = None \/ task[k].kind # "save"
  PROVE  \A w, p : Kept(w, p) => Kept(w, p)'
<1>1. \A j \in Slot : j # k => task'[j] = task[j]
  BY DEF TaskInv, TasksFit
<1> QED BY <1>1 DEF Kept

LEMMA SamePlaced ==
  ASSUME live' = live, shown' = shown \/ SameLayout, \A w, p : Kept(w, p) => Kept(w, p)'
  PROVE  KeepsPanes
<1>1. \A key : OnScreen(key) => OnScreen(key)'
  BY DEF OnScreen, SameLayout, Panes
<1> QED BY <1>1, StepPlaced

\* A layout is written that has the panes that are not closed.
LEMMA PutPlaced ==
  ASSUME TaskInv, Owned', PanesKept, NEW k \in Slot, NEW t, task' = [task EXCEPT ![k] = t],
         live' = live, shown' = shown, DOMAIN disk \subseteq DOMAIN disk',
         task[k] # None /\ task[k].kind = "save" =>
           task[k].snap.ws \in DOMAIN disk' /\ disk'[task[k].snap.ws] = task[k].snap
  PROVE  KeepsPanes
<1>1. \A j \in Slot : j # k => task'[j] = task[j]
  BY DEF TaskInv, TasksFit
<1>2. \A key : OnScreen(key) => OnScreen(key)'
  BY DEF OnScreen
<1>3. ASSUME NEW key \in Key, live'[key] # None, Kept(key[1], key[2])
      PROVE  Kept(key[1], key[2])'
  <2>1. key[2] \notin closed'
    BY <1>3 DEF Owned, LiveOpen
  <2>2. CASE key[1] \in DOMAIN disk /\ key[2] \in Panes(disk[key[1]])
    BY <2>1, <2>2 DEF PanesKept, Kept
  <2>3. CASE \E j \in Slot : /\ task[j] # None /\ task[j].kind = "save"
                             /\ task[j].snap.ws = key[1] /\ key[2] \in Panes(task[j].snap)
    BY <1>1, <2>3 DEF Kept
  <2> QED BY <1>3, <2>2, <2>3 DEF Kept
<1> QED BY <1>2, <1>3, StepPlaced

\* Unless a navigation operation is in flight, the panes on the screen are
\* stored or being saved.
LEMMA ShownKept ==
  ASSUME TaskInv, Calm, shown # None, \A j \in Slot : task[j] # None => task[j].kind # "reload",
         NEW p \in Panes(shown)
  PROVE  Kept(shown.ws, p)
<1> DEFINE w == shown.ws
<1>1. w \in Workspace
  BY ShownIs
<1>2. ASSUME StoredAs(shown, disk)
      PROVE  Kept(w, p)
  BY <1>2 DEF StoredAs, Kept, Panes
<1>3. ASSUME NEW x, x.ws = w, Agrees(x, shown, disk)
      PROVE  Kept(w, p)
  BY <1>2, <1>3 DEF Agrees, StoredAs
<1>4. CASE ~Busy(w)
  BY <1>1, <1>2, <1>4 DEF Calm
<1>5. CASE \E i \in DOMAIN pending : pending[i].snap.ws = w
  BY <1>3, <1>5 DEF Calm
<1>6. CASE \E j \in Slot : w \in Touches(task[j])
  <2>1. PICK j \in Slot : w \in Touches(task[j])
    BY <1>6
  <2> DEFINE r == task[j]
  <2>2. r # None
    BY <2>1 DEF Touches
  <2>3. TaskFit(r, used, strays) /\ TaskCalm(r, shown, disk, closed)
    BY <2>2, CalmTask
  <2>4. r.kind \in {"load", "save", "exit", "flush"}
    BY <2>2, <2>3, TaskKinds DEF TaskFit
  <2>5. CASE r.kind = "load"
    BY <2>1, <2>3, <2>5, TouchesIs DEF TaskCalm, Hidden
  <2>6. CASE r.kind = "save"
    <3>1. r.snap.ws = w /\ r.snap.columns = shown.columns
      BY <2>1, <2>3, <2>6, TouchesIs DEF TaskCalm
    <3>2. p \in Panes(r.snap)
      BY <3>1 DEF Panes
    <3> QED BY <2>2, <2>6, <3>1, <3>2 DEF Kept
  <2>7. CASE r.kind = "exit"
    BY <1>2, <2>1, <2>3, <2>7, TouchesIs DEF TaskCalm, Hidden
  <2>8. CASE r.kind = "flush"
    <3>1. PICK i \in DOMAIN r.batch : r.batch[i].snap.ws = w
      BY <2>1, <2>3, <2>8, TouchesIs
    <3>2. Agrees(r.batch[i].snap, shown, disk)
      BY <2>3, <2>8 DEF TaskCalm
    <3> QED BY <1>3, <3>1, <3>2
  <2> QED BY <2>4, <2>5, <2>6, <2>7, <2>8
<1> QED BY <1>4, <1>5, <1>6 DEF Busy

LEMMA OpenPlaced ==
  ASSUME TaskInv, Calm, NEW k \in Slot, NEW w \in Workspace, OpenWorkspace(w, k), ~disturbed'
  PROVE  KeepsPanes
<1>1. /\ task[k] = None /\ task' = [task EXCEPT ![k] = LoadTask(w)] /\ Use({w})
      /\ live' = live /\ disk' = disk
  BY DEF OpenWorkspace, Start, world
<1>2. ~Busy(w)
  BY <1>1, StartsAlone
<1>3. \A j \in Slot : task[j] # None => task[j].kind # "reload"
  BY <1>2, NoOperation DEF Busy
<1>4. \A v, p : Kept(v, p) => Kept(v, p)'
  BY <1>1, KeptStays
<1>5. \A key : OnScreen(key) => Kept(key[1], key[2])'
  BY <1>3, <1>4, ShownKept DEF OnScreen
<1> QED BY <1>1, <1>4, <1>5, StepPlaced

\* The workspace whose layout is shown has nothing on the screen before.
LEMMA LoadApplyPlaced ==
  ASSUME TaskInv, Calm, NEW k \in Slot, LoadApply(k)
  PROVE  KeepsPanes
<1> DEFINE w == task[k].ws
<1>1. /\ task[k] # None /\ task[k].kind = "load" /\ task[k].step = "apply"
      /\ task' = [task EXCEPT ![k] = None] /\ disk' = disk
  BY DEF LoadApply, At, Finish
<1>2. LoadAgrees(w, task[k], disk) /\ task[k].snap # None /\ Hidden(w, shown)
  BY <1>1, CalmTask DEF TaskCalm, TaskFit
<1>3. task[k].snap.ws = w
  BY <1>2 DEF LoadAgrees
<1>4. IF active = w THEN shown' # None /\ shown'.ws = w /\ Started(live, w, shown')
      ELSE shown' = shown /\ live' = live
  BY <1>3, LoadApplyFits
<1>5. \A v, p : Kept(v, p) => Kept(v, p)'
  BY <1>1, KeptStays
<1> HIDE DEF w
<1>6. CASE active # w
  BY <1>4, <1>5, <1>6, SamePlaced
<1>7. CASE active = w
  <2>1. shown = None
    BY <1>2, <1>7 DEF Calm, Hidden
  <2>2. \A key : ~OnScreen(key)
    BY <2>1 DEF OnScreen
  <2>3. \A key \in Key : live'[key] # None => OnScreen(key)' \/ live[key] # None
    BY <1>4, <1>7 DEF Started, OnScreen
  <2> QED BY <1>5, <2>2, <2>3, StepPlaced
<1> QED BY <1>6, <1>7

\* A pane that is added is on the screen.
LEMMA AddPanePlaced ==
  ASSUME TaskInv, NeverBlank, Calm, NEW k \in Slot, NEW p \in Pane, AddPane(p, k), ~disturbed'
  PROVE  KeepsPanes
<1>1. task[k] = None /\ disk' = disk
  BY DEF AddPane, Start
<1>2. shown # None /\ shown.ws = active
  BY AddPaneCalm
<1>3. /\ task' = [task EXCEPT ![k] = SaveTask(shown')] /\ shown' # None /\ shown'.ws = active
      /\ Panes(shown') = Panes(shown) \cup {p} /\ Started(live, active, shown')
  BY <1>2, AddPaneFits
<1>4. \A v, q : Kept(v, q) => Kept(v, q)'
  BY <1>1, <1>3, KeptStays
<1>5. \A key : OnScreen(key) => OnScreen(key)'
  BY <1>2, <1>3 DEF OnScreen
<1>6. \A key \in Key : live'[key] # None => OnScreen(key)' \/ live[key] # None
  BY <1>3 DEF Started, OnScreen
<1> QED BY <1>4, <1>5, <1>6, StepPlaced

\* Only a closed pane leaves the screen, and its terminal is gone.
LEMMA CloseExitPlaced ==
  ASSUME TaskInv, Calm, Owned', NEW k \in Slot,
         \/ CloseActivePane(k)
         \/ \E w \in Workspace, p \in Pane : TerminalExit(w, p, k)
  PROVE  KeepsPanes
<1>1. PICK t, p : /\ task[k] = None /\ task' = [task EXCEPT ![k] = t] /\ disk' = disk
                  /\ closed' = closed \cup {p}
                  /\ shown' = shown \/ (/\ shown # None /\ shown' # None /\ shown'.ws = shown.ws
                                        /\ Panes(shown) \ {p} \subseteq Panes(shown'))
                  /\ \A key \in Key : live'[key] # None => OnScreen(key)' \/ live[key] # None
  <2>1. CASE CloseActivePane(k)
    <3>1. PICK s : task' = [task EXCEPT ![k] = SaveTask(s)] /\ Panes(s) = Panes(shown) \ {shown.focus}
                   /\ shown'.columns = s.columns
      BY <2>1, CloseFits
    <3>2. /\ shown # None /\ shown' # None /\ shown'.ws = shown.ws
          /\ Started([live EXCEPT ![<<shown.ws, shown.focus>>] = None], active, shown')
      BY <2>1, CloseFits
    <3>3. task[k] = None /\ disk' = disk /\ closed' = closed \cup {shown.focus}
      BY <2>1 DEF CloseActivePane, Start
    <3>4. Panes(shown') = Panes(s)
      BY <3>1 DEF Panes
    <3>5. shown'.ws = active
      BY <3>2 DEF Calm
    <3>6. live \in [Key -> Shell \cup {None}]
      BY DEF TaskInv, AppFits, LiveFits
    <3>7. \A key \in Key : live'[key] # None => OnScreen(key)' \/ live[key] # None
      BY <3>2, <3>5, <3>6 DEF Started, OnScreen
    <3> QED BY <3>1, <3>2, <3>3, <3>4, <3>7
  <2>2. CASE \E w \in Workspace, p \in Pane : TerminalExit(w, p, k)
    <3>1. PICK w \in Workspace, p \in Pane : TerminalExit(w, p, k)
      BY <2>2
    <3>2. /\ task[k] = None /\ disk' = disk /\ closed' = closed \cup {p}
          /\ live' = [live EXCEPT ![<<w, p>>] = None]
      BY <3>1 DEF TerminalExit, Start
    <3>3. \A key \in Key : live'[key] # None => live[key] # None
      BY <3>2 DEF TaskInv, AppFits, LiveFits
    <3>4. CASE /\ shown # None /\ shown' # None /\ shown'.ws = shown.ws
               /\ task' = [task EXCEPT ![k] = SaveTask(shown')] /\ Panes(shown') = Panes(shown) \ {p}
      BY <3>2, <3>3, <3>4
    <3>5. CASE shown' = shown /\ task' = [task EXCEPT ![k] = ExitTask(w, p)]
      BY <3>2, <3>3, <3>5
    <3> QED BY <3>1, <3>4, <3>5, TerminalExitFits
  <2> QED BY <2>1, <2>2
<1>2. \A v, q : Kept(v, q) => Kept(v, q)'
  BY <1>1, KeptStays
<1>3. \A key \in Key : live'[key] # None => key[2] # p
  BY <1>1 DEF Owned, LiveOpen
<1>4. \A key \in Key : live'[key] # None /\ OnScreen(key) => OnScreen(key)'
  BY <1>1, <1>3 DEF OnScreen
<1> QED BY <1>1, <1>2, <1>4, StepPlaced

\* A stored layout goes with its workspace.
LEMMA RowsPlaced ==
  ASSUME TaskInv, Calm, Owned, Known, NEW k \in Slot, DeleteLayout(k) \/ RenameRows(k)
  PROVE  KeepsPanes
<1> DEFINE w == task[k].ws
<1>1. /\ task[k] # None /\ task[k].kind = "reload" /\ w \notin jj' /\ shown' = shown /\ live' = live
      /\ \A v \in DOMAIN disk : v # w => v \in DOMAIN disk' /\ disk'[v] = disk[v]
  <2>1. CASE DeleteLayout(k)
    <3>1. /\ task[k] # None /\ task[k].kind = "reload" /\ w \notin jj /\ jj' = jj /\ UNCHANGED app
          /\ DOMAIN disk' = DOMAIN disk \ {w} /\ \A v \in DOMAIN disk' : disk'[v] = disk[v]
      BY <2>1, DeleteLayoutKnown
    <3> HIDE DEF w
    <3> QED BY <3>1 DEF app
  <2>2. CASE RenameRows(k)
    <3>1. /\ task[k] # None /\ task[k].kind = "reload" /\ w \notin jj /\ jj' = jj /\ UNCHANGED app
          /\ \A v \in DOMAIN disk : v # w => v \in DOMAIN disk' /\ disk'[v] = disk[v]
      BY <2>2, RenameRowsKnown
    <3> HIDE DEF w
    <3> QED BY <3>1 DEF app
  <2> QED BY <2>1, <2>2
<1>2. \A v, p : Kept(v, p) <=> v \in DOMAIN disk /\ p \in Panes(disk[v])
  BY <1>1, ReloadAlone
<1>3. \A v, p : v # w /\ Kept(v, p) => Kept(v, p)'
  BY <1>1, <1>2 DEF Kept
<1>4. \A key : OnScreen(key) => OnScreen(key)'
  BY <1>1 DEF OnScreen
<1> QED BY <1>1, <1>3, <1>4, StepPlaced

\* The layout that leaves the screen is stored, or its workspace has left JJ;
\* after a rename it is stored under the name that the terminals take.
LEMMA ReloadApplyPlaced ==
  ASSUME TaskInv, Calm, Owned, Known, NEW k \in Slot, ReloadApply(k)
  PROVE  KeepsPanes
<1> DEFINE r == task[k]
           from == r.ws
           to == r.to
           lives == IF r.op = "rename" THEN RekeyLive(from, to) ELSE live
<1>1. /\ r # None /\ r.kind = "reload" /\ r.step = "apply"
      /\ task' = [task EXCEPT ![k] = None] /\ disk' = disk /\ jj' = jj
  BY DEF ReloadApply, At, Finish
<1>2. Knows(r, shown, disk, jj)
  BY <1>1 DEF Known
<1>3. \A v, p : Kept(v, p) => v \in DOMAIN disk /\ p \in Panes(disk[v])
  BY <1>1, ReloadAlone
<1>4. \A v, p : v \in DOMAIN disk /\ p \in Panes(disk[v]) => Kept(v, p)'
  BY <1>1 DEF Kept
<1>5. \A key \in Key : live'[key] # None => OnScreen(key)' \/ lives[key] # None
  <2>1. live' = lives \/ (shown' # None /\ Started(lives, r.want, shown'))
    BY ReloadApplyFits
  <2>2. shown' # None => shown'.ws = r.want
    <3>1. r.want # None => r.snap.ws = r.want
      BY <1>1, CalmTask DEF TaskCalm, LoadAgrees, TaskFit
    <3> QED BY <3>1, ReloadApplyFits
  <2> HIDE DEF lives
  <2> QED BY <2>1, <2>2 DEF Started, OnScreen
<1>6. ASSUME NEW key, OnScreen(key), key[1] \in jj'
      PROVE  Kept(key[1], key[2])'
  <2>1. shown # None /\ shown.ws = key[1] /\ key[2] \in Panes(shown)
    BY <1>6 DEF OnScreen
  <2>2. StoredAs(shown, disk)
    BY <1>1, <1>2, <1>6, <2>1 DEF Knows
  <2> QED BY <1>4, <2>1, <2>2 DEF StoredAs, Panes
<1>7. CASE r.op # "rename"
  <2>1. lives = live
    BY <1>7
  <2> HIDE DEF lives
  <2> QED BY <1>3, <1>4, <1>5, <1>6, <2>1, StepPlaced
<1>8. CASE r.op = "rename"
  <2>1. lives = RekeyLive(from, to) /\ Renamed(r) /\ from \in Workspace
    BY <1>1, <1>8, OperationIs DEF Renamed
  <2>2. /\ from \notin DOMAIN disk
        /\ shown # None /\ shown.ws = from => to \in DOMAIN disk /\ disk[to].columns = shown.columns
    BY <1>2, <2>1 DEF Knows
  <2> SUFFICES ASSUME NEW key \in Key, live'[key] # None, ~Placed(key)', key[1] \in jj'
               PROVE  \E w \in Workspace : live[<<w, key[2]>>] # None /\ ~Placed(<<w, key[2]>>)
    BY DEF KeepsPanes
  <2>3. ~OnScreen(key)' /\ ~Kept(key[1], key[2])'
    BY PlacedIs
  <2>4. ~Placed(key)
    BY <1>3, <1>4, <1>6, <2>3, PlacedIs
  <2>5. RekeyLive(from, to)[<<key[1], key[2]>>] # None
    BY <1>5, <2>1, <2>3, KeyIs
  <2> HIDE DEF from, to, lives
  <2>6. live[<<key[1], key[2]>>] # None \/ (key[1] = to /\ live[<<from, key[2]>>] # None)
    BY <2>1, <2>5, KeyIs, RekeyIs
  <2>7. CASE live[<<key[1], key[2]>>] # None
    BY <2>4, <2>7, KeyIs
  <2>8. CASE key[1] = to /\ live[<<from, key[2]>>] # None
    <3>1. ~Kept(from, key[2])
      BY <1>3, <2>2
    <3>2. ~OnScreen(<<from, key[2]>>)
      <4>1. ASSUME shown # None, shown.ws = from, key[2] \in Panes(shown)
            PROVE  FALSE
        <5>1. to \in DOMAIN disk /\ key[2] \in Panes(disk[to])
          BY <2>2, <4>1 DEF Panes
        <5> QED BY <1>4, <2>3, <2>8, <5>1
      <4> QED BY <4>1 DEF OnScreen
    <3>3. ~Placed(<<from, key[2]>>)
      BY <3>1, <3>2, PlacedIs
    <3> QED BY <2>1, <2>8, <3>3
  <2> QED BY <2>6, <2>7, <2>8
<1> QED BY <1>7, <1>8

LEMMA NextPlaced ==
  ASSUME TaskInv, NeverBlank, Calm, Owned, Known, [Next]_vars, ~disturbed'
  PROVE  KeepsPanes
<1>1. Owned' /\ PanesKept
  BY NextOwned, NextKeepsPanes
<1> HIDE DEF Owned
<1>2. CASE UNCHANGED vars
  <2>1. \A v, p : Kept(v, p) => Kept(v, p)'
    BY <1>2 DEF vars, world, Kept
  <2> QED BY <1>2, <2>1, SamePlaced DEF vars, app
\* Steps that leave tasks, store and terminals alone.
<1>3. ASSUME shown' = shown \/ SameLayout, UNCHANGED <<live, task, disk>>
      PROVE  KeepsPanes
  <2>1. \A v, p : Kept(v, p) => Kept(v, p)'
    BY <1>3 DEF Kept
  <2> QED BY <1>3, <2>1, SamePlaced
\* Steps of one task that leave store and terminals alone.
<1>4. ASSUME NEW k \in Slot, NEW t, task' = [task EXCEPT ![k] = t], task[k] = None \/ task[k].kind # "save",
             shown' = shown \/ SameLayout, UNCHANGED <<live, disk>>
      PROVE  KeepsPanes
  <2>1. \A v, p : Kept(v, p) => Kept(v, p)'
    BY <1>4, KeptStays
  <2> QED BY <1>4, <2>1, SamePlaced
<1>5. ASSUME NEW k \in Slot, TaskStep(k)
      PROVE  KeepsPanes
  <2>1. CASE LoadRead(k)
    <3>1. task[k].kind # "save" /\ UNCHANGED <<shown, live, disk>>
      BY <2>1 DEF LoadRead, At, app, world
    <3> QED BY <1>4, <2>1, <3>1, LoadReadFits
  <2>2. CASE LoadCreate(k)
    <3>1. task[k].kind # "save" /\ live' = live /\ shown' = shown /\ disk' = Put(task[k].snap)
      BY <2>2 DEF LoadCreate, At, app
    <3>2. PICK t : task' = [task EXCEPT ![k] = t]
      BY <2>2, LoadCreateFits
    <3> QED BY <1>1, <3>1, <3>2, PutIs, PutPlaced
  <2>3. CASE LoadApply(k)
    BY <2>3, LoadApplyPlaced
  <2>4. CASE SaveRun(k)
    <3>1. /\ live' = live /\ shown' = shown /\ disk' = Put(task[k].snap)
          /\ task' = [task EXCEPT ![k] = None]
      BY <2>4 DEF SaveRun, Finish, app
    <3> QED BY <1>1, <3>1, PutIs, PutPlaced
  <2>5. CASE ExitRead(k)
    <3>1. task[k].kind # "save" /\ UNCHANGED <<shown, live, disk>>
      BY <2>5 DEF ExitRead, At, app, world
    <3>2. \E t : task' = [task EXCEPT ![k] = t]
      BY <2>5 DEF ExitRead, Finish
    <3> QED BY <1>4, <3>1, <3>2
  <2>6. CASE ExitWrite(k)
    <3>1. /\ task[k].kind # "save" /\ live' = live /\ shown' = shown /\ disk' = Put(task[k].snap)
          /\ task' = [task EXCEPT ![k] = None]
      BY <2>6 DEF ExitWrite, At, Finish, app
    <3> QED BY <1>1, <3>1, PutIs, PutPlaced
  <2>7. CASE FlushTake(k)
    <3>1. task[k].kind # "save" /\ UNCHANGED <<shown, live, disk>>
      BY <2>7 DEF FlushTake, At, world
    <3> QED BY <1>4, <2>7, <3>1, FlushTakeFits
  <2>8. CASE FlushSend(k)
    <3>1. task[k].kind # "save" /\ UNCHANGED <<shown, live, disk>>
      BY <2>8 DEF FlushSend, At, app
    <3> QED BY <1>4, <2>8, <3>1, FlushSendFits
  <2>9. CASE FlushSave(k)
    <3>1. task[k].kind # "save" /\ live' = live /\ shown' = shown
      BY <2>9 DEF FlushSave, At, app
    <3>2. PICK t, s : task' = [task EXCEPT ![k] = t] /\ disk' = Put(s)
      BY <2>9, FlushSaveFits
    <3> QED BY <1>1, <3>1, <3>2, PutIs, PutPlaced
  <2>10. CASE FlushApply(k)
    <3>1. task[k].kind # "save" /\ UNCHANGED <<live, disk>> /\ task' = [task EXCEPT ![k] = FlushTask]
      BY <2>10 DEF FlushApply, At, world
    <3>2. shown' = shown \/ SameLayout
      BY <2>10, FlushApplyFits
    <3> QED BY <1>4, <3>1, <3>2
  <2>11. CASE LoadFail(k) \/ SaveFail(k) \/ ExitFail(k) \/ FlushFail(k) \/ ReloadFail(k)
    BY <2>11 DEF LoadFail, SaveFail, ExitFail, FlushFail, ReloadFail
  <2>12. CASE \/ CreateInJJ(k) \/ ForgetInJJ(k) \/ DeleteRow(k) \/ CheckName(k) \/ RenameInJJ(k)
    <3>1. /\ task[k].kind # "save" /\ UNCHANGED <<shown, live, disk>>
          /\ \E next : task' = [task EXCEPT ![k].step = next]
      BY <2>12 DEF CreateInJJ, ForgetInJJ, DeleteRow, CheckName, RenameInJJ, Step, At, app
    <3>2. \E t : task' = [task EXCEPT ![k] = t]
      BY <3>1
    <3> QED BY <1>4, <3>1, <3>2
  <2>13. CASE RenameCopy(k) \/ ReloadList(k) \/ ReloadUpsert(k) \/ ReloadRead(k)
    <3>1. task[k].kind # "save" /\ UNCHANGED <<shown, live, disk>>
      BY <2>13 DEF RenameCopy, ReloadList, ReloadUpsert, ReloadRead, At, app, world
    <3>2. \E t : task' = [task EXCEPT ![k] = t]
      <4>1. CASE RenameCopy(k)
        BY <4>1, RenameCopyFits
      <4>2. CASE ReloadList(k)
        BY <4>2, ReloadListFits
      <4>3. CASE ReloadUpsert(k)
        BY <4>3, ReloadUpsertFits
      <4>4. CASE ReloadRead(k)
        BY <4>4, ReloadReadFits
      <4> QED BY <2>13, <4>1, <4>2, <4>3, <4>4
    <3> QED BY <1>4, <3>1, <3>2
  <2>14. CASE DeleteLayout(k) \/ RenameRows(k)
    BY <2>14, RowsPlaced
  <2>15. CASE ReloadCreate(k)
    <3>1. task[k].kind # "save" /\ live' = live /\ shown' = shown /\ disk' = Put(task[k].snap)
      BY <2>15 DEF ReloadCreate, At, app
    <3>2. PICK t : task' = [task EXCEPT ![k] = t]
      BY <2>15, ReloadCreateFits
    <3>3. /\ DOMAIN disk' = DOMAIN disk \cup {task[k].snap.ws} /\ disk'[task[k].snap.ws] = task[k].snap
          /\ \A w \in DOMAIN disk : w # task[k].snap.ws => disk'[w] = disk[w]
      BY <3>1, PutIs
    <3> QED BY <1>1, <3>1, <3>2, <3>3, PutPlaced
  <2>16. CASE ReloadApply(k)
    BY <2>16, ReloadApplyPlaced
  <2> QED BY <1>5, <2>1, <2>2, <2>3, <2>4, <2>5, <2>6, <2>7, <2>8, <2>9, <2>10, <2>11, <2>12, <2>13,
             <2>14, <2>15, <2>16 DEF TaskStep
<1>6. CASE User
  <2>1. PICK k \in Slot :
    \/ \E w \in Workspace :
         OpenWorkspace(w, k) \/ CreateWorkspace(w, k) \/ ForgetWorkspace(w, k)
    \/ \E w, to \in Workspace : RenameWorkspace(w, to, k)
    \/ \E p \in Pane : AddPane(p, k) \/ SelectPane(p, k) \/ ActivateTerminal(p)
                        \/ TypeLive(p) \/ TypeQueued(p, k)
    \/ NavigatePane(k) \/ CloseActivePane(k) \/ Reload(k)
    BY <1>6 DEF User
  <2>2. CASE \/ Reload(k)
             \/ \E w \in Workspace : CreateWorkspace(w, k) \/ ForgetWorkspace(w, k)
             \/ \E w, to \in Workspace : RenameWorkspace(w, to, k)
    <3>1. PICK op, step, w, to, want : Navigate(k, op, step, w, to, want)
      BY <2>2 DEF Reload, CreateWorkspace, ForgetWorkspace, RenameWorkspace
    <3>2. task[k] = None /\ UNCHANGED <<shown, live, disk>> /\ \E t : task' = [task EXCEPT ![k] = t]
      BY <3>1 DEF Navigate, Start, app, world
    <3> QED BY <1>4, <3>2
  <2>3. CASE \/ \E p \in Pane : SelectPane(p, k) \/ ActivateTerminal(p) \/ TypeLive(p)
             \/ NavigatePane(k)
    <3>1. SameLayout
      BY <2>3, FocusStepFits
    <3>2. UNCHANGED <<live, disk>>
      BY <2>3 DEF SelectPane, NavigatePane, Focus, ActivateTerminal, TypeLive, world
    <3>3. task' = task \/ (task[k] = None /\ \E t : task' = [task EXCEPT ![k] = t])
      BY <2>3 DEF SelectPane, NavigatePane, Focus, ActivateTerminal, TypeLive, Start
    <3> QED BY <1>3, <1>4, <3>1, <3>2, <3>3
  <2>4. CASE \E p \in Pane : TypeQueued(p, k)
    <3>1. SameLayout
      BY <2>4, TypeQueuedFits
    <3>2. UNCHANGED <<live, disk>>
      BY <2>4 DEF TypeQueued, world
    <3>3. task' = task \/ (task[k] = None /\ \E t : task' = [task EXCEPT ![k] = t])
      BY <2>4 DEF TypeQueued, Start
    <3> QED BY <1>3, <1>4, <3>1, <3>2, <3>3
  <2> QED BY <1>1, <2>1, <2>2, <2>3, <2>4, OpenPlaced, AddPanePlaced, CloseExitPlaced
<1>7. CASE TerminalEvent
  <2>1. PICK p \in Pane : DrainOutput(p) \/ \E w \in Workspace, k \in Slot : TerminalExit(w, p, k)
    BY <1>7 DEF TerminalEvent
  <2>2. CASE DrainOutput(p)
    BY <1>3, <2>2, DrainFits DEF DrainOutput, world
  <2> QED BY <1>1, <2>1, <2>2, CloseExitPlaced
<1>8. ASSUME NEW s \in Shell, KillRun(s) \/ KillFail(s)
      PROVE  KeepsPanes
  <2>1. shown' = shown /\ UNCHANGED <<live, task, disk>>
    BY <1>8 DEF KillRun, KillFail, app, world
  <2> QED BY <1>3, <2>1
<1> QED BY <1>2, <1>5, <1>6, <1>7, <1>8 DEF Next

\* A terminal that runs has its pane in a layout of its workspace, on the screen,
\* in the store or being saved, until the workspace leaves JJ: no save, load,
\* rename or reload takes the one without the other, until operations on a
\* workspace overlap.
THEOREM LiveTerminalsKeepPanes == Spec => LiveKeepsPane
<1>1. /\ TaskInv /\ NeverBlank /\ (~disturbed => Calm) /\ (~disturbed => Owned) /\ (~disturbed => Known)
      /\ [Next]_vars
      => [~disturbed' => \A key \in Key : live'[key] # None /\ ~Placed(key)' =>
            \/ key[1] \notin jj'
            \/ \E w \in Workspace : live[<<w, key[2]>>] # None /\ ~Placed(<<w, key[2]>>)]_vars
  BY DisturbedStays, NextPlaced DEF KeepsPanes
<1> QED BY <1>1, AlwaysFits, NeverStaysBlank, CalmUntilDisturbed, OwnedUntilDisturbed, KnownUntilDisturbed,
           PTL DEF Spec, LiveKeepsPane
=============================================================================
