------------------------- MODULE LiveTerminal_proofs -------------------------
(* Theorems about LiveTerminal: the run loop does not sleep on input, no row  *)
(* that is shown is stale without a reason, no older picture comes back, and  *)
(* every key is written once.                                                 *)
EXTENDS LiveTerminal, FiniteSetTheorems, FunctionTheorems, SequenceTheorems, TLAPS

Kind == {"key", "view", "shutdown"}
Snap == [rows : [Rows -> Int], damage : SUBSET Rows]
Optional == {<<>>} \cup {<<s>> : s \in Snap}

TypeInv ==
  /\ commands \in Seq(Kind) /\ output \in Seq(Rows)
  /\ content \in [Rows -> Int] /\ hashes \in [Rows -> Int]
  /\ snapshots \in Seq(Snap) /\ pending \in Optional /\ latest \in Optional
  /\ cache \in [Rows -> Int] /\ lost \subseteq Rows

\* What came after the last drain has a wake, also while its snapshot is made.
SleepInv ==
  pc \in {"wait", "show"} =>
    /\ Len(commands) > left.commands => woken \/ hand = "wake"
    /\ Len(output) > left.output => woken \/ reader = "wake"

\* The rows that the next snapshot of the runtime is compared with.
Blanks == [r \in Rows |-> Blank]
Shown ==
  IF pending # <<>> THEN pending[1].rows
  ELSE IF latest # <<>> THEN latest[1].rows ELSE Blanks

ShownInv ==
  /\ latest = <<>> => pending = <<>> /\ ~frame /\ cache = Blanks
  /\ closed => latest = <<>> /\ snapshots = <<>>

\* The damage of the snapshots that are on their way tells, for each of them,
\* every row in which it may differ from what the interface has.
DamageInv ==
  ~closed =>
    /\ hashes = IF snapshots = <<>> THEN Shown ELSE snapshots[Len(snapshots)].rows
    /\ \A i \in 1 .. Len(snapshots), r \in Rows :
         (\A k \in 1 .. i : r \notin snapshots[k].damage) => snapshots[i].rows[r] = Shown[r]
    /\ pending # <<>> =>
         \A r \in Rows : r \notin pending[1].damage /\ r \notin lost
                           => pending[1].rows[r] = latest[1].rows[r]

Inv == TypeInv /\ SleepInv /\ ShownInv /\ DamageInv /\ StaleIfReplaced

-----------------------------------------------------------------------------
(* The helpers of the model.                                                  *)

LEMMA RestOf ==
  ASSUME NEW S, NEW s \in Seq(S), NEW n \in Nat, n <= Len(s)
  PROVE  Rest(s, n) \in Seq(S) /\ (Rest(s, n) # <<>> => n < Len(s))
<1>1. Len(s) \in Nat /\ \A i \in 1 .. Len(s) : s[i] \in S
  BY LenProperties, ElementOfSeq
<1>2. n + 1 \in Int /\ Len(s) \in Int /\ \A i \in n + 1 .. Len(s) : s[i] \in S
  BY <1>1
<1>3. /\ SubSeq(s, n + 1, Len(s)) \in Seq(S)
      /\ Len(SubSeq(s, n + 1, Len(s))) = IF n + 1 <= Len(s) THEN Len(s) - (n + 1) + 1 ELSE 0
  BY <1>2, SubSeqProperties
<1>4. Rest(s, n) \in Seq(S)
  BY <1>3 DEF Rest
<1>5. ASSUME n = Len(s) PROVE Rest(s, n) = <<>>
  <2>1. Len(Rest(s, n)) = 0
    BY <1>1, <1>3, <1>5 DEF Rest
  <2> QED BY <1>4, <2>1, EmptySeq
<1> QED BY <1>1, <1>4, <1>5

LEMMA CountType ==
  ASSUME NEW S, NEW s \in Seq(S), NEW x
  PROVE  Count(s, x) \in Nat
<1>1. Len(s) \in Nat
  BY LenProperties
<1>2. IsFiniteSet(1 .. Len(s))
  BY <1>1, FS_Interval
<1>3. IsFiniteSet({i \in 1 .. Len(s) : s[i] = x})
  BY <1>2, FS_Subset
<1> QED BY <1>3, FS_CardinalityType DEF Count

LEMMA FirstOf ==
  ASSUME NEW S, NEW s \in Seq(S), NEW n \in Nat, n <= Len(s)
  PROVE  First(s, n) \in Seq(S)
<1>1. Len(s) \in Nat /\ \A i \in 1 .. Len(s) : s[i] \in S
  BY LenProperties, ElementOfSeq
<1>2. \A i \in 1 .. n : s[i] \in S
  BY <1>1
<1> QED BY <1>2, SubSeqProperties DEF First

LEMMA LeastOf ==
  ASSUME NEW a \in Nat, NEW b \in Nat
  PROVE  Least(a, b) \in Nat /\ Least(a, b) <= a
BY DEF Least

\* What a drain leaves, and what it makes of the terminal.
LEMMA DrainLeaves ==
  ASSUME TypeInv, Drain
  PROVE  /\ commands' \in Seq(Kind) /\ output' \in Seq(Rows) /\ content' \in [Rows -> Int]
         /\ left' = [commands |-> Len(commands'), output |-> Len(output')]
<1> USE LiveAssumption DEF TypeInv
<1> DEFINE k == Least(Len(commands), MAX_CONTROL_COMMANDS_PER_TICK)
           m == Least(Len(output), MAX_PTY_OUTPUT_CHUNKS_PER_TICK)
           now == First(commands, k)
           seen(n) == IF Count(now, "shutdown") > 0 THEN <<>> ELSE First(output, n)
           views == Count(now, "view")
<1>1. PICK n \in 0 .. m :
        /\ commands' = Rest(commands, k)
        /\ output' = Rest(output, n)
        /\ left' = [commands |-> Len(commands'), output |-> Len(output')]
        /\ content' = [r \in Rows |-> content[r] + views + Count(seen(n), r)]
  BY DEF Drain
<1>2. Len(commands) \in Nat /\ Len(output) \in Nat
  BY LenProperties
<1>3. k \in Nat /\ k <= Len(commands) /\ m \in Nat /\ m <= Len(output)
  BY <1>2, LeastOf
<1>4. n \in Nat /\ n <= Len(output)
  BY <1>2, <1>3
<1> HIDE DEF k, m
<1>5. /\ Rest(commands, k) \in Seq(Kind) /\ (Rest(commands, k) # <<>> => k < Len(commands))
      /\ Rest(output, n) \in Seq(Rows) /\ (Rest(output, n) # <<>> => n < Len(output))
  BY <1>3, <1>4, RestOf
<1>6. now \in Seq(Kind) /\ seen(n) \in Seq(Rows)
  BY <1>3, <1>4, FirstOf, EmptySeq
<1> HIDE DEF now, seen
<1>7. views \in Int /\ \A r \in Rows : Count(seen(n), r) \in Int
  BY <1>6, CountType
<1> HIDE DEF views
<1>8. content' \in [Rows -> Int]
  BY <1>1, <1>7
<1> QED BY <1>1, <1>5, <1>8

\* A snapshot is kept with the others, or there is none.
LEMMA SnapshotAdds ==
  ASSUME TypeInv, Finish
  PROVE  \/ UNCHANGED <<snapshots, hashes>>
         \/ closed /\ snapshots' = <<>> /\ hashes' = content
         \/ /\ ~closed /\ hashes' = content
            /\ snapshots' = Append(snapshots,
                 [rows |-> content, damage |-> {r \in Rows : hashes[r] # content[r]}])
BY DEF Finish, Snapshot

LEMMA CoalescedOf ==
  ASSUME TypeInv, snapshots # <<>>
  PROVE  /\ Len(snapshots) \in Nat \ {0}
         /\ Coalesced(snapshots) \in Snap
         /\ Coalesced(snapshots).rows = snapshots[Len(snapshots)].rows
         /\ \A r \in Rows : r \notin Coalesced(snapshots).damage =>
              \A k \in 1 .. Len(snapshots) : r \notin snapshots[k].damage
<1>1. Len(snapshots) \in Nat \ {0} /\ \A i \in 1 .. Len(snapshots) : snapshots[i] \in Snap
  BY EmptySeq, LenProperties, ElementOfSeq DEF TypeInv
<1>2. snapshots[Len(snapshots)] \in Snap
  BY <1>1
<1>3. \A i \in 1 .. Len(snapshots) : snapshots[i].damage \subseteq Rows
  BY <1>1 DEF Snap
<1>4. Damage(snapshots) \subseteq Rows
  BY <1>3 DEF Damage
<1> QED BY <1>1, <1>2, <1>4 DEF Coalesced, Snap, Damage

\* What a notification has to present: it is shown, or it waits.
Upcoming == IF snapshots = <<>> THEN pending ELSE <<Coalesced(snapshots)>>

LEMMA PresentShows ==
  ASSUME TypeInv, Present
  PROVE  /\ ~closed /\ ~closed' /\ snapshots' = <<>> /\ UNCHANGED <<runtime, cache>>
         /\ \/ /\ Upcoming # <<>> /\ latest' = Upcoming /\ pending' = <<>> /\ frame' = TRUE
               /\ lost' = ((IF snapshots = <<>> THEN lost ELSE lost \cup Damage(pending))
                             \cup (IF frame THEN Damage(latest) ELSE {})) \ Damage(Upcoming)
            \/ /\ Upcoming = <<>> \/ latest # <<>>
               /\ pending' = Upcoming /\ UNCHANGED <<latest, frame>>
               /\ lost' = IF snapshots = <<>> THEN lost ELSE lost \cup Damage(pending)
BY DEF Present, Defer, Upcoming, handle

LEMMA UpcomingType ==
  ASSUME TypeInv
  PROVE  Upcoming \in Optional
BY CoalescedOf DEF TypeInv, Upcoming, Optional

LEMMA DamageOfOne ==
  ASSUME NEW some \in Optional
  PROVE  /\ Damage(some) \subseteq Rows
         /\ some = <<>> => Damage(some) = {}
         /\ some # <<>> => some[1] \in Snap /\ some = <<some[1]>> /\ Damage(some) = some[1].damage
<1>1. CASE some = <<>>
  BY <1>1, EmptySeq DEF Damage
<1>2. ASSUME NEW s \in Snap, some = <<s>>
      PROVE  some[1] = s /\ Damage(some) = s.damage /\ s.damage \subseteq Rows /\ some # <<>>
  <2>1. Len(some) = 1 /\ some[1] = s
    BY <1>2
  <2>2. Damage(some) = UNION {some[i].damage : i \in 1 .. 1}
    BY <2>1 DEF Damage
  <2>3. {some[i].damage : i \in 1 .. 1} = {s.damage}
    BY <2>1
  <2>4. some # <<>>
    BY <2>1, EmptySeq
  <2>5. s.damage \subseteq Rows
    BY DEF Snap
  <2> QED BY <2>1, <2>2, <2>3, <2>4, <2>5
<1> QED BY <1>1, <1>2 DEF Optional

-----------------------------------------------------------------------------
(* The steps.                                                                 *)

LEMMA RemoveTypes ==
  ASSUME TypeInv, Remove, UNCHANGED <<pty, runtime>>
  PROVE  TypeInv'
<1>1. commands' \in Seq(Kind)
  <2>1. "shutdown" \in Kind
    BY DEF Kind
  <2> QED BY <2>1, AppendProperties DEF Remove, TypeInv
<1>2. snapshots' \in Seq(Snap) /\ pending' \in Optional /\ latest' \in Optional
  BY EmptySeq DEF Remove, Optional
<1>3. cache' \in [Rows -> Int]
  BY DEF Remove, Blank
<1> QED BY <1>1, <1>2, <1>3 DEF Remove, TypeInv, pty, runtime

LEMMA TypeStep ==
  ASSUME TypeInv, ShownInv, [Next]_vars
  PROVE  TypeInv'
<1>1. ASSUME NEW kind \in {"key", "view"}, Send(kind)
      PROVE  TypeInv'
  <2>1. kind \in Kind
    BY DEF Kind
  <2>2. commands' \in Seq(Kind)
    BY <1>1, <2>1, AppendProperties DEF Send, TypeInv
  <2> QED BY <1>1, <2>2 DEF Send, TypeInv, pty, runtime, channels, view
<1>2. CASE Drop \/ PresentExit
  BY <1>2, RemoveTypes DEF Drop, PresentExit
<1>3. CASE SendWake \/ WakeForOutput \/ Exit \/ Wake \/ TimeOut
  BY <1>3 DEF SendWake, WakeForOutput, Exit, Wake, TimeOut, TypeInv, handle, pty, runtime, channels, view
<1>4. CASE TakeOutput
  <2>1. PICK r \in Rows : output' = Append(output, r)
    BY <1>4 DEF TakeOutput
  <2>2. output' \in Seq(Rows)
    BY <2>1, AppendProperties DEF TypeInv
  <2> QED BY <1>4, <2>2 DEF TakeOutput, TypeInv, handle, runtime, channels, view
<1>5. CASE Drain
  <2>1. commands' \in Seq(Kind) /\ output' \in Seq(Rows) /\ content' \in [Rows -> Int]
    BY <1>5, DrainLeaves
  <2>2. UNCHANGED <<hashes, channels, view>>
    BY <1>5 DEF Drain
  <2> QED BY <2>1, <2>2 DEF TypeInv, channels, view
<1>6. CASE Finish
  <2> DEFINE s == [rows |-> content, damage |-> {r \in Rows : hashes[r] # content[r]}]
  <2>1. s \in Snap
    BY DEF TypeInv, Snap
  <2> HIDE DEF s
  <2>2. Append(snapshots, s) \in Seq(Snap) /\ <<>> \in Seq(Snap)
    BY <2>1, AppendProperties, EmptySeq DEF TypeInv
  <2>3. snapshots' \in Seq(Snap) /\ hashes' \in [Rows -> Int]
    BY <1>6, <2>2, SnapshotAdds DEF s, TypeInv
  <2> QED BY <1>6, <2>3 DEF Finish, TypeInv, handle, pty, view
<1>7. CASE Present
  <2>1. snapshots' \in Seq(Snap) /\ pending' \in Optional /\ latest' \in Optional
    BY <1>7, PresentShows, UpcomingType, EmptySeq DEF TypeInv, Optional
  <2>2. Damage(pending) \subseteq Rows /\ Damage(latest) \subseteq Rows
    BY DamageOfOne DEF TypeInv
  <2>3. lost' \subseteq Rows
    BY <1>7, <2>2, PresentShows DEF TypeInv
  <2> QED BY <1>7, <2>1, <2>3 DEF Present, TypeInv, handle, pty, runtime
<1>8. CASE Paint
  <2>1. latest # <<>> /\ latest[1].rows \in [Rows -> Int]
    BY <1>8, DamageOfOne DEF Paint, ShownInv, TypeInv, Snap
  <2>2. cache' \in [Rows -> Int]
    BY <1>8, <2>1 DEF Paint, TypeInv
  <2>3. lost' \subseteq Rows
    BY <1>8 DEF Paint, TypeInv
  <2> QED BY <1>8, <2>2, <2>3 DEF Paint, TypeInv, handle, pty, runtime, channels
<1>9. CASE UNCHANGED vars
  BY <1>9 DEF vars, TypeInv, handle, pty, runtime, channels, view
<1> QED BY <1>1, <1>2, <1>3, <1>4, <1>5, <1>6, <1>7, <1>8, <1>9 DEF Next

LEMMA SleepStep ==
  ASSUME TypeInv, SleepInv, [Next]_vars
  PROVE  SleepInv'
<1> USE DEF SleepInv
<1>1. CASE Drain
  <2>1. left' = [commands |-> Len(commands'), output |-> Len(output')]
    BY <1>1, DrainLeaves
  <2>2. Len(commands)' \in Nat /\ Len(output)' \in Nat
    BY <1>1, DrainLeaves, LenProperties
  <2> QED BY <2>1, <2>2
<1>2. ASSUME NEW kind \in {"key", "view"}, Send(kind)
      PROVE  SleepInv'
  BY <1>2 DEF Send, pty, runtime
<1>3. CASE Drop \/ PresentExit
  BY <1>3 DEF Drop, PresentExit, Remove, pty, runtime
<1>4. CASE SendWake \/ TakeOutput \/ WakeForOutput \/ Exit
  BY <1>4 DEF SendWake, TakeOutput, WakeForOutput, Exit, handle, pty, runtime
<1>5. CASE Wake \/ TimeOut
  BY <1>5 DEF Wake, TimeOut
<1>6. CASE Finish
  BY <1>6 DEF Finish, handle, pty
<1>7. CASE Present \/ Paint
  BY <1>7 DEF Present, Paint, handle, pty, runtime
<1>8. CASE UNCHANGED vars
  BY <1>8 DEF vars, handle, pty, runtime
<1> QED BY <1>1, <1>2, <1>3, <1>4, <1>5, <1>6, <1>7, <1>8 DEF Next

\* Nothing that the interface shows is touched by the other steps.
LEMMA ViewSame ==
  ASSUME [Next]_vars, ~ (Drop \/ PresentExit \/ Present \/ Paint \/ Finish)
  PROVE  UNCHANGED <<view, snapshots, hashes, closed>>
BY DEF Next, vars, Send, SendWake, TakeOutput, WakeForOutput, Exit, Wake, TimeOut, Drain,
       handle, runtime, channels

LEMMA ShownStep ==
  ASSUME TypeInv, ShownInv, [Next]_vars
  PROVE  ShownInv'
<1> USE DEF ShownInv
<1>1. CASE Drop \/ PresentExit
  BY <1>1 DEF Drop, PresentExit, Remove, Blanks
<1>2. CASE Present
  <2>1. /\ ~closed' /\ UNCHANGED cache
        /\ \/ Upcoming # <<>> /\ latest' = Upcoming
           \/ (Upcoming = <<>> \/ latest # <<>>) /\ pending' = Upcoming /\ UNCHANGED <<latest, frame>>
    BY <1>2, PresentShows
  <2> QED BY <2>1 DEF Blanks
<1>3. CASE Paint
  BY <1>3 DEF Paint, handle, channels
<1>4. CASE Finish
  BY <1>4, SnapshotAdds DEF Finish, view, handle
<1>5. CASE ~ (Drop \/ PresentExit \/ Present \/ Paint \/ Finish)
  BY <1>5, ViewSame DEF view
<1> QED BY <1>1, <1>2, <1>3, <1>4, <1>5

\* What the snapshots and the pending one make of the rows.
LEMMA UpcomingRows ==
  ASSUME TypeInv, ShownInv, DamageInv, ~closed, Upcoming # <<>>, NEW r \in Rows,
         r \notin Damage(Upcoming)
  PROVE  Upcoming[1].rows[r] = Shown[r]
<1>1. CASE snapshots = <<>>
  BY <1>1 DEF Upcoming, Shown
<1>2. CASE snapshots # <<>>
  <2>1. Upcoming = <<Coalesced(snapshots)>> /\ Upcoming[1] = Coalesced(snapshots)
    BY <1>2 DEF Upcoming
  <2>2. r \notin Coalesced(snapshots).damage
    BY <2>1, DamageOfOne, UpcomingType
  <2>3. Len(snapshots) \in Nat \ {0} /\ \A k \in 1 .. Len(snapshots) : r \notin snapshots[k].damage
    BY <1>2, <2>2, CoalescedOf
  <2>4. snapshots[Len(snapshots)].rows[r] = Shown[r]
    BY <2>3 DEF DamageInv
  <2> QED BY <1>2, <2>1, <2>4, CoalescedOf
<1> QED BY <1>1, <1>2

\* A row that was not damaged since the interface got it is still the same.
LEMMA ShownIsLatest ==
  ASSUME TypeInv, DamageInv, ~closed, latest # <<>>, NEW r \in Rows,
         r \notin lost, r \notin Damage(pending)
  PROVE  Shown[r] = latest[1].rows[r]
<1>1. CASE pending = <<>>
  BY <1>1 DEF Shown
<1>2. CASE pending # <<>>
  <2>1. r \notin pending[1].damage
    BY <1>2, DamageOfOne DEF TypeInv
  <2> QED BY <1>2, <2>1 DEF Shown, DamageInv
<1> QED BY <1>1, <1>2

LEMMA DamageStep ==
  ASSUME TypeInv, ShownInv, DamageInv, [Next]_vars
  PROVE  DamageInv'
<1>1. CASE Drop \/ PresentExit
  BY <1>1 DEF Drop, PresentExit, Remove, DamageInv
<1>2. CASE ~ (Drop \/ PresentExit \/ Present \/ Paint \/ Finish)
  BY <1>2, ViewSame DEF DamageInv, view, Shown, Blanks
<1>3. CASE Paint
  <2>1. UNCHANGED <<snapshots, hashes, closed, pending, latest>>
    BY <1>3 DEF Paint, handle, runtime, channels
  <2>2. pending # <<>> => lost' = lost
    BY <1>3 DEF Paint
  <2>3. Shown' = Shown
    BY <2>1 DEF Shown, Blanks
  <2> QED BY <2>1, <2>2, <2>3 DEF DamageInv
<1>4. CASE Present
  <2>1. /\ ~closed /\ snapshots' = <<>> /\ UNCHANGED hashes
        /\ \/ Upcoming # <<>> /\ latest' = Upcoming /\ pending' = <<>>
           \/ /\ Upcoming = <<>> \/ latest # <<>>
              /\ pending' = Upcoming /\ UNCHANGED latest
              /\ lost' = IF snapshots = <<>> THEN lost ELSE lost \cup Damage(pending)
    BY <1>4, PresentShows DEF runtime
  <2>2. hashes = IF Upcoming # <<>> THEN Upcoming[1].rows
                 ELSE IF latest # <<>> THEN latest[1].rows ELSE Blanks
    <3>1. CASE snapshots = <<>>
      BY <2>1, <3>1 DEF Upcoming, DamageInv, Shown
    <3>2. CASE snapshots # <<>>
      <4>1. Upcoming # <<>> /\ Upcoming[1] = Coalesced(snapshots)
        BY <3>2 DEF Upcoming
      <4> QED BY <2>1, <3>2, <4>1, CoalescedOf DEF DamageInv
    <3> QED BY <3>1, <3>2
  <2>3. hashes' = Shown'
    BY <2>1, <2>2 DEF Shown, Blanks
  <2>4. ASSUME pending' # <<>>, NEW r \in Rows, r \notin pending'[1].damage, r \notin lost'
        PROVE  pending'[1].rows[r] = latest'[1].rows[r]
    <3>1. /\ pending' = Upcoming /\ Upcoming # <<>> /\ latest # <<>> /\ latest' = latest
          /\ lost' = IF snapshots = <<>> THEN lost ELSE lost \cup Damage(pending)
      BY <2>1, <2>4
    <3>2. r \notin Damage(Upcoming)
      BY <2>4, <3>1, UpcomingType, DamageOfOne
    <3>3. r \notin lost /\ r \notin Damage(pending)
      <4>1. CASE snapshots = <<>>
        BY <2>4, <3>1, <3>2, <4>1 DEF Upcoming
      <4>2. CASE snapshots # <<>>
        BY <2>4, <3>1, <4>2
      <4> QED BY <4>1, <4>2
    <3> QED BY <2>1, <3>1, <3>2, <3>3, UpcomingRows, ShownIsLatest
  <2>5. \A i \in 1 .. Len(snapshots') : FALSE
    BY <2>1, EmptySeq
  <2> QED BY <2>1, <2>3, <2>4, <2>5 DEF DamageInv
<1>5. CASE Finish
  <2>1. UNCHANGED <<pending, latest, lost, closed>> /\ UNCHANGED Shown
    BY <1>5 DEF Finish, view, handle, Shown, Blanks
  <2> DEFINE s == [rows |-> content, damage |-> {r \in Rows : hashes[r] # content[r]}]
             n == Len(snapshots)
  <2>2. CASE UNCHANGED <<snapshots, hashes>>
    BY <2>1, <2>2 DEF DamageInv
  <2>3. CASE ~closed /\ hashes' = content /\ snapshots' = Append(snapshots, s)
    <3>1. s \in Snap
      BY DEF TypeInv, Snap
    <3>2. s.rows = content /\ \A r \in Rows : r \notin s.damage => content[r] = hashes[r]
      OBVIOUS
    <3> HIDE DEF s
    <3>3. /\ n \in Nat /\ Len(snapshots') = n + 1 /\ snapshots'[n + 1] = s /\ snapshots' # <<>>
          /\ \A i \in 1 .. n : snapshots'[i] = snapshots[i]
      <4>1. snapshots \in Seq(Snap)
        BY DEF TypeInv
      <4>2. /\ Append(snapshots, s) # <<>> /\ Len(Append(snapshots, s)) = Len(snapshots) + 1
            /\ \A i \in 1 .. Len(snapshots) : Append(snapshots, s)[i] = snapshots[i]
            /\ Append(snapshots, s)[Len(snapshots) + 1] = s
        BY <3>1, <4>1, AppendProperties
      <4>3. n \in Nat
        BY <4>1, LenProperties
      <4>4. snapshots' = Append(snapshots, s)
        BY <2>3 DEF s
      <4> QED BY <4>2, <4>3, <4>4
    <3> HIDE DEF n
    <3>4. /\ hashes = IF snapshots = <<>> THEN Shown ELSE snapshots[n].rows
          /\ \A i \in 1 .. n, r \in Rows :
               (\A k \in 1 .. i : r \notin snapshots[k].damage) => snapshots[i].rows[r] = Shown[r]
      BY <2>3 DEF DamageInv, n
    <3>5. hashes' = snapshots'[Len(snapshots')].rows
      BY <2>3, <3>2, <3>3
    <3>6. ASSUME NEW i \in 1 .. n + 1, NEW r \in Rows,
                 \A k \in 1 .. i : r \notin snapshots'[k].damage
          PROVE  snapshots'[i].rows[r] = Shown[r]
      <4>1. CASE i \in 1 .. n
        <5>1. \A k \in 1 .. i : k \in 1 .. n /\ snapshots'[k] = snapshots[k]
          BY <3>3, <4>1
        <5> QED BY <3>4, <3>6, <4>1, <5>1
      <4>2. CASE i = n + 1
        <5>1. r \notin s.damage
          BY <3>3, <3>6, <4>2
        <5>2. snapshots'[i].rows[r] = hashes[r]
          BY <3>2, <3>3, <4>2, <5>1
        <5>3. CASE snapshots = <<>>
          BY <3>4, <5>2, <5>3
        <5>4. CASE snapshots # <<>>
          <6>1. n \in 1 .. n /\ \A k \in 1 .. n : k \in 1 .. i
            BY <3>3, <4>2, <5>4, EmptySeq DEF n, TypeInv
          <6>2. \A k \in 1 .. n : r \notin snapshots[k].damage
            BY <3>3, <3>6, <6>1
          <6> QED BY <3>4, <5>2, <5>4, <6>1, <6>2
        <5> QED BY <5>3, <5>4
      <4> QED BY <3>3, <4>1, <4>2
    <3> QED BY <2>1, <2>3, <3>3, <3>5, <3>6 DEF DamageInv
  <2> QED BY <1>5, <2>1, <2>2, <2>3, SnapshotAdds DEF DamageInv
<1> QED BY <1>1, <1>2, <1>3, <1>4, <1>5

LEMMA StaleStep ==
  ASSUME Inv, [Next]_vars
  PROVE  StaleIfReplaced'
<1> USE DEF Inv
<1>1. CASE Drop \/ PresentExit
  BY <1>1 DEF Drop, PresentExit, Remove, StaleIfReplaced
<1>2. CASE ~ (Drop \/ PresentExit \/ Present \/ Paint \/ Finish)
  BY <1>2, ViewSame DEF view, StaleIfReplaced, Damage
<1>3. CASE Finish
  BY <1>3 DEF Finish, view, StaleIfReplaced, Damage
<1>4. CASE Paint
  <2>1. /\ UNCHANGED latest /\ frame /\ latest # <<>>
        /\ \A r \in Rows : r \in Damage(latest) \/ cache[r] = Blank =>
             cache'[r] = latest[1].rows[r]
        /\ \A r \in Rows : ~ (r \in Damage(latest) \/ cache[r] = Blank) =>
             cache'[r] = cache[r] /\ (r \in lost => r \in lost')
    BY <1>4 DEF Paint, ShownInv
  <2> QED BY <2>1 DEF StaleIfReplaced
<1>5. CASE Present
  <2>1. CASE /\ Upcoming = <<>> \/ latest # <<>>
             /\ UNCHANGED <<latest, frame, cache>>
             /\ lost' = IF snapshots = <<>> THEN lost ELSE lost \cup Damage(pending)
    BY <2>1 DEF StaleIfReplaced, Damage
  <2>2. CASE /\ Upcoming # <<>> /\ latest' = Upcoming /\ frame' = TRUE /\ UNCHANGED cache
             /\ lost' = ((IF snapshots = <<>> THEN lost ELSE lost \cup Damage(pending))
                          \cup (IF frame THEN Damage(latest) ELSE {})) \ Damage(Upcoming)
    <3> SUFFICES ASSUME NEW r \in Rows, cache[r] # Upcoming[1].rows[r],
                        r \notin lost', r \notin Damage(Upcoming), cache[r] # Blank
                 PROVE  FALSE
      <4>1. Damage(latest') = Damage(Upcoming)
        BY <2>2
      <4> QED BY <2>2, <4>1 DEF StaleIfReplaced
    <3>1. latest # <<>>
      <4> SUFFICES ASSUME latest = <<>> PROVE FALSE
        OBVIOUS
      <4>1. cache = Blanks
        BY DEF ShownInv
      <4> QED BY <4>1 DEF Blanks
    <3>2. r \notin lost /\ (frame => r \notin Damage(latest)) /\ r \notin Damage(pending)
      <4>1. CASE snapshots = <<>>
        BY <2>2, <4>1 DEF Upcoming
      <4>2. CASE snapshots # <<>>
        BY <2>2, <4>2
      <4> QED BY <4>1, <4>2
    <3>3. cache[r] = latest[1].rows[r]
      BY <3>1, <3>2 DEF StaleIfReplaced
    <3>4. Upcoming[1].rows[r] = Shown[r] /\ Shown[r] = latest[1].rows[r]
      BY <1>5, <2>2, <3>1, <3>2, PresentShows, UpcomingRows, ShownIsLatest
    <3> QED BY <3>3, <3>4
  <2> QED BY <1>5, <2>1, <2>2, PresentShows
<1> QED BY <1>1, <1>2, <1>3, <1>4, <1>5

LEMMA Starts ==
  ASSUME Init
  PROVE  Inv
<1>1. TypeInv
  BY EmptySeq DEF Init, TypeInv, Optional, Blank
<1>2. DamageInv
  <2>1. \A i \in 1 .. Len(snapshots) : FALSE
    BY EmptySeq DEF Init
  <2> QED BY <2>1 DEF Init, DamageInv, Shown, Blanks
<1> QED BY <1>1, <1>2 DEF Init, Inv, SleepInv, ShownInv, StaleIfReplaced, Blanks

LEMMA Invariant == Spec => []Inv
<1>1. Inv /\ [Next]_vars => Inv'
  BY TypeStep, SleepStep, ShownStep, DamageStep, StaleStep DEF Inv
<1> QED BY <1>1, Starts, PTL DEF Spec

\* The loop waits only when it has nothing to do or has been woken, for any
\* caps, any rows and any number of commands and chunks of output.
THEOREM TheLoopIsWoken == Spec => []NothingSleeps
<1>1. Inv => NothingSleeps
  BY DEF Inv, SleepInv, NothingSleeps
<1> QED BY <1>1, Invariant, PTL

\* No coalescing, pacing or frame loses the damage of a row: what the cache shows
\* of the presented snapshot is right or repainted, or its damage was replaced.
THEOREM DamageArrives == Spec => []StaleIfReplaced
<1>1. Inv => StaleIfReplaced
  BY DEF Inv
<1> QED BY <1>1, Invariant, PTL

-----------------------------------------------------------------------------
(* Pictures move forward, and every key is written once.                      *)

\* The picture of the terminal that is shown never goes back to an older one,
\* whichever snapshot was pending when newer ones came (app_live_terminals.rs 346).
PicturesMoveOn ==
  [][latest # <<>> /\ latest' # <<>> =>
       \A r \in Rows : latest[1].rows[r] <= latest'[1].rows[r]]_vars

\* While the loop runs, every key that was sent is written or is in the channel:
\* the caps neither lose one nor write one twice (live_runtime.rs 75).
KeysKept == Running => typed = written + Count(commands, "key")

Older(old, new) == \A r \in Rows : old[r] <= new[r]

\* The snapshots in their order: shown, pending, the last one made, the terminal.
ForwardInv ==
  ~closed =>
    /\ latest # <<>> => Older(latest[1].rows, Shown)
    /\ Older(Shown, hashes) /\ Older(hashes, content)

LEMMA OlderStill ==
  ASSUME NEW a \in [Rows -> Int], NEW b \in [Rows -> Int], NEW c \in [Rows -> Int],
         Older(a, b), Older(b, c)
  PROVE  Older(a, c) /\ Older(a, a)
<1>1. \A r \in Rows : a[r] \in Int /\ b[r] \in Int /\ c[r] \in Int
  OBVIOUS
<1> QED BY <1>1 DEF Older

LEMMA ShownType ==
  ASSUME TypeInv
  PROVE  /\ Shown \in [Rows -> Int]
         /\ Upcoming # <<>> => Upcoming[1].rows \in [Rows -> Int]
         /\ latest # <<>> => latest[1].rows \in [Rows -> Int]
<1>1. \A o \in Optional : o # <<>> => o[1].rows \in [Rows -> Int]
  BY DEF Optional, Snap
<1>2. Blanks \in [Rows -> Int]
  BY DEF Blanks, Blank
<1> QED BY <1>1, <1>2, UpcomingType DEF TypeInv, Shown

\* What the next notification presents is the last snapshot, or the pending one.
LEMMA UpcomingIsNext ==
  ASSUME TypeInv, DamageInv, ForwardInv, ~closed, Upcoming # <<>>
  PROVE  /\ Older(Shown, Upcoming[1].rows) /\ Upcoming[1].rows = hashes
         /\ latest # <<>> => Older(latest[1].rows, Upcoming[1].rows)
<1>1. Upcoming[1].rows = hashes
  <2>1. CASE snapshots = <<>>
    BY <2>1 DEF Upcoming, DamageInv, Shown
  <2>2. CASE snapshots # <<>>
    <3>1. Upcoming[1] = Coalesced(snapshots)
      BY <2>2 DEF Upcoming
    <3> QED BY <2>2, <3>1, CoalescedOf DEF DamageInv
  <2> QED BY <2>1, <2>2
<1>2. Older(Shown, hashes) /\ (latest # <<>> => Older(latest[1].rows, Shown))
  BY DEF ForwardInv
<1>3. hashes \in [Rows -> Int] /\ Shown \in [Rows -> Int]
      /\ (latest # <<>> => latest[1].rows \in [Rows -> Int])
  BY ShownType DEF TypeInv
<1> QED BY <1>1, <1>2, <1>3, OlderStill

LEMMA ContentGrows ==
  ASSUME TypeInv, [Next]_vars
  PROVE  Older(content, content')
<1>1. CASE Drain
  <2> DEFINE now == First(commands, Least(Len(commands), MAX_CONTROL_COMMANDS_PER_TICK))
             seen(n) == IF Count(now, "shutdown") > 0 THEN <<>> ELSE First(output, n)
             views == Count(now, "view")
  <2>1. PICK n \in 0 .. Least(Len(output), MAX_PTY_OUTPUT_CHUNKS_PER_TICK) :
          content' = [r \in Rows |-> content[r] + views + Count(seen(n), r)]
    BY <1>1 DEF Drain
  <2>2. now \in Seq(Kind) /\ seen(n) \in Seq(Rows)
    <3>1. Len(commands) \in Nat /\ Len(output) \in Nat
      BY LenProperties DEF TypeInv
    <3>2. /\ Least(Len(commands), MAX_CONTROL_COMMANDS_PER_TICK) \in Nat
          /\ Least(Len(commands), MAX_CONTROL_COMMANDS_PER_TICK) <= Len(commands)
          /\ Least(Len(output), MAX_PTY_OUTPUT_CHUNKS_PER_TICK) \in Nat
          /\ Least(Len(output), MAX_PTY_OUTPUT_CHUNKS_PER_TICK) <= Len(output)
      BY <3>1, LeastOf, LiveAssumption
    <3>3. n \in Nat /\ n <= Len(output)
      BY <3>1, <3>2
    <3>4. now \in Seq(Kind) /\ First(output, n) \in Seq(Rows)
      BY <3>2, <3>3, FirstOf DEF TypeInv
    <3> QED BY <3>4, EmptySeq
  <2> HIDE DEF now, seen
  <2>3. views \in Nat /\ \A r \in Rows : Count(seen(n), r) \in Nat
    BY <2>2, CountType
  <2> HIDE DEF views
  <2>4. \A r \in Rows : content[r] \in Int /\ content'[r] = content[r] + views + Count(seen(n), r)
    BY <2>1 DEF TypeInv
  <2> QED BY <2>3, <2>4 DEF Older
<1>2. CASE ~Drain
  <2>1. content' = content
    BY <1>2 DEF Next, vars, handle, pty, runtime, Send, Drop, SendWake, TakeOutput,
       WakeForOutput, Exit, Wake, TimeOut, Finish, Present, PresentExit, Paint
  <2> QED BY <2>1, OlderStill DEF TypeInv, Older
<1> QED BY <1>1, <1>2

LEMMA ForwardStep ==
  ASSUME TypeInv, TypeInv', ShownInv, DamageInv, ForwardInv, [Next]_vars
  PROVE  /\ ForwardInv'
         /\ latest # <<>> /\ latest' # <<>> => Older(latest[1].rows, latest'[1].rows)
<1>1. /\ content \in [Rows -> Int] /\ content' \in [Rows -> Int] /\ hashes \in [Rows -> Int]
      /\ Older(content, content') /\ Shown \in [Rows -> Int]
      /\ latest # <<>> => latest[1].rows \in [Rows -> Int]
  BY ContentGrows, ShownType DEF TypeInv
<1>2. ~closed => Older(hashes, content') /\ Older(Shown, content)
  BY <1>1, OlderStill DEF ForwardInv
<1>3. ASSUME UNCHANGED <<pending, latest, closed, hashes>>
      PROVE  /\ ForwardInv'
             /\ latest # <<>> /\ latest' # <<>> => Older(latest[1].rows, latest'[1].rows)
  <2>1. Shown' = Shown
    BY <1>3 DEF Shown, Blanks
  <2> QED BY <1>1, <1>2, <1>3, <2>1, OlderStill DEF ForwardInv, Older
<1>4. CASE Drop \/ PresentExit
  BY <1>4 DEF Drop, PresentExit, Remove, ForwardInv
<1>5. CASE Present
  <2>1. /\ ~closed /\ UNCHANGED <<hashes, content>>
        /\ \/ Upcoming # <<>> /\ latest' = Upcoming /\ pending' = <<>>
           \/ /\ Upcoming = <<>> \/ latest # <<>>
              /\ pending' = Upcoming /\ UNCHANGED latest
    BY <1>5, PresentShows DEF runtime
  <2>2. CASE Upcoming # <<>> /\ latest' = Upcoming /\ pending' = <<>>
    <3>1. Shown' = Upcoming[1].rows
      BY <2>2 DEF Shown
    <3>2. Upcoming[1].rows = hashes /\ (latest # <<>> => Older(latest[1].rows, Upcoming[1].rows))
      BY <2>1, <2>2, UpcomingIsNext
    <3> QED BY <1>1, <1>2, <2>1, <2>2, <3>1, <3>2, OlderStill DEF ForwardInv
  <2>3. CASE Upcoming # <<>> /\ latest # <<>> /\ pending' = Upcoming /\ UNCHANGED latest
    <3>1. Shown' = Upcoming[1].rows
      BY <2>3 DEF Shown
    <3>2. Upcoming[1].rows = hashes /\ Older(latest[1].rows, Upcoming[1].rows)
      BY <2>1, <2>3, UpcomingIsNext
    <3> QED BY <1>1, <1>2, <2>1, <2>3, <3>1, <3>2, OlderStill DEF ForwardInv
  <2>4. CASE Upcoming = <<>> /\ pending' = Upcoming /\ UNCHANGED latest
    <3>1. pending = <<>>
      BY <2>4 DEF Upcoming
    <3>2. Shown' = Shown
      BY <2>4, <3>1 DEF Shown, Blanks
    <3> QED BY <1>1, <1>2, <2>1, <2>4, <3>2, OlderStill DEF ForwardInv
  <2> QED BY <2>1, <2>2, <2>3, <2>4
<1>6. CASE Paint
  BY <1>3, <1>6 DEF Paint, handle, runtime
<1>7. CASE Finish
  <2>1. UNCHANGED <<pending, latest, closed, content>> /\ Shown' = Shown
    BY <1>7 DEF Finish, view, handle, Shown, Blanks
  <2>2. hashes' = hashes \/ hashes' = content
    BY <1>7, SnapshotAdds
  <2>3. CASE hashes' = hashes
    BY <1>3, <2>1, <2>3
  <2>4. CASE hashes' = content
    <3>1. ~closed => Older(Shown', hashes') /\ Older(hashes', content')
      BY <1>1, <1>2, <2>1, <2>4, OlderStill
    <3>2. latest # <<>> => Older(latest[1].rows, latest[1].rows)
      BY <1>1 DEF Older
    <3>3. ~closed => (latest # <<>> => Older(latest[1].rows, Shown))
      BY DEF ForwardInv
    <3>4. ForwardInv'
      BY <2>1, <3>1, <3>3 DEF ForwardInv
    <3> QED BY <2>1, <3>2, <3>4
  <2> QED BY <2>2, <2>3, <2>4
<1>8. CASE ~ (Drop \/ PresentExit \/ Present \/ Paint \/ Finish)
  BY <1>3, <1>8, ViewSame DEF view
<1> QED BY <1>4, <1>5, <1>6, <1>7, <1>8

\* No snapshot that waited is shown after a newer one, for any rows, caps and
\* pacing.
THEOREM NoPictureReturns == Spec => PicturesMoveOn
<1>1. Init => ForwardInv
  <2>1. Init => /\ Shown = Blanks /\ hashes = Blanks /\ latest = <<>>
                /\ content = [r \in Rows |-> 0]
    BY DEF Init, Shown, Blanks
  <2> QED BY <2>1 DEF ForwardInv, Older, Blanks, Blank
<1>2. Inv /\ Inv' /\ ForwardInv /\ [Next]_vars =>
        /\ ForwardInv'
        /\ [latest # <<>> /\ latest' # <<>> =>
              \A r \in Rows : latest[1].rows[r] <= latest'[1].rows[r]]_vars
  BY ForwardStep DEF Inv, Older
<1> QED BY <1>1, <1>2, Invariant, PTL DEF Spec, PicturesMoveOn

\* A sequence that is cut, and one with another element.
LEMMA CountCut ==
  ASSUME NEW S, NEW s \in Seq(S), NEW n \in Nat, n <= Len(s), NEW x
  PROVE  Count(s, x) = Count(First(s, n), x) + Count(Rest(s, n), x)
<1> DEFINE A == {i \in 1 .. n : s[i] = x}
           B == {i \in n + 1 .. Len(s) : s[i] = x}
           C == {i \in 1 .. Len(s) - n : s[i + n] = x}
<1>1. Len(s) \in Nat /\ \A i \in 1 .. Len(s) : s[i] \in S
  BY LenProperties, ElementOfSeq
<1>2. IsFiniteSet(A) /\ IsFiniteSet(B) /\ IsFiniteSet(C)
  <2>1. IsFiniteSet(1 .. n) /\ IsFiniteSet(n + 1 .. Len(s)) /\ IsFiniteSet(1 .. Len(s) - n)
    BY <1>1, FS_Interval
  <2> QED BY <2>1, FS_Subset
<1>3. Count(s, x) = Cardinality(A) + Cardinality(B)
  <2>1. {i \in 1 .. Len(s) : s[i] = x} = A \cup B
    BY <1>1
  <2>2. A \cap B = {}
    BY <1>1
  <2>3. Cardinality(A \cup B) = Cardinality(A) + Cardinality(B) - Cardinality({})
    BY <1>2, <2>2, FS_Union
  <2>4. Cardinality({}) = 0 /\ Cardinality(A) \in Nat /\ Cardinality(B) \in Nat
    BY <1>2, FS_EmptySet, FS_CardinalityType
  <2>5. Count(s, x) = Cardinality(A \cup B)
    BY <2>1 DEF Count
  <2> HIDE DEF A, B
  <2> QED BY <2>3, <2>4, <2>5
<1>4. Count(First(s, n), x) = Cardinality(A)
  <2>1. /\ Len(SubSeq(s, 1, n)) = IF 1 <= n THEN n - 1 + 1 ELSE 0
        /\ \A i \in 1 .. n - 1 + 1 : SubSeq(s, 1, n)[i] = s[1 + i - 1]
    BY <1>1, SubSeqProperties
  <2>2. Len(First(s, n)) = n /\ \A i \in 1 .. n : First(s, n)[i] = s[i]
    BY <1>1, <2>1 DEF First
  <2>3. {i \in 1 .. n : First(s, n)[i] = x} = A
    BY <2>2
  <2> QED BY <2>2, <2>3 DEF Count
<1>5. Count(Rest(s, n), x) = Cardinality(C)
  <2>1. \A i \in n + 1 .. Len(s) : s[i] \in S
    BY <1>1
  <2>2. n + 1 \in Int /\ Len(s) \in Int
    BY <1>1
  <2>3. /\ Len(SubSeq(s, n + 1, Len(s))) = IF n + 1 <= Len(s) THEN Len(s) - (n + 1) + 1 ELSE 0
        /\ \A i \in 1 .. Len(s) - (n + 1) + 1 : SubSeq(s, n + 1, Len(s))[i] = s[n + 1 + i - 1]
    BY <2>1, <2>2, SubSeqProperties
  <2>4. Len(Rest(s, n)) = Len(s) - n /\ \A i \in 1 .. Len(s) - n : Rest(s, n)[i] = s[i + n]
    BY <1>1, <2>3 DEF Rest
  <2>5. {i \in 1 .. Len(s) - n : Rest(s, n)[i] = x} = C
    BY <2>4
  <2> QED BY <2>4, <2>5 DEF Count
<1>6. Cardinality(B) = Cardinality(C)
  <2> DEFINE f == [i \in C |-> i + n]
  <2>1. f \in Bijection(C, B)
    <3>1. f \in [C -> B]
      BY <1>1
    <3>2. \A i, j \in C : f[i] = f[j] => i = j
      BY <1>1
    <3>3. \A j \in B : j - n \in C /\ f[j - n] = j
      BY <1>1
    <3> HIDE DEF f, B, C
    <3> QED BY <3>1, <3>2, <3>3, Fun_IsBij
  <2>2. ExistsBijection(C, B)
    BY <2>1 DEF ExistsBijection
  <2> QED BY <1>2, <2>2, FS_Bijection
<1> QED BY <1>3, <1>4, <1>5, <1>6

LEMMA CountAppended ==
  ASSUME NEW S, NEW s \in Seq(S), NEW e \in S, NEW x
  PROVE  Count(Append(s, e), x) = Count(s, x) + (IF e = x THEN 1 ELSE 0)
<1> DEFINE n == Len(s)
           t == Append(s, e)
           A == {i \in 1 .. n : s[i] = x}
<1>1. n \in Nat /\ Len(t) = n + 1 /\ t[n + 1] = e /\ \A i \in 1 .. n : t[i] = s[i]
  BY LenProperties, AppendProperties
<1>2. IsFiniteSet(A) /\ Cardinality(A) \in Nat
  <2>1. IsFiniteSet(1 .. n)
    BY <1>1, FS_Interval
  <2>2. A \in SUBSET (1 .. n)
    OBVIOUS
  <2> HIDE DEF A
  <2>3. IsFiniteSet(A)
    BY <2>1, <2>2, FS_Subset
  <2> QED BY <2>3, FS_CardinalityType
<1>3. {i \in 1 .. n + 1 : t[i] = x} = IF e = x THEN A \cup {n + 1} ELSE A
  <2> HIDE DEF t
  <2>1. 1 .. n + 1 = (1 .. n) \cup {n + 1}
    BY <1>1
  <2> QED BY <1>1, <2>1
<1>4. Cardinality(A \cup {n + 1}) = Cardinality(A) + 1
  <2>1. n + 1 \notin A
    BY <1>1
  <2> HIDE DEF A
  <2> QED BY <1>2, <2>1, FS_AddElement
<1>5. Count(s, x) = Cardinality(A) /\ Count(t, x) = Cardinality({i \in 1 .. n + 1 : t[i] = x})
  BY <1>1 DEF Count
<1> HIDE DEF A, t, n
<1>6. e = x => Count(t, x) = Count(s, x) + 1
  BY <1>3, <1>4, <1>5
<1>7. e # x => Count(t, x) = Count(s, x)
  BY <1>3, <1>5
<1>8. Count(s, x) = Count(s, x) + 0
  BY <1>2, <1>5
<1> QED BY <1>6, <1>7, <1>8 DEF t

KeysInv == typed \in Nat /\ written \in Nat /\ KeysKept

LEMMA KeysStep ==
  ASSUME TypeInv, KeysInv, [Next]_vars
  PROVE  KeysInv'
<1>1. Count(commands, "key") \in Nat /\ commands \in Seq(Kind)
  BY CountType DEF TypeInv
<1>2. ASSUME NEW kind \in {"key", "view"}, Send(kind)
      PROVE  KeysInv'
  <2>1. Count(Append(commands, kind), "key") = Count(commands, "key") + (IF kind = "key" THEN 1 ELSE 0)
    BY <1>1, CountAppended DEF Kind
  <2>2. /\ commands' = Append(commands, kind) /\ UNCHANGED <<pc, written>>
        /\ typed' = typed + (IF kind = "key" THEN 1 ELSE 0)
    BY <1>2 DEF Send, runtime
  <2> QED BY <1>1, <2>1, <2>2 DEF KeysInv, KeysKept, Running
<1>3. CASE Drop \/ PresentExit
  <2>1. Count(Append(commands, "shutdown"), "key") = Count(commands, "key")
    BY <1>1, CountAppended DEF Kind
  <2>2. commands' = Append(commands, "shutdown") /\ UNCHANGED <<pc, written, typed>>
    BY <1>3 DEF Drop, PresentExit, Remove, runtime
  <2> QED BY <2>1, <2>2 DEF KeysInv, KeysKept, Running
<1>4. CASE Drain
  <2> DEFINE k == Least(Len(commands), MAX_CONTROL_COMMANDS_PER_TICK)
             keys == Count(First(commands, k), "key")
  <2>1. k \in Nat /\ k <= Len(commands)
    <3>1. Len(commands) \in Nat
      BY <1>1, LenProperties
    <3> QED BY <3>1, LeastOf, LiveAssumption
  <2>2. /\ commands' = Rest(commands, k) /\ typed' = typed /\ pc = "drain"
        /\ \/ pc' \in {"ended", "show"} /\ written' = written + keys
           \/ pc' = "failed" /\ written' = written
    BY <1>4 DEF Drain
  <2> HIDE DEF k
  <2>3. keys \in Nat /\ Count(Rest(commands, k), "key") \in Nat
        /\ Count(commands, "key") = keys + Count(Rest(commands, k), "key")
    BY <1>1, <2>1, FirstOf, RestOf, CountType, CountCut
  <2> HIDE DEF keys
  <2> QED BY <2>2, <2>3 DEF KeysInv, KeysKept, Running
<1>5. CASE ~ ((\E kind \in {"key", "view"} : Send(kind)) \/ Drop \/ PresentExit \/ Drain)
  <2>1. UNCHANGED <<commands, typed, written>> /\ (Running' => Running)
    BY <1>5 DEF Next, vars, handle, runtime, SendWake, TakeOutput, WakeForOutput, Exit, Wake,
       TimeOut, Finish, Present, Paint, Running
  <2> QED BY <2>1 DEF KeysInv, KeysKept
<1> QED BY <1>2, <1>3, <1>4, <1>5

\* While the loop runs no key is lost or written twice, for any caps and any number
\* of commands.
THEOREM KeysAreKept == Spec => []KeysKept
<1>1. Init => KeysInv
  <2>1. Init => commands = <<>> /\ typed = 0 /\ written = 0
    BY DEF Init
  <2>2. Count(<<>>, "key") = 0
    <3>1. {i \in 1 .. Len(<<>>) : <<>>[i] = "key"} = {}
      BY EmptySeq
    <3> QED BY <3>1, FS_EmptySet DEF Count
  <2> QED BY <2>1, <2>2 DEF KeysInv, KeysKept
<1>2. Inv /\ KeysInv /\ [Next]_vars => KeysInv'
  BY KeysStep DEF Inv
<1>3. KeysInv => KeysKept
  BY DEF KeysInv
<1> QED BY <1>1, <1>2, <1>3, Invariant, PTL DEF Spec

=============================================================================
