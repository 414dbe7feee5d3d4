-------------------------- MODULE Background_proofs --------------------------
(* Theorems about Background: types, the tasks behind every refresh that is  *)
(* due, and the rows of renamed workspaces.                                  *)
EXTENDS Background, TLAPS

-----------------------------------------------------------------------------
(* The refreshes by themselves.                                              *)

RefreshInv == RefreshOK /\ DueIsWatched

LEMMA RefreshStarts ==
  ASSUME NEW i \in Id, RefreshInit(i)
  PROVE  RefreshInv
<1>1. listed \in [Id -> Nat \cup {None}]
  BY DEF RefreshInit
<1> QED BY <1>1 DEF RefreshInv, RefreshInit, RefreshOK, DueIsWatched

\* A step of a timer or of a refresh keeps the types and the tasks.
LEMMA RefreshKeeps ==
  ASSUME RefreshInv, RefreshStep \/ RefreshFails \/ Change
  PROVE  RefreshInv'
<1> USE DEF RefreshInv
<1>1. CASE Watch
  <2>1. Listed \subseteq Id
    BY DEF Listed
  <2> QED BY <1>1, <2>1 DEF Watch, RefreshOK, DueIsWatched
<1>2. CASE Receive
  <2> DEFINE woken == events \ suspended
  <2>1. fresh' = [i \in Id |-> fresh[i] + IF i \in woken \ timer THEN 1 ELSE 0]
    BY <1>2 DEF Receive
  <2>2. RefreshOK'
    BY <1>2, <2>1 DEF Receive, RefreshOK
  <2>3. ASSUME NEW i \in Id, i \in timer' \/ due'[i] # "none"
        PROVE  fresh'[i] > 0 \/ asleep'[i] > 0
    BY <1>2, <2>1, <2>3 DEF Receive, RefreshOK, DueIsWatched
  <2> QED BY <2>2, <2>3 DEF DueIsWatched
<1>3. ASSUME NEW i \in Id, Poll(i)
      PROVE  RefreshInv'
  BY <1>3 DEF Poll, RefreshOK, DueIsWatched
<1>4. ASSUME NEW i \in Id, Elapse(i)
      PROVE  RefreshInv'
  BY <1>4 DEF Elapse, RefreshOK, DueIsWatched
<1>5. ASSUME NEW i \in Id, Wake(i)
      PROVE  RefreshInv'
  <2>1. refresh' \in [Slot -> Refresh \cup {None}] /\ excused' \in BOOLEAN
    <3>1. CASE MayRefresh(i)
      <4> DEFINE r == [id |-> i, step |-> "read", got |-> 0]
      <4>1. r \in Refresh
        BY DEF Refresh
      <4>2. PICK t \in Slot : refresh' = [refresh EXCEPT ![t] = r]
        BY <1>5, <3>1 DEF Wake
      <4> QED BY <1>5, <3>1, <4>1, <4>2 DEF Wake, RefreshOK
    <3>2. CASE ~ MayRefresh(i)
      BY <1>5, <3>2 DEF Wake, RefreshOK
    <3> QED BY <3>1, <3>2
  <2>2. timer' = timer \ {i} /\ due' = [due EXCEPT ![i] = "none"]
        /\ asleep' = [asleep EXCEPT ![i] = @ - 1] /\ asleep[i] > 0
        /\ UNCHANGED <<changes, listed, stored, watched, events, fresh, suspended>>
    BY <1>5 DEF Wake, TimerOver
  <2>3. RefreshOK'
    BY <2>1, <2>2 DEF RefreshOK
  <2>4. ASSUME NEW j \in Id, j \in timer' \/ due'[j] # "none"
        PROVE  fresh'[j] > 0 \/ asleep'[j] > 0
    <3>1. j # i /\ asleep'[j] = asleep[j] /\ fresh'[j] = fresh[j]
      BY <2>2, <2>4 DEF RefreshOK
    <3> QED BY <2>2, <2>4, <3>1 DEF RefreshOK, DueIsWatched
  <2> QED BY <2>3, <2>4 DEF DueIsWatched
<1>6. ASSUME NEW t \in Slot, ReadStatus(t) \/ WriteStatus(t) \/ ShowStatus(t) \/ FailStatus(t)
      PROVE  RefreshInv'
  <2>1. refresh[t] \in Refresh
    BY <1>6 DEF ReadStatus, WriteStatus, ShowStatus, FailStatus, At, RefreshOK
  <2>2. CASE ReadStatus(t)
    BY <2>1, <2>2 DEF ReadStatus, RefreshOK, DueIsWatched, Refresh
  <2>3. CASE WriteStatus(t)
    BY <2>1, <2>3 DEF WriteStatus, Goto, RefreshOK, DueIsWatched, Refresh
  <2>4. CASE ShowStatus(t)
    <3>1. listed' \in [Id -> Nat \cup {None}]
      BY <2>1, <2>4 DEF ShowStatus, RefreshOK, Refresh
    <3>2. excused' \in BOOLEAN
      BY <2>4 DEF ShowStatus, Excuse, RefreshOK
    <3> QED BY <2>4, <3>1, <3>2 DEF ShowStatus, RefreshOK, DueIsWatched
  <2>5. CASE FailStatus(t)
    BY <2>5 DEF FailStatus, RefreshOK, DueIsWatched
  <2> QED BY <1>6, <2>2, <2>3, <2>4, <2>5
<1>7. CASE Change
  BY <1>7 DEF Change, RefreshOK, DueIsWatched
<1> QED BY <1>1, <1>2, <1>3, <1>4, <1>5, <1>6, <1>7 DEF RefreshStep, RefreshFails

LEMMA RefreshStutters ==
  ASSUME RefreshInv, UNCHANGED refreshVars
  PROVE  RefreshInv'
BY DEF RefreshInv, RefreshOK, DueIsWatched, refreshVars

-----------------------------------------------------------------------------
(* The marks by themselves.                                                  *)

LEMMA ActivityStarts ==
  ASSUME NEW i \in Id, ActivityInit(i)
  PROVE  ActivityOK
<1>1. rows \in Marks
  BY ActivityAssumption DEF ActivityInit, Marks
<1>2. since \in [Id -> Activity]
  <2>1. since = [j \in Id |-> Mark(rows[j])]
    BY DEF ActivityInit
  <2> QED BY <1>1, <2>1 DEF Marks, Mark, Activity
<1>3. Nothing \in Marks
  BY DEF Nothing, Marks
<1> QED BY <1>1, <1>2, <1>3 DEF ActivityInit, ActivityOK, Idle, Resting

LEMMA Recorded ==
  ASSUME ActivityOK, NEW i \in Id, NEW a \in Activity, Record(i, a), Note(i, a)
  PROVE  /\ mem' \in Marks /\ pending' \in Marks /\ since' \in [Id -> Activity]
         /\ persist' \in [step : {"idle", "sleep", "write"}, batch : Marks]
BY DEF Record, Note, ActivityOK, Marks

\* A handler keeps the types.
LEMMA EventKeeps ==
  ASSUME ActivityOK, NEW i \in Id, ActivityEvent(i)
  PROVE  ActivityOK'
<1>1. CASE Output(i) \/ Look(i)
  <2>1. PICK a \in Activity : Record(i, a) /\ Note(i, a)
    BY <1>1 DEF Output, Look, Activity
  <2>2. late' \subseteq Id
    BY <1>1 DEF Output, OnlyMarks, Look, ActivityOK
  <2> QED BY <1>1, <2>1, <2>2, Recorded DEF Output, OnlyMarks, Look, ActivityOK
<1>2. CASE Close(i)
  <2>1. mem' \in Marks /\ pending' \in Marks
    BY <1>2 DEF Close, PendingWithout, ActivityOK, Marks
  <2>2. jobs' \subseteq {"row", "layout", "exit", "kill"} \X Id
    BY <1>2 DEF Close, ActivityOK
  <2> QED BY <1>2, <2>1, <2>2 DEF Close, ActivityOK
<1>3. CASE Exit(i)
  BY <1>3 DEF Exit, ActivityOK
<1> QED BY <1>1, <1>2, <1>3 DEF ActivityEvent

LEMMA OpenKeeps ==
  ASSUME ActivityOK, NEW i \in Id \cup {None}, Open(i)
  PROVE  ActivityOK'
BY DEF Open, ActivityOK

\* What the application does by itself keeps the types.
LEMMA ActivityKeeps ==
  ASSUME ActivityOK, ActivityStep \/ ReconStart \/ ActivityFails
  PROVE  ActivityOK'
<1> DEFINE Persist == [step : {"idle", "sleep", "write"}, batch : Marks]
           Recon == [step : {"rest", "rows", "layouts", "write"}, skip : Id \cup {None},
                     read : Marks, todo : SUBSET Id]
<1>1. Nothing \in Marks
  BY DEF Nothing, Marks
<1>2. CASE ReadLayout \/ Opened
  <2>1. CASE ReadLayout
    BY <2>1 DEF ReadLayout, ActivityOK
  <2>2. CASE Opened /\ shown = "missing"
    BY <2>2 DEF Opened, ActivityOK
  <2>3. CASE Opened /\ shown = "found" /\ active \in Id
    BY <2>3, Recorded DEF Opened, ActivityOK, Activity
  <2>4. shown = "found" => active \in Id
    BY DEF ActivityOK
  <2> QED BY <1>2, <2>1, <2>2, <2>3, <2>4 DEF Opened
<1>3. CASE PersistTake
  <2>1. persist' \in Persist
    BY <1>1, <1>3 DEF PersistTake, ActivityOK, Idle
  <2> QED BY <1>1, <1>3, <2>1 DEF PersistTake, ActivityOK
<1>4. CASE PersistDone
  <2>1. persist' \in Persist
    BY <1>1, <1>4 DEF PersistDone, PersistNext, ActivityOK, Idle
  <2> QED BY <1>4, <2>1 DEF PersistDone, ActivityOK
<1>5. CASE PersistFail
  <2>1. persist' \in Persist
    BY <1>1, <1>5 DEF PersistFail, ActivityOK
  <2> QED BY <1>5, <2>1 DEF PersistFail, ActivityOK, Has
<1>6. ASSUME NEW i \in Id, PersistWrite(i)
      PROVE  ActivityOK'
  <2>1. persist.batch[i] \in Activity /\ persist.batch \in Marks
    BY <1>6 DEF PersistWrite, ActivityOK, Marks
  <2>2. rows' \in Marks
    BY <1>6, <2>1 DEF PersistWrite, ActivityOK, Marks
  <2>3. [persist.batch EXCEPT ![i] = None] \in Marks
    BY <2>1 DEF Marks
  <2>4. persist' \in Persist
    BY <1>6, <2>3 DEF PersistWrite, ActivityOK
  <2> QED BY <1>6, <2>2, <2>4 DEF PersistWrite, ActivityOK
<1>7. CASE ReconStart
  <2>1. recon' \in Recon
    BY <1>1, <1>7 DEF ReconStart, Resting, ActivityOK
  <2> QED BY <1>7, <2>1 DEF ReconStart, ActivityOK
<1>8. CASE ReconRows
  <2>1. recon' \in Recon
    BY <1>8 DEF ReconRows, ActivityOK
  <2> QED BY <1>8, <2>1 DEF ReconRows, ActivityOK
<1>9. CASE ReconLayouts
  <2> DEFINE found == (panes \ {recon.skip}) \cap shells
             read == [i \in Id |-> IF i \in found THEN Mark(recon.read[i]) ELSE None]
  <2>1. read \in Marks /\ found \subseteq Id
    BY DEF ActivityOK, Mark, Marks, Activity
  <2>2. recon' = [recon EXCEPT !.step = "write", !.todo = found, !.read = read]
    BY <1>9 DEF ReconLayouts
  <2>3. recon' \in Recon
    BY <2>1, <2>2 DEF ActivityOK
  <2> QED BY <1>9, <2>3 DEF ReconLayouts, ActivityOK
<1>10. ASSUME NEW i \in Id, ReconWrite(i)
       PROVE  ActivityOK'
  <2>1. recon.read[i] \in Activity \cup {None}
    BY DEF ActivityOK, Marks
  <2>2. rows' \in Marks
    BY <1>10, <2>1 DEF ReconWrite, ActivityOK, Marks
  <2>3. recon' \in Recon
    BY <1>10 DEF ReconWrite, ActivityOK
  <2> QED BY <1>10, <2>2, <2>3 DEF ReconWrite, ActivityOK
<1>11. CASE ReconShow
  <2>1. mem' \in Marks
    BY <1>11 DEF ReconShow, ActivityOK, Marks
  <2>2. recon' \in Recon
    BY <1>1, <1>11 DEF ReconShow, Resting
  <2> QED BY <1>11, <2>1, <2>2 DEF ReconShow, ActivityOK
<1>12. CASE ReconFail
  BY <1>1, <1>12 DEF ReconFail, Resting, ActivityOK
<1>13. ASSUME NEW k \in {"row", "layout", "exit", "kill"}, NEW i \in Id, Job(k, i)
       PROVE  ActivityOK'
  <2>1. rows' \in Marks
    BY <1>13 DEF Job, ActivityOK, Marks
  <2>2. jobs' \subseteq {"row", "layout", "exit", "kill"} \X Id
    BY <1>13 DEF Job, ActivityOK
  <2>3. lost' \subseteq Id
    BY <1>13 DEF Job, ActivityOK
  <2> QED BY <1>13, <2>1, <2>2, <2>3 DEF Job, ActivityOK
<1> QED
  BY <1>2, <1>3, <1>4, <1>5, <1>6, <1>7, <1>8, <1>9, <1>10, <1>11, <1>12, <1>13
  DEF ActivityStep, ActivityFails

LEMMA ActivityStutters ==
  ASSUME ActivityOK, UNCHANGED activityVars
  PROVE  ActivityOK'
BY DEF ActivityOK, activityVars

-----------------------------------------------------------------------------
(* Both of them, and the operations of the sidebar.                          *)

\* An operation that has read a layout with the pane wants a workspace of Id.
Laid(op) == op # NoOp /\ op.layout => op.want \in Id
TypeInv == TypeOK /\ DueIsWatched /\ \A k \in OpSlot : Laid(ops[k])

LEMMA OpTyped ==
  ASSUME TypeInv, NEW k \in OpSlot, ops[k] # NoOp
  PROVE  ops[k] \in Task
BY DEF TypeInv, TypeOK

\* One operation takes a step, and the others stay.
LEMMA OpsTyped ==
  ASSUME TypeInv, NEW k \in OpSlot, NEW op \in Task \cup {NoOp}, Laid(op),
         ops' = [ops EXCEPT ![k] = op]
  PROVE  ops' \in [OpSlot -> Task \cup {NoOp}] /\ \A l \in OpSlot : Laid(ops'[l])
BY DEF TypeInv, TypeOK

LEMMA Budgeted ==
  ASSUME TypeInv,
         \/ UNCHANGED budget
         \/ \E k \in {"change", "activity", "operation", "failure"} : Spend(k)
  PROVE  budget' \in Budget
<1>1. CASE \E k \in {"change", "activity", "operation", "failure"} : Spend(k)
  <2>1. PICK k \in {"change", "activity", "operation", "failure"} : Spend(k)
    BY <1>1
  <2>2. CASE k = "change"
    BY <2>1, <2>2 DEF Spend, Budget, TypeInv, TypeOK
  <2>3. CASE k = "activity"
    BY <2>1, <2>3 DEF Spend, Budget, TypeInv, TypeOK
  <2>4. CASE k = "operation"
    BY <2>1, <2>4 DEF Spend, Budget, TypeInv, TypeOK
  <2>5. CASE k = "failure"
    BY <2>1, <2>5 DEF Spend, Budget, TypeInv, TypeOK
  <2> QED BY <2>2, <2>3, <2>4, <2>5
<1> QED BY <1>1 DEF TypeInv, TypeOK

LEMMA NothingTyped == Nothing \in Marks
BY DEF Nothing, Marks

LEMMA Started ==
  ASSUME TypeInv, NEW k \in OpSlot, NEW from \in Id, NEW to \in Id,
         NEW kind \in {"rename", "reload"}, NEW step \in {"check", "discover"},
         Start(k, kind, step, from, to)
  PROVE  /\ ops' \in [OpSlot -> Task \cup {NoOp}] /\ \A l \in OpSlot : Laid(ops'[l])
         /\ budget' \in Budget
<1> DEFINE op == [kind |-> kind, step |-> step, from |-> from, to |-> to, want |-> active,
                  list |-> [i \in Id |-> None], layout |-> FALSE, marks |-> Nothing]
<1>1. op \in Task /\ Laid(op)
  BY NothingTyped DEF Task, Laid, TypeInv, TypeOK, ActivityOK
<1>2. ops' = [ops EXCEPT ![k] = op]
  BY DEF Start
<1>3. budget' \in Budget
  BY Budgeted DEF Start
<1> HIDE DEF op
<1> QED BY <1>1, <1>2, <1>3, OpsTyped

LEMMA StartKeeps ==
  ASSUME TypeInv, NEW k \in OpSlot, NEW from \in Id, NEW to \in Id, RenameStart(k, from, to)
  PROVE  TypeInv'
<1>1. RefreshOK' /\ DueIsWatched'
  BY DEF RenameStart, TypeInv, TypeOK, RefreshOK, DueIsWatched
<1>2. ActivityOK'
  BY ActivityStutters DEF RenameStart, TypeInv, TypeOK
<1> QED BY <1>1, <1>2, Started DEF RenameStart, TypeInv, TypeOK

LEMMA ReloadKeeps ==
  ASSUME TypeInv, NEW k \in OpSlot, NEW i \in Id, ReloadStart(k, i)
  PROVE  TypeInv'
<1>1. RefreshOK' /\ DueIsWatched' /\ ActivityOK'
  BY ActivityStutters, RefreshStutters DEF ReloadStart, TypeInv, TypeOK, RefreshInv
<1> QED BY <1>1, Started DEF ReloadStart, TypeInv, TypeOK

\* What is kept under one name moves to another.
LEMMA CarriedTyped ==
  ASSUME NEW S, NEW f \in [Id -> S], None \in S, NEW op \in Task
  PROVE  Carried(f, op) \in [Id -> S] /\ Rekeyed(f, op) \in [Id -> S]
BY DEF Carried, Rekeyed, Task

LEMMA ApplyKeeps ==
  ASSUME TypeInv, NEW k \in OpSlot, Apply(k)
  PROVE  TypeInv'
<1> DEFINE op == ops[k]
           here == IF op.layout THEN {op.want} ELSE {}
           kept == Rekeyed(pending, op)
           last == [since EXCEPT ![op.to] = since[op.from]]
<1>1. op \in Task /\ Laid(op) /\ op # NoOp
  BY OpTyped DEF Apply, On, TypeInv
<1> HIDE DEF op
<1>2. here \subseteq Id /\ RekeyedSet(live, op) \subseteq Id
  BY <1>1 DEF Laid, Task, RekeyedSet, TypeInv, TypeOK, ActivityOK
<1>3. kept \in Marks
  BY <1>1, CarriedTyped DEF Marks, TypeInv, TypeOK, ActivityOK
<1>4. last \in [Id -> Activity]
  BY <1>1 DEF Task, TypeInv, TypeOK, ActivityOK
<1>5. mem' \in Marks /\ pending' \in Marks /\ since' \in [Id -> Activity]
  <2>1. mem' = [i \in Id |-> IF i \in here THEN "seen" ELSE op.marks[i]]
        /\ pending' = [i \in Id |-> IF i \in here THEN "seen" ELSE kept[i]]
        /\ since' = [i \in Id |-> IF i \in here THEN "seen" ELSE last[i]]
    BY DEF Apply, op
  <2>2. op.marks \in Marks /\ "seen" \in Activity
    BY <1>1 DEF Task, Activity
  <2> HIDE DEF here, kept, last
  <2>3. mem' \in Marks
    BY <2>1, <2>2 DEF Marks
  <2>4. pending' \in Marks
    BY <1>3, <2>1, <2>2 DEF Marks
  <2>5. since' \in [Id -> Activity]
    BY <1>4, <2>1, <2>2
  <2> QED BY <2>3, <2>4, <2>5
<1>6. persist' \in [step : {"idle", "sleep", "write"}, batch : Marks]
  BY DEF Apply, TypeInv, TypeOK, ActivityOK
<1>7. ActivityOK'
  <2>1. op.to \in Id /\ op.want \in Id \cup {None} /\ AlsoClosed(op) \subseteq Id
    BY <1>1 DEF Task, AlsoClosed
  <2>2. closed' \subseteq Id /\ late' \subseteq Id
    BY <2>1 DEF Apply, op, TypeInv, TypeOK, ActivityOK
  <2>3. lost' \subseteq Id
    BY DEF Apply, TypeInv, TypeOK, ActivityOK
  <2>4. active' = op.want /\ shown' \in {"pane", "none"} /\ UNCHANGED <<recon, jobs, rows, panes>>
    BY DEF Apply, op
  <2>5. live' \subseteq Id /\ shells' \subseteq Id
    BY <1>2 DEF Apply, op, TypeInv, TypeOK, ActivityOK
  <2> QED BY <1>5, <1>6, <2>1, <2>2, <2>3, <2>4, <2>5 DEF TypeInv, TypeOK, ActivityOK
<1>8. RefreshOK' /\ DueIsWatched'
  <2>1. listed' \in [Id -> Nat \cup {None}]
    BY <1>1 DEF Apply, op, Task
  <2>2. excused' \in BOOLEAN
    BY DEF Apply, Excuse, TypeInv, TypeOK, RefreshOK
  <2>3. watched' \subseteq Id /\ suspended' \subseteq Id
    BY DEF Apply, TypeInv, TypeOK, RefreshOK
  <2>4. UNCHANGED <<changes, stored, events, due, timer, fresh, asleep, refresh>>
    BY DEF Apply
  <2> QED BY <2>1, <2>2, <2>3, <2>4 DEF TypeInv, TypeOK, RefreshOK, DueIsWatched
<1>9. ops' = [ops EXCEPT ![k] = NoOp] /\ UNCHANGED <<jj, budget, renamed, ghost>> /\ Laid(NoOp)
  BY DEF Apply, Laid
<1> QED BY <1>7, <1>8, <1>9, OpsTyped DEF TypeInv, TypeOK

\* An operation that ends in an error.
LEMMA FailsKeeps ==
  ASSUME TypeInv, NEW k \in OpSlot, Fails(k), budget' \in Budget
  PROVE  TypeInv'
<1>1. ops' = [ops EXCEPT ![k] = NoOp] /\ UNCHANGED <<jj, renamed>> /\ Laid(NoOp)
  BY DEF Fails, Laid
<1>2. ghost' \subseteq Id
  BY DEF Fails, TypeInv, TypeOK
<1>3. RefreshOK' /\ DueIsWatched'
  <2>1. watched' \subseteq Id /\ suspended' \subseteq Id
    BY DEF Fails, Listed, TypeInv, TypeOK, RefreshOK
  <2>2. UNCHANGED <<changes, listed, stored, events, due, timer, fresh, asleep, refresh, excused>>
    BY DEF Fails
  <2> QED BY <2>1, <2>2 DEF TypeInv, TypeOK, RefreshOK, DueIsWatched
<1>4. ActivityOK'
  BY DEF Fails, TypeInv, TypeOK, ActivityOK
<1> QED BY <1>1, <1>2, <1>3, <1>4, OpsTyped DEF TypeInv, TypeOK

\* The steps of an operation that leave the application as it is.
LEMMA LoadTyped ==
  ASSUME TypeInv, NEW k \in OpSlot,
         \/ RenameCheck(k) \/ RenameJJ(k) \/ LoadStatus(k) \/ LoadRows(k) \/ LoadLayout(k)
         \/ LoadMarks(k)
  PROVE  TypeInv'
<1>1. ops[k] \in Task /\ Laid(ops[k]) /\ ops[k] # NoOp
  BY OpTyped DEF RenameCheck, RenameJJ, LoadStatus, LoadRows, LoadLayout, LoadMarks, On, TypeInv
<1>2. stored \in [Id -> Nat \cup {None}] /\ rows \in Marks /\ jj \in Id /\ panes \subseteq Id
      /\ \A n \in Nat : OnlyWorkspace(jj, n) \in [Id -> Nat \cup {None}]
  BY DEF OnlyWorkspace, TypeInv, TypeOK, RefreshOK, ActivityOK
<1>3. \E op \in Task : Laid(op) /\ ops' = [ops EXCEPT ![k] = op]
  <2>1. CASE RenameCheck(k)
    <3> DEFINE op == [ops[k] EXCEPT !.step = "jj"]
    <3>1. op \in Task /\ Laid(op)
      BY <1>1 DEF Task, Laid
    <3>2. ops' = [ops EXCEPT ![k] = op]
      BY <2>1 DEF RenameCheck, Goes
    <3> QED BY <3>1, <3>2
  <2>2. CASE RenameJJ(k)
    <3> DEFINE op == [ops[k] EXCEPT !.step = "store"]
    <3>1. op \in Task /\ Laid(op)
      BY <1>1 DEF Task, Laid
    <3>2. ops' = [ops EXCEPT ![k] = op]
      BY <2>2 DEF RenameJJ, Goes
    <3> QED BY <3>1, <3>2
  <2>3. CASE LoadStatus(k)
    <3>1. changes \in Nat
      BY DEF TypeInv, TypeOK, RefreshOK
    <3>2. ASSUME NEW n \in Nat,
                 ops' = [ops EXCEPT ![k].step = "write", ![k].list = OnlyWorkspace(jj, n)]
          PROVE  \E op \in Task : Laid(op) /\ ops' = [ops EXCEPT ![k] = op]
      <4> DEFINE op == [ops[k] EXCEPT !.step = "write", !.list = OnlyWorkspace(jj, n)]
      <4>1. op \in Task /\ Laid(op)
        BY <1>1, <1>2 DEF Task, Laid
      <4>2. ops' = [ops EXCEPT ![k] = op]
        BY <3>2 DEF TypeInv, TypeOK
      <4> QED BY <4>1, <4>2
    <3>3. CASE Goes(k, "rows")
      <4> DEFINE op == [ops[k] EXCEPT !.step = "rows"]
      <4>1. op \in Task /\ Laid(op)
        BY <1>1 DEF Task, Laid
      <4>2. ops' = [ops EXCEPT ![k] = op]
        BY <3>3 DEF Goes
      <4> QED BY <4>1, <4>2
    <3> QED BY <2>3, <3>1, <3>2, <3>3 DEF LoadStatus
  <2>4. CASE LoadRows(k)
    <3> DEFINE op == [ops[k] EXCEPT !.step = "layout", !.list = stored]
    <3>1. op \in Task /\ Laid(op)
      BY <1>1, <1>2 DEF Task, Laid
    <3>2. ops' = [ops EXCEPT ![k] = op]
      BY <2>4 DEF LoadRows, TypeInv, TypeOK
    <3> QED BY <3>1, <3>2
  <2>5. CASE LoadLayout(k)
    <3>1. PICK i \in Choice(ops[k]) : ops' = [ops EXCEPT ![k].step = "marks", ![k].want = i,
                                                         ![k].layout = i \in panes]
      BY <2>5 DEF LoadLayout
    <3> DEFINE there == i \in panes
               op == [ops[k] EXCEPT !.step = "marks", !.want = i, !.layout = there]
    <3>0. there \in BOOLEAN /\ (there => i \in Id)
      BY <1>2
    <3>2. i \in Id \cup {None}
      BY <1>1 DEF Choice, Wanted, Task
    <3>5. ops' = [ops EXCEPT ![k] = op]
      BY <3>1 DEF TypeInv, TypeOK
    <3> HIDE DEF there
    <3>3. op \in Task
      BY <1>1, <3>0, <3>2 DEF Task
    <3>4. Laid(op)
      BY <1>1, <3>0 DEF Task, Laid
    <3> QED BY <3>3, <3>4, <3>5
  <2>6. CASE LoadMarks(k)
    <3> DEFINE op == [ops[k] EXCEPT !.step = "apply", !.marks = rows]
    <3>1. op \in Task /\ Laid(op)
      BY <1>1, <1>2 DEF Task, Laid
    <3>2. ops' = [ops EXCEPT ![k] = op]
      BY <2>6 DEF LoadMarks, TypeInv, TypeOK
    <3> QED BY <3>1, <3>2
  <2> QED BY <2>1, <2>2, <2>3, <2>4, <2>5, <2>6
<1>4. ops' \in [OpSlot -> Task \cup {NoOp}] /\ \A l \in OpSlot : Laid(ops'[l])
  BY <1>3, OpsTyped
<1>5. RefreshOK' /\ DueIsWatched' /\ ActivityOK'
  BY ActivityStutters, RefreshStutters
  DEF RenameCheck, RenameJJ, LoadStatus, LoadRows, LoadLayout, LoadMarks, TypeInv, TypeOK, RefreshInv
<1>6. budget' \in Budget
  BY Budgeted DEF RenameCheck, RenameJJ, LoadStatus, LoadRows, LoadLayout, LoadMarks
<1>7. jj' \in Id /\ renamed' \subseteq Id /\ ghost' \subseteq Id
  BY <1>1 DEF RenameCheck, RenameJJ, LoadStatus, LoadRows, LoadLayout, LoadMarks, Task, TypeInv, TypeOK
<1> QED BY <1>4, <1>5, <1>6, <1>7 DEF TypeInv, TypeOK

LEMMA OperationKeeps ==
  ASSUME TypeInv, NEW k \in OpSlot, Operation(k) \/ OperationFails(k)
  PROVE  TypeInv'
<1>1. CASE RenameStore(k)
  <2>1. ops[k] \in Task /\ Laid(ops[k]) /\ ops[k] # NoOp
    <3>1. ops[k] # NoOp
      BY <1>1 DEF RenameStore, On
    <3>2. ops[k] \in Task
      BY <3>1, OpTyped
    <3> QED BY <3>1, <3>2 DEF TypeInv
  <2> DEFINE op == [ops[k] EXCEPT !.step = "discover"]
  <2>2. op \in Task /\ Laid(op)
    BY <2>1 DEF Task, Laid
  <2>3. ops' = [ops EXCEPT ![k] = op]
    BY <1>1 DEF RenameStore, Goes
  <2> HIDE DEF op
  <2>4. ops' \in [OpSlot -> Task \cup {NoOp}] /\ \A l \in OpSlot : Laid(ops'[l])
    BY <2>2, <2>3, OpsTyped
  <2>5. stored' \in [Id -> Nat \cup {None}] /\ rows' \in Marks
    BY <1>1, <2>1, CarriedTyped DEF RenameStore, Marks, TypeInv, TypeOK, RefreshOK, ActivityOK
  <2>6. RefreshOK' /\ DueIsWatched'
    BY <1>1, <2>5 DEF RenameStore, TypeInv, TypeOK, RefreshOK, DueIsWatched
  <2>7. panes' \subseteq Id /\ late' \subseteq Id /\ renamed' \subseteq Id /\ ghost' \subseteq Id
    BY <1>1, <2>1 DEF RenameStore, Task, TypeInv, TypeOK, ActivityOK
  <2>8. ActivityOK'
    BY <1>1, <2>5, <2>7 DEF RenameStore, TypeInv, TypeOK, ActivityOK
  <2> QED BY <1>1, <2>4, <2>6, <2>7, <2>8 DEF RenameStore, TypeInv, TypeOK
<1>2. CASE LoadWrite(k)
  <2>1. ops[k] \in Task /\ Laid(ops[k]) /\ ops[k] # NoOp
    <3>1. ops[k] # NoOp
      BY <1>2 DEF LoadWrite, On
    <3>2. ops[k] \in Task
      BY <3>1, OpTyped
    <3> QED BY <3>1, <3>2 DEF TypeInv
  <2> DEFINE op == [ops[k] EXCEPT !.step = "layout"]
  <2>2. op \in Task /\ Laid(op)
    BY <2>1 DEF Task, Laid
  <2>3. ops' = [ops EXCEPT ![k] = op]
    BY <1>2 DEF LoadWrite, Goes
  <2> HIDE DEF op
  <2>4. ops' \in [OpSlot -> Task \cup {NoOp}] /\ \A l \in OpSlot : Laid(ops'[l])
    BY <2>2, <2>3, OpsTyped
  <2>5. stored' \in [Id -> Nat \cup {None}]
    BY <1>2, <2>1 DEF LoadWrite, Task, TypeInv, TypeOK, RefreshOK
  <2>6. RefreshOK' /\ DueIsWatched'
    BY <1>2, <2>5 DEF LoadWrite, TypeInv, TypeOK, RefreshOK, DueIsWatched
  <2>7. ActivityOK'
    BY <1>2, ActivityStutters DEF LoadWrite, TypeInv, TypeOK
  <2> QED BY <1>2, <2>4, <2>6, <2>7 DEF LoadWrite, TypeInv, TypeOK
<1>3. CASE OperationRefused(k) \/ OperationFails(k)
  BY <1>3, Budgeted, FailsKeeps DEF OperationRefused, OperationFails
<1> QED BY <1>1, <1>2, <1>3, LoadTyped, ApplyKeeps DEF Operation

LEMMA TypeStep ==
  ASSUME TypeInv, [Next]_vars
  PROVE  TypeInv'
<1>1. CASE \/ Change /\ Spend("change") /\ Rest /\ UNCHANGED activityVars
           \/ RefreshStep /\ Rest /\ UNCHANGED <<activityVars, budget>>
           \/ RefreshFails /\ Spend("failure") /\ Rest /\ UNCHANGED activityVars
  <2>1. RefreshOK' /\ DueIsWatched'
    BY <1>1, RefreshKeeps DEF TypeInv, TypeOK, RefreshInv
  <2>2. ActivityOK'
    BY <1>1, ActivityStutters DEF TypeInv, TypeOK
  <2>3. budget' \in Budget
    BY <1>1, Budgeted
  <2> QED BY <1>1, <2>1, <2>2, <2>3 DEF Rest, sideVars, TypeInv, TypeOK
<1>2. CASE \/ \E i \in Id : /\ ActivityEvent(i)
                            /\ Spend("activity") /\ Rest /\ UNCHANGED refreshVars
           \/ \E i \in Listed \cup {None} : /\ Open(i)
                            /\ Spend("activity") /\ Rest /\ UNCHANGED refreshVars
           \/ ActivityStep /\ Rest /\ UNCHANGED <<refreshVars, budget>>
           \/ ReconStart /\ budget.reconcile /\ Rest /\ UNCHANGED <<refreshVars, budget>>
           \/ ActivityFails /\ Spend("failure") /\ Rest /\ UNCHANGED refreshVars
  <2>1. ActivityOK'
    <3>1. Listed \cup {None} \subseteq Id \cup {None}
      BY DEF Listed
    <3> QED BY <1>2, <3>1, EventKeeps, OpenKeeps, ActivityKeeps DEF TypeInv, TypeOK
  <2>2. RefreshOK' /\ DueIsWatched'
    BY <1>2, RefreshStutters DEF TypeInv, TypeOK, RefreshInv
  <2>3. budget' \in Budget
    BY <1>2, Budgeted
  <2> QED BY <1>2, <2>1, <2>2, <2>3 DEF Rest, sideVars, TypeInv, TypeOK
<1>3. CASE UNCHANGED vars
  BY <1>3, ActivityStutters, RefreshStutters DEF vars, sideVars, TypeInv, TypeOK, RefreshInv
<1> QED BY <1>1, <1>2, <1>3, StartKeeps, ReloadKeeps, OperationKeeps DEF Next

LEMMA TypeStart ==
  ASSUME Init
  PROVE  TypeInv
<1>1. RefreshOK /\ DueIsWatched /\ ActivityOK
  BY RefreshStarts, ActivityStarts, BackgroundAssumption DEF Init, RefreshInv
<1>2. \A k \in OpSlot : Laid(ops[k])
  BY DEF Init, Laid
<1> QED BY <1>1, <1>2, BackgroundAssumption DEF Init, TypeInv, TypeOK

\* Every reachable state is well typed.
THEOREM TypeCorrect == Spec => []TypeOK
<1>1. Init => TypeInv
  BY TypeStart
<1>2. TypeInv /\ [Next]_vars => TypeInv'
  BY TypeStep
<1>3. TypeInv => TypeOK
  BY DEF TypeInv
<1> QED BY <1>1, <1>2, <1>3, PTL DEF Spec

\* A refresh that is due and a timer that is marked as active always have a
\* task, whatever is suspended, renamed and reloaded.
THEOREM DueIsWatchedEver == Spec => []DueIsWatched
<1>1. Init => TypeInv
  BY TypeStart
<1>2. TypeInv /\ [Next]_vars => TypeInv'
  BY TypeStep
<1>3. TypeInv => DueIsWatched
  BY DEF TypeInv
<1> QED BY <1>1, <1>2, <1>3, PTL DEF Spec

-----------------------------------------------------------------------------
(* A workspace that was renamed is not written back under its old name.      *)

\* Before it has found or read the workspaces an operation lists none.
Empty(op) ==
  op # NoOp =>
    /\ op.step \in {"check", "jj", "store", "discover", "rows"} => \A i \in Id : op.list[i] = None
    /\ op.step \in {"check", "jj", "store"} => op.from # op.to

Lists(i) == \E k \in OpSlot : ops[k] # NoOp /\ ops[k].list[i] # None

\* No refresh is in flight for a name that was renamed away and none starts, and no
\* operation has found it, nor will it.
Away(i) ==
  /\ stored[i] = None /\ jj # i /\ ~ InFlight(i) /\ ~ Lists(i)
  /\ listed[i] = None \/ i \in suspended

GoneInv ==
  /\ \A k \in OpSlot : Empty(ops[k])
  /\ \A i \in renamed \ ghost : Away(i)

LEMMA GoneStutters ==
  ASSUME GoneInv, UNCHANGED <<listed, stored, refresh, suspended, sideVars>>
  PROVE  GoneInv'
BY DEF GoneInv, Empty, Away, Lists, InFlight, sideVars

\* The refreshes: the workspaces that are listed are the only ones they start
\* for, and a name that is being renamed is suspended.
LEMMA GoneRefresh ==
  ASSUME TypeInv, GoneInv, RefreshStep \/ RefreshFails \/ Change, Rest
  PROVE  GoneInv'
<1>0. UNCHANGED <<jj, ops, renamed, ghost>>
  BY DEF Rest, sideVars
<1>1. CASE Watch \/ Receive \/ Change
  BY <1>1, GoneStutters DEF Watch, Receive, Change, Rest
<1>2. ASSUME NEW i \in Id, Poll(i) \/ Elapse(i)
      PROVE  GoneInv'
  BY <1>2, GoneStutters DEF Poll, Elapse, Rest
<1>3. ASSUME NEW i \in Id, Wake(i)
      PROVE  GoneInv'
  <2>1. UNCHANGED <<listed, stored, suspended>>
    BY <1>3 DEF Wake
  <2>2. CASE ~ MayRefresh(i)
    BY <1>3, <2>1, <2>2, GoneStutters DEF Wake, Rest
  <2>3. CASE MayRefresh(i)
    <3>1. PICK t \in Slot : refresh' = [refresh EXCEPT ![t] =
                                         [id |-> i, step |-> "read", got |-> 0]]
      BY <1>3, <2>3 DEF Wake
    <3>2. ASSUME NEW j, j # i, InFlight(j)'
          PROVE  InFlight(j)
      BY <3>1, <3>2 DEF InFlight, TypeInv, TypeOK, RefreshOK
    <3>3. ~ Away(i)
      BY <2>3 DEF MayRefresh, Away
    <3>4. ASSUME NEW j \in renamed \ ghost
          PROVE  Away(j)'
      <4>1. Away(j) /\ j # i
        BY <3>3 DEF GoneInv
      <4> QED BY <1>0, <2>1, <3>2, <4>1 DEF Away, Lists
    <3> QED BY <1>0, <3>4 DEF GoneInv, Empty
  <2> QED BY <2>2, <2>3
<1>4. ASSUME NEW t \in Slot, ReadStatus(t) \/ WriteStatus(t) \/ ShowStatus(t) \/ FailStatus(t)
      PROVE  GoneInv'
  <2>1. refresh[t] \in Refresh /\ InFlight(refresh[t].id)
    BY <1>4 DEF ReadStatus, WriteStatus, ShowStatus, FailStatus, At, InFlight,
                TypeInv, TypeOK, RefreshOK
  <2>2. ASSUME NEW j, InFlight(j)'
        PROVE  InFlight(j)
    <3>1. PICK u \in Slot : refresh'[u] # None /\ refresh'[u].id = j
      BY <2>2 DEF InFlight
    <3>2. CASE u # t
      <4>1. refresh'[u] = refresh[u]
        BY <1>4, <3>2 DEF ReadStatus, WriteStatus, ShowStatus, FailStatus, Goto,
                          TypeInv, TypeOK, RefreshOK
      <4> QED BY <3>1, <4>1 DEF InFlight
    <3>3. CASE u = t
      <4>1. CASE ShowStatus(t) \/ FailStatus(t)
        BY <3>1, <3>3, <4>1 DEF ShowStatus, FailStatus, TypeInv, TypeOK, RefreshOK
      <4>2. CASE ReadStatus(t)
        <5>1. refresh'[t].id = refresh[t].id
          BY <2>1, <4>2 DEF ReadStatus, Refresh, TypeInv, TypeOK, RefreshOK
        <5> QED BY <2>1, <3>1, <3>3, <5>1
      <4>3. CASE WriteStatus(t)
        <5>1. refresh'[t].id = refresh[t].id
          BY <2>1, <4>3 DEF WriteStatus, Goto, Refresh, TypeInv, TypeOK, RefreshOK
        <5> QED BY <2>1, <3>1, <3>3, <5>1
      <4> QED BY <1>4, <4>1, <4>2, <4>3
    <3> QED BY <3>2, <3>3
  <2>3. \A j \in Id : listed[j] = None => listed'[j] = None
    BY <1>4, <2>1
    DEF ReadStatus, WriteStatus, ShowStatus, FailStatus, Refresh, TypeInv, TypeOK, RefreshOK
  <2>4. \A j \in Id : j # refresh[t].id => stored'[j] = stored[j]
    BY <1>4 DEF ReadStatus, WriteStatus, ShowStatus, FailStatus, TypeInv, TypeOK, RefreshOK
  <2>5. UNCHANGED suspended
    BY <1>4 DEF ReadStatus, WriteStatus, ShowStatus, FailStatus
  <2>6. ASSUME NEW j \in renamed \ ghost
        PROVE  Away(j)'
    <3>1. Away(j) /\ j \in Id
      BY DEF GoneInv, TypeInv, TypeOK
    <3>2. j # refresh[t].id
      BY <2>1, <3>1 DEF Away
    <3> QED BY <1>0, <2>2, <2>3, <2>4, <2>5, <3>1, <3>2 DEF Away, Lists
  <2> QED BY <1>0, <2>6 DEF GoneInv, Empty
<1> QED BY <1>1, <1>2, <1>3, <1>4 DEF RefreshStep, RefreshFails

\* An operation that goes from one step to the next keeps the others, and brings
\* no name that is away into a list.
LEMMA GoneGoes ==
  ASSUME TypeInv, GoneInv, NEW k \in OpSlot, NEW op \in Task \cup {NoOp}, Empty(op),
         ops' = [ops EXCEPT ![k] = op],
         \A i \in Id : Away(i) /\ op # NoOp => op.list[i] = None
  PROVE  /\ \A l \in OpSlot : Empty(ops'[l])
         /\ \A i \in Id : Away(i) => ~ Lists(i)'
<1>1. \A l \in OpSlot : ops'[l] = IF l = k THEN op ELSE ops[l]
  BY DEF TypeInv, TypeOK
<1>2. ASSUME NEW l \in OpSlot PROVE Empty(ops'[l])
  BY <1>1 DEF GoneInv
<1>3. ASSUME NEW i \in Id, Away(i) PROVE ~ Lists(i)'
  BY <1>1, <1>3 DEF Away, Lists
<1> QED BY <1>2, <1>3

LEMMA SameFlight ==
  ASSUME UNCHANGED refresh
  PROVE  \A i : InFlight(i)' <=> InFlight(i)
BY DEF InFlight

\* The steps of an operation before its result is applied.
LEMMA GoneLoad ==
  ASSUME TypeInv, GoneInv, NEW k \in OpSlot,
         \/ RenameCheck(k) \/ RenameJJ(k) \/ LoadStatus(k) \/ LoadWrite(k) \/ LoadRows(k)
         \/ LoadLayout(k) \/ LoadMarks(k)
  PROVE  GoneInv'
<1>1. ops[k] # NoOp
  BY DEF RenameCheck, RenameJJ, LoadStatus, LoadWrite, LoadRows, LoadLayout, LoadMarks, On
<1>2. ops[k] \in Task /\ Empty(ops[k])
  BY <1>1, OpTyped DEF GoneInv
<1>3. \A i \in Id : Away(i) => ops[k].list[i] = None
  BY <1>1 DEF Away, Lists
<1>4. \E op \in Task :
        /\ ops' = [ops EXCEPT ![k] = op] /\ Empty(op)
        /\ \A i \in Id : Away(i) => op.list[i] = None
  <2>1. CASE RenameCheck(k)
    <3> DEFINE op == [ops[k] EXCEPT !.step = "jj"]
    <3>1. op \in Task /\ Empty(op) /\ op.list = ops[k].list
      BY <1>1, <1>2, <2>1 DEF Task, Empty, RenameCheck, On
    <3>2. ops' = [ops EXCEPT ![k] = op]
      BY <2>1 DEF RenameCheck, Goes
    <3> QED BY <1>3, <3>1, <3>2
  <2>2. CASE RenameJJ(k)
    <3> DEFINE op == [ops[k] EXCEPT !.step = "store"]
    <3>1. op \in Task /\ Empty(op) /\ op.list = ops[k].list
      BY <1>1, <1>2, <2>2 DEF Task, Empty, RenameJJ, On
    <3>2. ops' = [ops EXCEPT ![k] = op]
      BY <2>2 DEF RenameJJ, Goes
    <3> QED BY <1>3, <3>1, <3>2
  <2>3. CASE LoadStatus(k)
    <3>1. changes \in Nat /\ jj \in Id
      BY DEF TypeInv, TypeOK, RefreshOK
    <3>2. ASSUME NEW n \in Nat,
                 ops' = [ops EXCEPT ![k].step = "write", ![k].list = OnlyWorkspace(jj, n)]
          PROVE  \E op \in Task : /\ ops' = [ops EXCEPT ![k] = op] /\ Empty(op)
                                  /\ \A i \in Id : Away(i) => op.list[i] = None
      <4> DEFINE only == OnlyWorkspace(jj, n)
                 op == [ops[k] EXCEPT !.step = "write", !.list = only]
      <4>1. only \in [Id -> Nat \cup {None}] /\ \A i \in Id : i # jj => only[i] = None
        BY DEF OnlyWorkspace
      <4>2. ops' = [ops EXCEPT ![k] = op]
        BY <3>2 DEF TypeInv, TypeOK
      <4> HIDE DEF only
      <4>3. op \in Task /\ Empty(op) /\ op.list = only
        BY <1>2, <4>1 DEF Task, Empty
      <4>4. \A i \in Id : Away(i) => op.list[i] = None
        BY <4>1, <4>3 DEF Away
      <4> QED BY <4>2, <4>3, <4>4
    <3>3. CASE Goes(k, "rows")
      <4> DEFINE op == [ops[k] EXCEPT !.step = "rows"]
      <4>1. op \in Task /\ Empty(op) /\ op.list = ops[k].list
        BY <1>1, <1>2, <2>3 DEF Task, Empty, LoadStatus, On
      <4>2. ops' = [ops EXCEPT ![k] = op]
        BY <3>3 DEF Goes
      <4> QED BY <1>3, <4>1, <4>2
    <3> QED BY <2>3, <3>1, <3>2, <3>3 DEF LoadStatus
  <2>4. CASE LoadWrite(k)
    <3> DEFINE op == [ops[k] EXCEPT !.step = "layout"]
    <3>1. op \in Task /\ Empty(op) /\ op.list = ops[k].list
      BY <1>1, <1>2, <2>4 DEF Task, Empty
    <3>2. ops' = [ops EXCEPT ![k] = op]
      BY <2>4 DEF LoadWrite, Goes
    <3> QED BY <1>3, <3>1, <3>2
  <2>5. CASE LoadRows(k)
    <3> DEFINE op == [ops[k] EXCEPT !.step = "layout", !.list = stored]
    <3>1. op \in Task /\ Empty(op) /\ op.list = stored
      BY <1>2 DEF Task, Empty, TypeInv, TypeOK, RefreshOK
    <3>2. ops' = [ops EXCEPT ![k] = op]
      BY <2>5 DEF LoadRows, TypeInv, TypeOK
    <3>3. \A i \in Id : Away(i) => op.list[i] = None
      BY <3>1 DEF Away
    <3> QED BY <3>1, <3>2, <3>3
  <2>6. CASE LoadLayout(k)
    <3>1. PICK i \in Choice(ops[k]) : ops' = [ops EXCEPT ![k].step = "marks", ![k].want = i,
                                                         ![k].layout = i \in panes]
      BY <2>6 DEF LoadLayout
    <3> DEFINE there == i \in panes
               op == [ops[k] EXCEPT !.step = "marks", !.want = i, !.layout = there]
    <3>2. i \in Id \cup {None} /\ there \in BOOLEAN
      BY <1>2 DEF Choice, Wanted, Task
    <3>3. ops' = [ops EXCEPT ![k] = op]
      BY <3>1 DEF TypeInv, TypeOK
    <3> HIDE DEF there
    <3>4. op \in Task /\ Empty(op) /\ op.list = ops[k].list
      BY <1>2, <3>2 DEF Task, Empty
    <3> QED BY <1>3, <3>3, <3>4
  <2>7. CASE LoadMarks(k)
    <3> DEFINE op == [ops[k] EXCEPT !.step = "apply", !.marks = rows]
    <3>1. op \in Task /\ Empty(op) /\ op.list = ops[k].list
      BY <1>2 DEF Task, Empty, TypeInv, TypeOK, ActivityOK
    <3>2. ops' = [ops EXCEPT ![k] = op]
      BY <2>7 DEF LoadMarks, TypeInv, TypeOK
    <3> QED BY <1>3, <3>1, <3>2
  <2> QED BY <2>1, <2>2, <2>3, <2>4, <2>5, <2>6, <2>7
<1>5. (\A l \in OpSlot : Empty(ops'[l])) /\ \A i \in Id : Away(i) => ~ Lists(i)'
  BY <1>4, GoneGoes
<1>6. UNCHANGED <<listed, refresh, suspended, ghost>>
  BY DEF RenameCheck, RenameJJ, LoadStatus, LoadWrite, LoadRows, LoadLayout, LoadMarks, refreshVars
<1>7. renamed' \subseteq renamed
  BY DEF RenameCheck, RenameJJ, LoadStatus, LoadWrite, LoadRows, LoadLayout, LoadMarks
<1>8. ASSUME NEW i \in renamed' \ ghost'
      PROVE  Away(i)'
  <2>1. i \in Id /\ Away(i)
    BY <1>6, <1>7 DEF GoneInv, TypeInv, TypeOK
  <2>2. stored'[i] = None
    <3>1. CASE LoadWrite(k)
      BY <1>3, <2>1, <3>1 DEF LoadWrite, Away
    <3>2. CASE ~ LoadWrite(k)
      <4>1. UNCHANGED stored
        BY <3>2 DEF RenameCheck, RenameJJ, LoadStatus, LoadRows, LoadLayout, LoadMarks, refreshVars
      <4> QED BY <2>1, <4>1 DEF Away
    <3> QED BY <3>1, <3>2
  <2>3. jj' # i
    <3>1. CASE RenameJJ(k)
      BY <1>8, <3>1 DEF RenameJJ
    <3>2. CASE ~ RenameJJ(k)
      <4>1. UNCHANGED jj
        BY <3>2 DEF RenameCheck, LoadStatus, LoadWrite, LoadRows, LoadLayout, LoadMarks
      <4> QED BY <2>1, <4>1 DEF Away
    <3> QED BY <3>1, <3>2
  <2>4. ~ InFlight(i)'
    BY <1>6, <2>1, SameFlight DEF Away
  <2> QED BY <1>5, <1>6, <2>1, <2>2, <2>3, <2>4 DEF Away
<1> QED BY <1>5, <1>8 DEF GoneInv

\* The commit: whoever may still bring the old name back is excepted.
LEMMA GoneStore ==
  ASSUME TypeInv, GoneInv, NEW k \in OpSlot, RenameStore(k)
  PROVE  GoneInv'
<1> DEFINE op == ops[k]
           next == [op EXCEPT !.step = "discover"]
<1>1. op # NoOp /\ op.step = "store"
  BY DEF RenameStore, On
<1>2. op \in Task /\ Empty(op)
  BY <1>1, OpTyped DEF GoneInv
<1>3. op.from \in Id /\ op.to \in Id /\ op.from # op.to /\ \A i \in Id : op.list[i] = None
  BY <1>1, <1>2 DEF Task, Empty
<1>4. /\ stored' = Carried(stored, op)
      /\ renamed' = (renamed \ {op.to}) \cup {op.from}
      /\ ghost' = IF Kept(k, op.from) THEN ghost \cup {op.from} ELSE ghost \ {op.from}
      /\ UNCHANGED <<listed, suspended, refresh, jj>>
  BY DEF RenameStore
<1>5. next \in Task /\ Empty(next) /\ next.list = op.list
  BY <1>1, <1>2 DEF Task, Empty
<1>6. ops' = [ops EXCEPT ![k] = next]
  BY DEF RenameStore, Goes
<1>7. \A l \in OpSlot : ops'[l] = IF l = k THEN next ELSE ops[l]
  BY <1>6 DEF TypeInv, TypeOK
<1> HIDE DEF next, op
<1>8. ASSUME NEW l \in OpSlot PROVE Empty(ops'[l])
  BY <1>5, <1>7 DEF GoneInv
<1>9. ASSUME NEW i \in renamed' \ ghost'
      PROVE  Away(i)'
  <2>1. i \in Id
    BY <1>3, <1>4 DEF TypeInv, TypeOK
  <2>2. CASE i = op.from
    <3>1. ~ Kept(k, i)
      BY <1>4, <1>9, <2>2
    <3>2. stored'[i] = None
      BY <1>3, <1>4, <2>2 DEF Carried, TypeInv, TypeOK, RefreshOK
    <3>3. ~ Lists(i)'
      BY <1>3, <1>5, <1>7, <2>1, <3>1 DEF Kept, Lists
    <3> QED BY <1>4, <3>1, <3>2, <3>3, SameFlight DEF Kept, Away
  <2>3. CASE i # op.from
    <3>1. Away(i) /\ i # op.to
      BY <1>4, <1>9, <2>3 DEF GoneInv
    <3>2. stored'[i] = None
      BY <1>3, <1>4, <2>1, <2>3, <3>1 DEF Carried, Away, TypeInv, TypeOK, RefreshOK
    <3>3. ~ Lists(i)'
      BY <1>3, <1>5, <1>7, <2>1, <3>1 DEF Away, Lists
    <3> QED BY <1>4, <3>1, <3>2, <3>3, SameFlight DEF Away
  <2> QED BY <2>2, <2>3
<1> QED BY <1>8, <1>9 DEF GoneInv

\* Operations that start or end.
LEMMA GoneOperation ==
  ASSUME TypeInv, GoneInv, NEW k \in OpSlot,
         \/ \E i, j \in Id : RenameStart(k, i, j)
         \/ \E i \in Id : ReloadStart(k, i)
         \/ Operation(k) \/ OperationFails(k)
  PROVE  GoneInv'
<1>0. renamed \subseteq Id
  BY DEF TypeInv, TypeOK
<1>1. ASSUME NEW i \in Id, NEW j \in Id, RenameStart(k, i, j) \/ ReloadStart(k, i)
      PROVE  GoneInv'
  <2>1. \E op \in Task : /\ ops' = [ops EXCEPT ![k] = op] /\ Empty(op)
                         /\ \A n \in Id : op.list[n] = None
    <3>1. ASSUME NEW kind \in {"rename", "reload"}, NEW step \in {"check", "discover"},
                 NEW to \in Id, step = "check" => i # to, Start(k, kind, step, i, to)
          PROVE  \E op \in Task : /\ ops' = [ops EXCEPT ![k] = op] /\ Empty(op)
                                  /\ \A n \in Id : op.list[n] = None
      <4> DEFINE op == [kind |-> kind, step |-> step, from |-> i, to |-> to, want |-> active,
                        list |-> [n \in Id |-> None], layout |-> FALSE, marks |-> Nothing]
      <4>1. op \in Task
        BY NothingTyped DEF Task, TypeInv, TypeOK, ActivityOK
      <4>2. Empty(op) /\ \A n \in Id : op.list[n] = None
        BY <3>1 DEF Empty
      <4>3. ops' = [ops EXCEPT ![k] = op]
        BY <3>1 DEF Start
      <4> QED BY <4>1, <4>2, <4>3
    <3> QED BY <1>1, <3>1 DEF RenameStart, ReloadStart
  <2>2. (\A l \in OpSlot : Empty(ops'[l])) /\ \A n \in Id : Away(n) => ~ Lists(n)'
    BY <2>1, GoneGoes
  <2>3. suspended \subseteq suspended' /\ UNCHANGED <<listed, stored, refresh, jj, renamed, ghost>>
    BY <1>1 DEF RenameStart, ReloadStart, refreshVars
  <2>4. ASSUME NEW n \in renamed' \ ghost' PROVE Away(n)'
    <3>1. Away(n) /\ n \in Id
      BY <1>0, <2>3 DEF GoneInv
    <3> QED BY <2>2, <2>3, <3>1, SameFlight DEF Away
  <2> QED BY <2>2, <2>4 DEF GoneInv
<1>2. CASE Apply(k)
  <2>1. ops[k] # NoOp /\ ops' = [ops EXCEPT ![k] = NoOp] /\ Empty(NoOp)
    BY <1>2 DEF Apply, On, Empty
  <2>2. (\A l \in OpSlot : Empty(ops'[l])) /\ \A n \in Id : Away(n) => ~ Lists(n)'
    BY <2>1, GoneGoes
  <2>3. listed' = ops[k].list /\ UNCHANGED <<stored, refresh, jj, renamed, ghost>>
    BY <1>2 DEF Apply
  <2>4. ASSUME NEW n \in renamed' \ ghost' PROVE Away(n)'
    <3>1. Away(n) /\ n \in Id
      BY <1>0, <2>3 DEF GoneInv
    <3>2. listed'[n] = None
      BY <2>1, <2>3, <3>1 DEF Away, Lists
    <3> QED BY <2>2, <2>3, <3>1, <3>2, SameFlight DEF Away
  <2> QED BY <2>2, <2>4 DEF GoneInv
<1>3. CASE Fails(k)
  <2>1. ops' = [ops EXCEPT ![k] = NoOp] /\ Empty(NoOp)
    BY <1>3 DEF Fails, Empty
  <2>2. (\A l \in OpSlot : Empty(ops'[l])) /\ \A n \in Id : Away(n) => ~ Lists(n)'
    BY <2>1, GoneGoes
  <2>3. UNCHANGED <<listed, stored, refresh, jj, renamed>>
    BY <1>3 DEF Fails
  <2>4. ghost \subseteq ghost'
    BY <1>3 DEF Fails
  <2>5. ASSUME NEW n \in renamed' \ ghost' PROVE Away(n)'
    <3>1. Away(n) /\ n \in Id
      BY <1>0, <2>3, <2>4 DEF GoneInv
    <3>2. listed[n] = None \/ n \in suspended'
      BY <1>3, <2>3, <2>5, <3>1 DEF Fails, Listed, Away
    <3> QED BY <2>2, <2>3, <3>1, <3>2, SameFlight DEF Away
  <2> QED BY <2>2, <2>5 DEF GoneInv
<1> QED
  BY <1>1, <1>2, <1>3, GoneLoad, GoneStore DEF Operation, OperationRefused, OperationFails

LEMMA GoneStep ==
  ASSUME TypeInv, GoneInv, [Next]_vars
  PROVE  GoneInv'
<1>1. CASE \/ Change /\ Spend("change") /\ Rest /\ UNCHANGED activityVars
           \/ RefreshStep /\ Rest /\ UNCHANGED <<activityVars, budget>>
           \/ RefreshFails /\ Spend("failure") /\ Rest /\ UNCHANGED activityVars
  BY <1>1, GoneRefresh
<1>2. CASE Rest /\ UNCHANGED refreshVars
  BY <1>2, GoneStutters DEF Rest, refreshVars
<1>3. CASE UNCHANGED vars
  BY <1>3, GoneStutters DEF vars, refreshVars
<1> QED BY <1>1, <1>2, <1>3, GoneOperation DEF Next

\* A workspace that was renamed is not written back under its old name, whatever else
\* the application does meanwhile, but by what was in flight for that name when the
\* rename was committed and by renames that resume the name: one that fails after its
\* commit, or one that overlaps it.
THEOREM GoneStaysGoneEver == Spec => []GoneStaysGone
<1>1. Init => TypeInv /\ GoneInv
  <2>1. Init => GoneInv
    BY DEF Init, GoneInv, Empty
  <2> QED BY <2>1, TypeStart
<1>2. TypeInv /\ GoneInv /\ [Next]_vars => (TypeInv /\ GoneInv)'
  BY TypeStep, GoneStep
<1>3. GoneInv => GoneStaysGone
  BY DEF GoneInv, GoneStaysGone, Away
<1> QED BY <1>1, <1>2, <1>3, PTL DEF Spec

-----------------------------------------------------------------------------
(* What is closed.                                                           *)

\* What is closed and not excepted runs in no terminal and is in no copy of the marks,
\* and its row is gone or about to be deleted; a reconciliation does not touch the
\* pane it skips.
Skipped ==
  recon.step = "write" => \A j \in Id : recon.read[j] # None \/ j \in recon.todo => j # recon.skip
Gone(i) ==
  /\ i \notin live /\ mem[i] = None /\ pending[i] = None /\ persist.batch[i] = None
  /\ recon.step = "write" => recon.read[i] = None /\ i \notin recon.todo
  /\ rows[i] = None \/ <<"row", i>> \in jobs

ForgetInv == Skipped /\ \A i \in closed \ late : Gone(i)

LEMMA ForgetStutters ==
  ASSUME ForgetInv, UNCHANGED activityVars
  PROVE  ForgetInv'
BY DEF ForgetInv, Skipped, Gone, activityVars

\* A mark is recorded for a pane that runs or is excepted.
LEMMA ForgetRecord ==
  ASSUME ActivityOK, ForgetInv, NEW i \in Id, NEW a \in Activity, Record(i, a),
         i \notin closed' \ late', closed' \subseteq closed, late \subseteq late',
         live' \subseteq live \cup {i}, UNCHANGED <<recon, jobs, rows>>
  PROVE  ForgetInv'
<1>1. ASSUME NEW j \in closed' \ late'
      PROVE  Gone(j)'
  <2>1. j \in Id /\ j # i /\ Gone(j)
    BY <1>1 DEF ForgetInv, ActivityOK
  <2>2. mem'[j] = mem[j] /\ pending'[j] = pending[j] /\ persist'.batch = persist.batch
    BY <2>1 DEF Record, ActivityOK, Marks
  <2> QED BY <2>1, <2>2 DEF Gone
<1> QED BY <1>1 DEF ForgetInv, Skipped

LEMMA ForgetEvent ==
  ASSUME ActivityOK, ForgetInv, NEW i \in Id, ActivityEvent(i)
  PROVE  ForgetInv'
<1>1. CASE Output(i)
  <2>1. i \notin closed \ late
    BY <1>1 DEF Output, ForgetInv, Gone
  <2> QED BY <1>1, <2>1, ForgetRecord DEF Output, OnlyMarks, Activity
<1>2. CASE Look(i)
  <2>1. i \notin closed \ late'
    BY <1>2 DEF Look, ForgetInv, Gone
  <2>2. Record(i, "seen") /\ late \subseteq late' /\ UNCHANGED <<recon, live, jobs, rows, closed>>
    BY <1>2 DEF Look
  <2> QED BY <2>1, <2>2, ForgetRecord DEF Activity
<1>3. CASE Close(i)
  <2>1. Skipped'
    BY <1>3 DEF Close, ForgetInv, Skipped
  <2>2. ASSUME NEW j \in closed' \ late', j # i
        PROVE  Gone(j)'
    <3>1. j \in closed \ late /\ j \in Id
      BY <1>3, <2>2 DEF Close, ActivityOK
    <3>2. mem'[j] = mem[j] /\ pending'[j] = pending[j]
      BY <1>3, <2>2, <3>1 DEF Close, PendingWithout, ActivityOK, Marks
    <3> QED BY <1>3, <3>1, <3>2 DEF Close, ForgetInv, Gone
  <2>3. ASSUME i \notin late'
        PROVE  Gone(i)'
    <3>1. persist.batch[i] = None /\ (recon.step = "rest" \/ recon.skip = i)
      BY <1>3, <2>3 DEF Close
    <3>2. recon.step = "write" => recon.read[i] = None /\ i \notin recon.todo
      BY <3>1 DEF ForgetInv, Skipped
    <3>3. i \notin live' /\ mem'[i] = None /\ pending'[i] = None /\ <<"row", i>> \in jobs'
          /\ UNCHANGED <<persist, recon>>
      BY <1>3 DEF Close, PendingWithout, ActivityOK, Marks
    <3> QED BY <3>1, <3>2, <3>3 DEF Gone
  <2> QED BY <2>1, <2>2, <2>3 DEF ForgetInv
<1>4. CASE Exit(i)
  BY <1>4 DEF Exit, ForgetInv, Skipped, Gone
<1> QED BY <1>1, <1>2, <1>3, <1>4 DEF ActivityEvent

LEMMA ForgetOpen ==
  ASSUME ForgetInv, NEW i \in Id \cup {None}, Open(i)
  PROVE  ForgetInv'
BY DEF Open, ForgetInv, Skipped, Gone

\* No task of the application brings back what is closed, except what it knew then.
LEMMA ForgetTask ==
  ASSUME ActivityOK, ForgetInv, ActivityStep \/ ReconStart \/ ActivityFails
  PROVE  ForgetInv'
<1> USE DEF ForgetInv
<1>1. CASE ReadLayout \/ Opened
  <2>1. CASE ReadLayout \/ (Opened /\ shown = "missing")
    BY <2>1 DEF ReadLayout, Opened, Skipped, Gone
  <2>2. CASE Opened /\ shown = "found"
    <3>1. active \in Id
      BY <2>2 DEF ActivityOK
    <3> QED BY <2>2, <3>1, ForgetRecord DEF Opened, Activity
  <2> QED BY <1>1, <2>1, <2>2 DEF Opened
<1>2. CASE PersistTake
  <2>1. pending' = Nothing /\ UNCHANGED <<mem, recon, live, jobs, rows, closed, late>>
    BY <1>2 DEF PersistTake
  <2>2. \A j \in Id : Nothing[j] = None
    BY DEF Nothing
  <2>3. persist'.batch = Nothing \/ persist'.batch = pending
    BY <1>2 DEF PersistTake, Idle
  <2>4. ASSUME NEW i \in closed \ late
        PROVE  Gone(i)'
    <3>1. Gone(i) /\ i \in Id
      BY DEF ActivityOK
    <3>2. persist'.batch[i] = None /\ pending'[i] = None
      BY <2>1, <2>2, <2>3, <3>1 DEF Gone
    <3> QED BY <2>1, <3>1, <3>2 DEF Gone
  <2> QED BY <2>1, <2>4 DEF Skipped
<1>3. CASE PersistDone \/ PersistFail
  <2>1. UNCHANGED <<mem, pending, recon, live, jobs, rows, closed, late>>
    BY <1>3 DEF PersistDone, PersistFail
  <2>2. \A j \in Id : persist'.batch[j] = None \/ persist'.batch[j] = persist.batch[j]
    BY <1>3 DEF PersistDone, PersistFail, PersistNext, Idle, Nothing, ActivityOK
  <2>3. closed \subseteq Id
    BY DEF ActivityOK
  <2> QED BY <2>1, <2>2, <2>3 DEF Skipped, Gone
<1>4. ASSUME NEW i \in Id, PersistWrite(i)
      PROVE  ForgetInv'
  <2>1. UNCHANGED <<mem, pending, recon, live, jobs, closed, late>>
    BY <1>4 DEF PersistWrite
  <2>2. ASSUME NEW j \in closed \ late
        PROVE  Gone(j)'
    <3>1. j # i
      BY <1>4, <2>2 DEF PersistWrite, Gone
    <3>2. rows'[j] = rows[j] /\ persist'.batch[j] = persist.batch[j]
      BY <1>4, <3>1 DEF PersistWrite, ActivityOK, Marks
    <3> QED BY <2>1, <2>2, <3>2 DEF Gone
  <2> QED BY <2>1, <2>2 DEF Skipped
<1>5. CASE ReconStart \/ ReconRows \/ ReconFail
  <2>1. UNCHANGED <<mem, pending, persist, live, jobs, rows, closed, late>>
    BY <1>5 DEF ReconStart, ReconRows, ReconFail
  <2>2. recon'.step # "write"
    <3>1. Resting.step = "rest"
      BY DEF Resting
    <3>2. CASE ReconStart
      <4>1. recon'.step = "rows"
        BY <3>2 DEF ReconStart, Resting
      <4> QED BY <4>1
    <3>3. CASE ReconRows
      <4>1. recon'.step = "layouts"
        BY <3>3 DEF ReconRows, ActivityOK
      <4> QED BY <4>1
    <3>4. CASE ReconFail
      BY <3>1, <3>4 DEF ReconFail
    <3> QED BY <1>5, <3>2, <3>3, <3>4
  <2>3. ASSUME NEW i \in closed \ late
        PROVE  Gone(i)'
    BY <2>1, <2>2, <2>3 DEF Gone
  <2> QED BY <2>1, <2>2, <2>3 DEF Skipped
<1>6. CASE ReconLayouts
  <2> DEFINE found == (panes \ {recon.skip}) \cap shells
  <2>1. /\ recon' = [recon EXCEPT !.step = "write", !.todo = found,
             !.read = [i \in Id |-> IF i \in found THEN Mark(recon.read[i]) ELSE None]]
        /\ late' = late \cup (found \ live)
        /\ UNCHANGED <<mem, pending, persist, live, jobs, rows, closed>>
    BY <1>6 DEF ReconLayouts
  <2>2. Skipped'
    BY <2>1 DEF Skipped, ActivityOK
  <2>3. ASSUME NEW j \in closed \ late'
        PROVE  Gone(j)'
    <3>1. j \in Id /\ j \notin found
      BY <2>1, <2>3 DEF Gone, ActivityOK
    <3>2. recon'.read[j] = None /\ j \notin recon'.todo
      BY <2>1, <3>1 DEF ActivityOK
    <3>3. Gone(j)
      BY <2>1, <2>3
    <3> QED BY <2>1, <3>2, <3>3 DEF Gone
  <2> QED BY <2>1, <2>2, <2>3
<1>7. ASSUME NEW i \in Id, ReconWrite(i)
      PROVE  ForgetInv'
  <2>1. UNCHANGED <<mem, pending, persist, live, jobs, closed, late>>
        /\ recon' = [recon EXCEPT !.todo = @ \ {i}] /\ recon.step = "write" /\ i \in recon.todo
    BY <1>7 DEF ReconWrite
  <2>2. ASSUME NEW j \in closed \ late
        PROVE  Gone(j)'
    <3>1. j # i
      BY <2>1, <2>2 DEF Gone
    <3>2. rows'[j] = rows[j]
      BY <1>7, <3>1 DEF ReconWrite, ActivityOK, Marks
    <3> QED BY <2>1, <2>2, <3>2 DEF Gone, ActivityOK
  <2>3. Skipped'
    BY <2>1 DEF Skipped, ActivityOK
  <2> QED BY <2>1, <2>2, <2>3
<1>8. CASE ReconShow
  <2>1. /\ recon' = Resting /\ recon.step = "write"
        /\ mem' = [i \in Id |-> IF recon.read[i] = None THEN mem[i] ELSE recon.read[i]]
        /\ UNCHANGED <<pending, persist, live, jobs, rows, closed, late>>
    BY <1>8 DEF ReconShow
  <2>2. \A j \in closed \ late : mem'[j] = None
    BY <2>1 DEF Gone, ActivityOK
  <2> QED BY <2>1, <2>2 DEF Skipped, Gone, Resting
<1>9. ASSUME NEW k \in {"row", "layout", "exit", "kill"}, NEW i \in Id, Job(k, i)
      PROVE  ForgetInv'
  <2>1. UNCHANGED <<mem, pending, persist, recon, live, closed, late>>
    BY <1>9 DEF Job
  <2>2. ASSUME NEW j \in Id, rows[j] = None \/ <<"row", j>> \in jobs
        PROVE  rows'[j] = None \/ <<"row", j>> \in jobs'
    BY <1>9, <2>2 DEF Job, ActivityOK, Marks
  <2>3. closed \subseteq Id
    BY DEF ActivityOK
  <2> QED BY <2>1, <2>2, <2>3 DEF Skipped, Gone
<1> QED
  BY <1>1, <1>2, <1>3, <1>4, <1>5, <1>6, <1>7, <1>8, <1>9 DEF ActivityStep, ActivityFails

\* A row that a rename moves to the name of a closed pane is excepted.
LEMMA ForgetRename ==
  ASSUME TypeInv, ForgetInv, NEW k \in OpSlot, RenameStore(k)
  PROVE  ForgetInv'
<1> DEFINE op == ops[k]
<1>1. op.from \in Id /\ op.to \in Id
  BY OpTyped DEF RenameStore, On, Task
<1>2. UNCHANGED <<mem, pending, persist, recon, live, jobs, closed>>
      /\ rows' = Carried(rows, op)
      /\ late' = IF rows[op.from] = None THEN late ELSE late \cup (closed \cap {op.to})
  BY DEF RenameStore
<1> HIDE DEF op
<1>3. ASSUME NEW j \in closed \ late'
      PROVE  Gone(j)'
  <2>1. j \in Id /\ Gone(j)
    BY <1>2, <1>3 DEF ForgetInv, TypeInv, TypeOK, ActivityOK
  <2>2. rows'[j] = None \/ rows'[j] = rows[j]
    BY <1>1, <1>2, <1>3, <2>1 DEF Carried, TypeInv, TypeOK, ActivityOK, Marks
  <2> QED BY <1>2, <2>1, <2>2 DEF Gone
<1> QED BY <1>2, <1>3 DEF ForgetInv, Skipped

\* A closed pane takes its new name along, and the bootstrap brings no mark of it
\* that is not excepted.
LEMMA ForgetApply ==
  ASSUME TypeInv, ForgetInv, NEW k \in OpSlot, Apply(k)
  PROVE  ForgetInv'
<1> DEFINE op == ops[k]
           here == IF op.layout THEN {op.want} ELSE {}
           kept == Rekeyed(pending, op)
<1>1. op.from \in Id /\ op.to \in Id /\ op.marks \in Marks
  BY OpTyped DEF Apply, On, Task
<1>2. /\ here \subseteq live'
      /\ mem' = [i \in Id |-> IF i \in here THEN "seen" ELSE op.marks[i]]
      /\ pending' = [i \in Id |-> IF i \in here THEN "seen" ELSE kept[i]]
      /\ persist'.batch = persist.batch
      /\ closed' = (closed \cup AlsoClosed(op)) \ live'
      /\ late' = late \cup {i \in closed' : op.marks[i] # None \/ kept[i] # None}
                      \cup {i \in AlsoClosed(op) : OnItsWay(i)}
      /\ UNCHANGED <<recon, jobs, rows>>
  BY DEF Apply, TypeInv, TypeOK, ActivityOK
<1> HIDE DEF op, here, kept
<1>3. ASSUME NEW j \in closed' \ late'
      PROVE  Gone(j)'
  <2>1. j \in Id
    BY <1>1, <1>2 DEF AlsoClosed, TypeInv, TypeOK, ActivityOK
  <2>2. j \notin live' /\ j \notin here
    BY <1>2, <1>3
  <2>3. mem'[j] = None /\ pending'[j] = None
    BY <1>2, <1>3, <2>1, <2>2
  <2>4. CASE j \in closed
    BY <1>2, <1>3, <2>2, <2>3, <2>4 DEF ForgetInv, Gone
  <2>5. CASE j \in AlsoClosed(op)
    <3>1. ~ OnItsWay(j)
      BY <1>2, <1>3, <2>5
    <3> QED BY <1>2, <2>2, <2>3, <3>1 DEF OnItsWay, Gone
  <2> QED BY <1>2, <1>3, <2>4, <2>5
<1> QED BY <1>2, <1>3 DEF ForgetInv, Skipped

LEMMA ForgetStep ==
  ASSUME TypeInv, ForgetInv, [Next]_vars
  PROVE  ForgetInv'
<1>1. ActivityOK
  BY DEF TypeInv, TypeOK
<1>2. CASE UNCHANGED activityVars
  BY <1>2, ForgetStutters
<1>3. CASE \E i \in Id : ActivityEvent(i)
  BY <1>1, <1>3, ForgetEvent
<1>4. CASE \E i \in Listed \cup {None} : Open(i)
  <2>1. Listed \subseteq Id
    BY DEF Listed
  <2> QED BY <1>4, <2>1, ForgetOpen
<1>5. CASE ActivityStep \/ ReconStart \/ ActivityFails
  BY <1>1, <1>5, ForgetTask
<1>6. ASSUME NEW k \in OpSlot,
             \/ \E i, j \in Id : RenameStart(k, i, j)
             \/ \E i \in Id : ReloadStart(k, i)
             \/ RenameCheck(k) \/ RenameJJ(k) \/ LoadStatus(k) \/ LoadWrite(k) \/ LoadRows(k)
             \/ LoadLayout(k) \/ LoadMarks(k)
      PROVE  ForgetInv'
  BY <1>6, ForgetStutters DEF RenameStart, ReloadStart, RenameCheck, RenameJJ, LoadStatus,
                              LoadWrite, LoadRows, LoadLayout, LoadMarks
<1>7. ASSUME NEW k \in OpSlot, RenameStore(k) PROVE ForgetInv'
  BY <1>7, ForgetRename
<1>8. ASSUME NEW k \in OpSlot, Apply(k) PROVE ForgetInv'
  BY <1>8, ForgetApply
<1>9. ASSUME NEW k \in OpSlot, OperationRefused(k) \/ OperationFails(k) PROVE ForgetInv'
  BY <1>9 DEF OperationRefused, OperationFails, Fails, ForgetInv, Skipped, Gone
<1>10. CASE UNCHANGED vars
  BY <1>10, ForgetStutters DEF vars
<1> QED
  BY <1>2, <1>3, <1>4, <1>5, <1>6, <1>7, <1>8, <1>9, <1>10 DEF Next, Operation

\* What was recorded of a pane that was closed on the screen is gone in memory and,
\* once the task that deletes its row is through, in the store, under every name the
\* workspace has had since, until the pane is shown again, but for the overlaps that
\* the property names.
THEOREM ClosedIsForgottenEver == Spec => []ClosedIsForgotten
<1>1. Init => TypeInv /\ ForgetInv
  <2>1. ASSUME Init PROVE ForgetInv
    <3>1. closed = {} /\ recon.step = "rest"
      BY <2>1 DEF Init, ActivityInit, Resting
    <3> QED BY <3>1 DEF ForgetInv, Skipped
  <2> QED BY <2>1, TypeStart
<1>2. TypeInv /\ ForgetInv /\ [Next]_vars => (TypeInv /\ ForgetInv)'
  BY TypeStep, ForgetStep
<1>3. ForgetInv => ClosedIsForgotten
  BY DEF ForgetInv, Gone, ClosedIsForgotten
<1> QED BY <1>1, <1>2, <1>3, PTL DEF Spec
=============================================================================
