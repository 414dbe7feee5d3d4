------------------------- MODULE SessionAttach_proofs -------------------------
(***************************************************************************)
(* Proofs about SessionAttach, for any set of connections, any bounds and  *)
(* any way the session may end.                                            *)
(***************************************************************************)
EXTENDS SessionAttach, TLAPS

(* The queue of waiters stays a queue of connections when one leaves it.   *)
LEMMA WithoutType ==
  ASSUME NEW S, NEW queue \in Seq(S), NEW c
  PROVE  Without(queue, c) \in Seq(S)
<1>1. CASE \E i \in DOMAIN queue : queue[i] = c
  <2>1. PICK i \in 1..Len(queue) : i = CHOOSE j \in DOMAIN queue : queue[j] = c
    BY <1>1
  <2>2. Without(queue, c) = SubSeq(queue, 1, i - 1) \o SubSeq(queue, i + 1, Len(queue))
    BY <1>1, <2>1 DEF Without, RemoveAt
  <2>3. SubSeq(queue, 1, i - 1) \in Seq(S) /\ SubSeq(queue, i + 1, Len(queue)) \in Seq(S)
    OBVIOUS
  <2> QED BY <2>2, <2>3
<1>2. CASE ~ \E i \in DOMAIN queue : queue[i] = c
  BY <1>2 DEF Without
<1> QED BY <1>1, <1>2

(* notify_one() keeps the types of screen_notify.                          *)
LEMMA NotifyOneType == NotifyOK /\ NotifyOne => NotifyOK'
<1> SUFFICES ASSUME NotifyOK, NotifyOne PROVE NotifyOK'
  OBVIOUS
<1>1. CASE waiters = <<>>
  BY <1>1 DEF NotifyOK, NotifyOne
<1>2. CASE waiters # <<>>
  <2>1. Head(waiters) \in Clients /\ Tail(waiters) \in Seq(Clients)
    BY <1>2 DEF NotifyOK
  <2> QED BY <1>2, <2>1 DEF NotifyOK, NotifyOne
<1> QED BY <1>1, <1>2

(* Dropping a notified() future keeps the types of screen_notify.          *)
LEMMA DropNotifiedType ==
  ASSUME NotifyOK, NEW c \in Clients, DropNotified(c)
  PROVE  NotifyOK'
<1>1. CASE c \in woken /\ waiters = <<>>
  BY <1>1 DEF NotifyOK, DropNotified
<1>2. CASE c \in woken /\ waiters # <<>>
  <2>1. Head(waiters) \in Clients /\ Tail(waiters) \in Seq(Clients)
    BY <1>2 DEF NotifyOK
  <2> QED BY <1>2, <2>1 DEF NotifyOK, DropNotified
<1>3. CASE c \notin woken
  BY <1>3, WithoutType DEF NotifyOK, DropNotified
<1> QED BY <1>1, <1>2, <1>3

-----------------------------------------------------------------------------
(* Type correctness.                                                       *)

(* What a step leaves alone keeps its type.                                *)
LEMMA TypeFrames ==
  /\ SessionOK /\ UNCHANGED <<inMap, mgr, ender, child, evictTx, evict, hasClient>> => SessionOK'
  /\ ScreenOK /\ UNCHANGED <<reader, readerAlive, version, scrolled, taken, noted, notes>>
       => ScreenOK'
  /\ NotifyOK /\ UNCHANGED <<permit, waiters, woken>> => NotifyOK'
  /\ TaskOK /\ UNCHANGED <<conn, relay, out, pendingRender, refresh>> => TaskOK'
  /\ ClientOK /\ UNCHANGED <<upto, lines, shown, got, told, contested>> => ClientOK'
<1>1. SessionOK /\ UNCHANGED <<inMap, mgr, ender, child, evictTx, evict, hasClient>> => SessionOK'
  BY DEF SessionOK
<1>2. ScreenOK /\ UNCHANGED <<reader, readerAlive, version, scrolled, taken, noted, notes>>
       => ScreenOK'
  BY DEF ScreenOK
<1>3. NotifyOK /\ UNCHANGED <<permit, waiters, woken>> => NotifyOK'
  BY DEF NotifyOK
<1>4. TaskOK /\ UNCHANGED <<conn, relay, out, pendingRender, refresh>> => TaskOK'
  BY DEF TaskOK
<1>5. ClientOK /\ UNCHANGED <<upto, lines, shown, got, told, contested>> => ClientOK'
  BY DEF ClientOK
<1> QED BY <1>1, <1>2, <1>3, <1>4, <1>5

(* A task that moves on, and a message that is replaced.                   *)
LEMMA TaskMoves ==
  ASSUME TaskOK, NEW c \in Clients
  PROVE  /\ \A pc \in ConnPc : [conn EXCEPT ![c] = pc] \in [Clients -> ConnPc]
         /\ \A pc \in RelayPc : [relay EXCEPT ![c] = pc] \in [Clients -> RelayPc]
         /\ \A m \in Message : [out EXCEPT ![c] = m] \in [Clients -> Message]
         /\ NoMessage \in Message
<1>1. NoMessage \in Message
  BY DEF NoMessage, Message
<1> QED BY <1>1 DEF TaskOK

(* The end of a relay keeps the types of the tasks.                        *)
LEMMA RelayEndsType ==
  ASSUME TaskOK, NEW c \in Clients, RelayEnds(c), conn' = conn,
         out' \in [Clients -> Message]
  PROVE  TaskOK'
<1>1. relay' \in [Clients -> RelayPc]
  BY TaskMoves DEF RelayEnds, RelayPc
<1>2. pendingRender' \in [Clients -> BOOLEAN] /\ refresh' \in [Clients -> BOOLEAN]
  BY DEF TaskOK, RelayEnds
<1> QED BY <1>1, <1>2 DEF TaskOK

(* Receiving the message in out keeps the types of what was received.      *)
LEMMA ReceivedType ==
  ASSUME TaskOK, ClientOK, NEW c \in Clients, Received(c)
  PROVE  /\ upto' \in [Clients -> Nat] /\ lines' \in [Clients -> Int]
         /\ shown' \in [Clients -> Nat] /\ got' \in [Clients -> SUBSET Nat]
         /\ out' \in [Clients -> Message]
<1>1. /\ out[c].from \in Nat /\ out[c].to \in Nat /\ out[c].ver \in Nat
      /\ out[c].notes \in SUBSET Nat
  BY DEF TaskOK, Message
<1>2. upto' \in [Clients -> Nat] /\ shown' \in [Clients -> Nat]
  BY <1>1 DEF ClientOK, Received
<1>3. lines' \in [Clients -> Int]
  BY <1>1 DEF ClientOK, Received
<1>4. got' \in [Clients -> SUBSET Nat]
  BY <1>1 DEF ClientOK, Received
<1>5. out' \in [Clients -> Message]
  BY TaskMoves DEF Received
<1> QED BY <1>2, <1>3, <1>4, <1>5

(* take_and_render() keeps the types of the screen and of the relay.       *)
LEMMA TakeAndRenderType ==
  ASSUME ScreenOK, TaskOK, NEW c \in Clients, NEW last \in BOOLEAN,
         TakeAndRender(c, last)
  PROVE  /\ out' \in [Clients -> Message] /\ relay' \in [Clients -> RelayPc]
         /\ taken' \in Nat /\ notes' = {}
         /\ UNCHANGED <<version, scrolled, noted>>
<1>1. [from |-> taken, to |-> scrolled, ver |-> version, notes |-> notes,
       last |-> last] \in Message
  BY DEF ScreenOK, Message
<1> QED BY <1>1, TaskMoves DEF TakeAndRender, RelayPc, ScreenOK

(* render(full) keeps the types of the relay.                              *)
LEMMA RenderFullType ==
  ASSUME ScreenOK, TaskOK, ClientOK, NEW c \in Clients, NEW last \in BOOLEAN,
         RenderFull(c, last)
  PROVE  out' \in [Clients -> Message] /\ relay' \in [Clients -> RelayPc]
<1>1. [from |-> upto[c], to |-> upto[c], ver |-> version, notes |-> {},
       last |-> last] \in Message
  BY DEF ScreenOK, ClientOK, Message
<1> QED BY <1>1, TaskMoves DEF RenderFull, RelayPc

LEMMA ReaderTypeStep == TypeOK /\ (ReaderStep \/ ChildExit) => TypeOK'
<1> SUFFICES ASSUME TypeOK, ReaderStep \/ ChildExit PROVE TypeOK'
  OBVIOUS
<1> USE DEF sessionVars, screenVars, readerVars, notifyVars, clientVars, relayVars,
           readerFrame, connFrame, attachFrame, relayFrame, endFrame
<1> USE TypeFrames
<1>1. ASSUME NEW kind \in Kinds, ReaderChunk(kind) PROVE TypeOK'
  <2>1. version' \in Nat /\ scrolled' \in Nat /\ taken' \in Nat /\ noted' \in Nat
    BY <1>1 DEF TypeOK, ScreenOK, ReaderChunk
  <2>2. notes' \subseteq {n \in 1..noted' : n + MaxNotes > noted'}
    <3>1. CASE kind = "note"
      <4>1. noted' = noted + 1 /\ noted \in Nat /\ MaxNotes \in Nat \ {0}
        BY <1>1, <3>1, BoundsAssumption DEF TypeOK, ScreenOK, ReaderChunk
      <4>2. notes' = {n \in notes \cup {noted + 1} : n + MaxNotes > noted + 1}
        BY <1>1, <3>1 DEF ReaderChunk, PushNote
      <4>3. notes \subseteq 1..noted
        BY DEF TypeOK, ScreenOK
      <4>4. ASSUME NEW n \in notes'
            PROVE  n \in 1..noted' /\ n + MaxNotes > noted'
        <5>1. n \in notes \cup {noted + 1} /\ n + MaxNotes > noted + 1
          BY <4>2
        <5>2. n \in 1..(noted + 1)
          BY <4>1, <4>3, <5>1
        <5> QED BY <4>1, <5>1, <5>2
      <4> QED BY <4>4
    <3>2. CASE kind # "note"
      BY <1>1, <3>2 DEF TypeOK, ScreenOK, ReaderChunk
    <3> QED BY <3>1, <3>2
  <2>3. ScreenOK'
    BY <1>1, <2>1, <2>2 DEF TypeOK, ScreenOK, ReaderChunk
  <2> QED BY <1>1, <2>3 DEF TypeOK, ReaderChunk
<1>2. CASE ReaderNotify \/ ReaderLastNotify
  <2>1. NotifyOK'
    BY <1>2, NotifyOneType DEF TypeOK, ReaderNotify, ReaderLastNotify
  <2>2. ScreenOK'
    BY <1>2 DEF TypeOK, ScreenOK, ReaderNotify, ReaderLastNotify
  <2> QED BY <1>2, <2>1, <2>2 DEF TypeOK, ReaderNotify, ReaderLastNotify
<1>3. CASE ReaderEof
  <2>1. ScreenOK'
    BY <1>3 DEF TypeOK, ScreenOK, ReaderEof
  <2> QED BY <1>3, <2>1 DEF TypeOK, ReaderEof
<1>4. CASE ChildExit
  <2>1. SessionOK'
    BY <1>4 DEF TypeOK, SessionOK, ChildExit
  <2> QED BY <1>4, <2>1 DEF TypeOK, ChildExit
<1> QED BY <1>1, <1>2, <1>3, <1>4 DEF ReaderStep

LEMMA EndTypeStep == TypeOK /\ EndStep => TypeOK'
<1> SUFFICES ASSUME TypeOK, EndStep PROVE TypeOK'
  OBVIOUS
<1> USE DEF sessionVars, screenVars, readerVars, notifyVars, clientVars, relayVars,
           readerFrame, connFrame, attachFrame, relayFrame, endFrame
<1>1. UNCHANGED endFrame
  BY DEF EndStep, KillRemove, KillDisconnect, Sweep, DropKill, DropEvict
<1>2. SessionOK'
  <2>1. CASE KillRemove \/ Sweep \/ DropKill
    BY <2>1 DEF TypeOK, SessionOK, KillRemove, Sweep, DropKill
  <2>2. CASE KillDisconnect
    BY <2>2 DEF TypeOK, SessionOK, KillDisconnect
  <2>3. CASE DropEvict
    BY <2>3 DEF TypeOK, SessionOK, DropEvict
  <2> QED BY <2>1, <2>2, <2>3 DEF EndStep
<1> QED BY <1>1, <1>2, TypeFrames DEF TypeOK

LEMMA ConnTypeStep ==
  ASSUME TypeOK, NEW c \in Clients, ConnStep(c)
  PROVE  TypeOK'
<1> USE DEF sessionVars, screenVars, readerVars, notifyVars, clientVars, relayVars,
           readerFrame, connFrame, attachFrame, relayFrame, endFrame
<1> USE TypeFrames
<1>a. SessionOK /\ ScreenOK /\ NotifyOK /\ TaskOK /\ ClientOK
  BY DEF TypeOK
<1>b. ASSUME NEW pc \in ConnPc, conn' = [conn EXCEPT ![c] = pc],
             UNCHANGED <<relay, out, pendingRender, refresh>>
      PROVE  TaskOK'
  BY <1>a, <1>b DEF TaskOK
<1>1. CASE ConnectMark(c)
  <2>1. TaskOK'
    BY <1>1, <1>b DEF ConnectMark, ConnPc
  <2>2. SessionOK'
    BY <1>1, <1>a DEF SessionOK, ConnectMark
  <2>3. contested' \subseteq Clients
    BY <1>1, <1>a DEF ClientOK, ConnectMark
  <2>4. ClientOK'
    BY <1>1, <1>a, <2>3 DEF ClientOK, ConnectMark
  <2> QED BY <1>1, <1>a, <2>1, <2>2, <2>4 DEF TypeOK, ConnectMark
<1>2. CASE ConnectSwitch(c)
  <2>1. TaskOK'
    BY <1>2, <1>b DEF ConnectSwitch, ConnPc
  <2>2. SessionOK'
    BY <1>2, <1>a DEF SessionOK, ConnectSwitch
  <2> QED BY <1>2, <1>a, <2>1, <2>2 DEF TypeOK, ConnectSwitch
<1>3. CASE SetupFail(c) \/ Detach(c) \/ RelayFinished(c)
  <2>1. TaskOK'
    BY <1>3, <1>b DEF SetupFail, Detach, RelayFinished, ConnPc
  <2>2. UNCHANGED <<connFrame, hasClient>>
    BY <1>3 DEF SetupFail, Detach, RelayFinished
  <2> QED BY <1>a, <2>1, <2>2 DEF TypeOK
<1>4. CASE Snapshot(c)
  <2>1. [from |-> 0, to |-> scrolled, ver |-> version, notes |-> notes,
         last |-> FALSE] \in Message
    BY <1>a DEF ScreenOK, Message
  <2>2. TaskOK'
    BY <1>4, <1>a, <2>1, TaskMoves DEF TaskOK, Snapshot, ConnPc
  <2>3. ScreenOK'
    BY <1>4, <1>a DEF ScreenOK, Snapshot
  <2> QED BY <1>4, <1>a, <2>2, <2>3 DEF TypeOK, Snapshot
<1>5. CASE SendInitial(c)
  <2>1. Received(c)
    BY <1>5 DEF SendInitial
  <2>2. TaskOK'
    BY <1>5, <1>a, <2>1, ReceivedType, TaskMoves DEF TaskOK, SendInitial, ConnPc
  <2>3. ClientOK'
    BY <1>5, <1>a, <2>1, ReceivedType DEF ClientOK, SendInitial
  <2> QED BY <1>5, <1>a, <2>2, <2>3 DEF TypeOK, SendInitial
<1>6. CASE SendFail(c)
  <2>1. TaskOK'
    BY <1>6, <1>a, TaskMoves DEF TaskOK, SendFail, ConnPc
  <2> QED BY <1>6, <1>a, <2>1 DEF TypeOK, SendFail
<1>7. CASE DrainStale(c)
  <2>1. TaskOK'
    BY <1>7, <1>b DEF DrainStale, ConnPc
  <2>2. ScreenOK'
    BY <1>7, <1>a DEF ScreenOK, DrainStale
  <2> QED BY <1>7, <1>a, <2>1, <2>2 DEF TypeOK, DrainStale
<1>8. CASE Kick(c)
  <2>1. NotifyOK'
    BY <1>8, <1>a, NotifyOneType DEF Kick
  <2>2. TaskOK'
    BY <1>8, <1>a, TaskMoves DEF TaskOK, Kick, ConnPc, RelayPc
  <2> QED BY <1>8, <1>a, <2>1, <2>2 DEF TypeOK, Kick
<1>9. CASE RequestRefresh(c)
  <2>1. TaskOK'
    BY <1>9, <1>a DEF TaskOK, RequestRefresh
  <2> QED BY <1>9, <1>a, <2>1 DEF TypeOK, RequestRefresh
<1>10. CASE GuardCheck(c)
  <2>1. TaskOK'
    BY <1>10, <1>b DEF GuardCheck, ConnPc
  <2> QED BY <1>10, <1>a, <2>1 DEF TypeOK, GuardCheck
<1>11. CASE GuardClear(c)
  <2>1. TaskOK'
    BY <1>11, <1>b DEF GuardClear, ConnPc
  <2>2. SessionOK'
    BY <1>11, <1>a DEF SessionOK, GuardClear
  <2> QED BY <1>11, <1>a, <2>1, <2>2 DEF TypeOK, GuardClear
<1> QED
  BY <1>1, <1>2, <1>3, <1>4, <1>5, <1>6, <1>7, <1>8, <1>9, <1>10, <1>11 DEF ConnStep

LEMMA RelayTypeStep ==
  ASSUME TypeOK, NEW c \in Clients, RelayStep(c)
  PROVE  TypeOK'
<1> USE DEF sessionVars, screenVars, readerVars, notifyVars, clientVars, relayVars,
           readerFrame, connFrame, attachFrame, relayFrame, endFrame
<1> USE TypeFrames
<1>a. SessionOK /\ ScreenOK /\ NotifyOK /\ TaskOK /\ ClientOK
  BY DEF TypeOK
<1>b. DropNotified(c) => NotifyOK'
  BY <1>a, DropNotifiedType
<1>c. Notified(c) => NotifyOK'
  BY <1>a DEF NotifyOK, Notified
<1>d. ASSUME relay' \in [Clients -> RelayPc], out' \in [Clients -> Message], conn' = conn,
             pendingRender' \in [Clients -> BOOLEAN], refresh' \in [Clients -> BOOLEAN]
      PROVE  TaskOK'
  BY <1>a, <1>d DEF TaskOK
<1>e. pendingRender \in [Clients -> BOOLEAN] /\ refresh \in [Clients -> BOOLEAN]
      /\ out \in [Clients -> Message]
  BY <1>a DEF TaskOK
<1>f. ASSUME NEW last \in BOOLEAN, TakeAndRender(c, last), UNCHANGED readerVars
      PROVE  ScreenOK' /\ out' \in [Clients -> Message] /\ relay' \in [Clients -> RelayPc]
  BY <1>a, <1>f, TakeAndRenderType DEF ScreenOK
<1>1. CASE StartDead(c)
  <2>1. TaskOK'
    BY <1>1, <1>a, <1>d, <1>e, RenderFullType DEF StartDead
  <2> QED BY <1>1, <1>a, <2>1 DEF TypeOK, StartDead, RenderFull
<1>2. CASE StartLive(c)
  <2>1. TaskOK'
    BY <1>2, <1>a, <1>d, <1>e, TaskMoves DEF StartLive, RelayPc
  <2> QED BY <1>2, <1>a, <2>1 DEF TypeOK, StartLive
<1>3. CASE Register(c)
  <2>1. TaskOK'
    BY <1>3, <1>a, <1>d, <1>e, TaskMoves DEF Register, RelayPc
  <2>2. NotifyOK'
    BY <1>3, <1>a DEF Register, NotifyOK
  <2> QED BY <1>3, <1>a, <2>1, <2>2 DEF TypeOK, Register
<1>4. CASE WakeDead(c)
  <2>1. TakeAndRender(c, TRUE) /\ UNCHANGED readerVars
    BY <1>4 DEF WakeDead
  <2>2. ScreenOK' /\ out' \in [Clients -> Message] /\ relay' \in [Clients -> RelayPc]
    BY <1>f, <2>1
  <2>3. TaskOK'
    BY <1>4, <1>d, <1>e, <2>2 DEF WakeDead
  <2> QED BY <1>4, <1>a, <1>c, <2>2, <2>3 DEF TypeOK, WakeDead
<1>5. CASE WakeLive(c)
  <2>1. pendingRender' \in [Clients -> BOOLEAN]
    BY <1>5, <1>e DEF WakeLive
  <2>2. TaskOK'
    BY <1>5, <1>a, <1>d, <1>e, <2>1, TaskMoves DEF WakeLive, RelayPc
  <2> QED BY <1>5, <1>a, <1>c, <2>2 DEF TypeOK, WakeLive
<1>6. CASE Throttle(c)
  <2>1. pendingRender' \in [Clients -> BOOLEAN]
    BY <1>6, <1>e DEF Throttle
  <2>2. ScreenOK' /\ out' \in [Clients -> Message] /\ relay' \in [Clients -> RelayPc]
    <3>1. CASE TakeAndRender(c, FALSE)
      BY <1>6, <1>f, <3>1 DEF Throttle
    <3>2. CASE relay' = [relay EXCEPT ![c] = "poll"] /\ UNCHANGED <<out, screenVars>>
      BY <1>6, <1>a, <1>e, <3>2, TaskMoves DEF Throttle, RelayPc
    <3> QED BY <1>6, <3>1, <3>2 DEF Throttle
  <2>3. TaskOK'
    BY <1>6, <1>d, <1>e, <2>1, <2>2 DEF Throttle
  <2> QED BY <1>6, <1>a, <1>b, <2>2, <2>3 DEF TypeOK, Throttle
<1>7. CASE Refresh(c)
  <2>1. refresh' \in [Clients -> BOOLEAN]
    BY <1>7, <1>e DEF Refresh
  <2>2. TaskOK'
    BY <1>7, <1>a, <1>d, <1>e, <2>1, RenderFullType DEF Refresh
  <2> QED BY <1>7, <1>a, <1>b, <2>2 DEF TypeOK, Refresh, RenderFull
<1>8. CASE EvictSeen(c)
  <2>1. TaskOK'
    BY <1>8, <1>a, <1>e, RelayEndsType DEF EvictSeen
  <2>2. ClientOK'
    BY <1>8, <1>a DEF EvictSeen, ClientOK
  <2> QED BY <1>8, <1>a, <1>b, <2>1, <2>2 DEF TypeOK, EvictSeen
<1>9. CASE Deliver(c)
  <2>1. Received(c)
    BY <1>9 DEF Deliver
  <2>2. /\ upto' \in [Clients -> Nat] /\ lines' \in [Clients -> Int]
        /\ shown' \in [Clients -> Nat] /\ got' \in [Clients -> SUBSET Nat]
        /\ out' \in [Clients -> Message]
    BY <1>a, <2>1, ReceivedType
  <2>3. TaskOK'
    <3>1. CASE RelayEnds(c)
      BY <1>9, <1>a, <2>2, <3>1, RelayEndsType DEF Deliver
    <3>2. CASE ~RelayEnds(c)
      BY <1>9, <1>a, <1>d, <1>e, <2>2, <3>2, TaskMoves DEF Deliver, RelayPc
    <3> QED BY <3>1, <3>2
  <2>4. told' \in [Clients -> {"no", "ended", "killed", "evicted"}]
    BY <1>9, <1>a DEF ClientOK, Deliver
  <2>5. ClientOK'
    BY <1>9, <1>a, <2>2, <2>4 DEF ClientOK, Deliver
  <2> QED BY <1>9, <1>a, <2>3, <2>5 DEF TypeOK, Deliver
<1>10. CASE WriteFail(c)
  <2>1. TaskOK'
    BY <1>10, <1>a, TaskMoves, RelayEndsType DEF WriteFail
  <2> QED BY <1>10, <1>a, <2>1 DEF TypeOK, WriteFail
<1>11. CASE RelayAbort(c)
  <2>1. TaskOK'
    BY <1>11, <1>a, TaskMoves, RelayEndsType DEF RelayAbort
  <2> QED BY <1>11, <1>a, <1>b, <2>1 DEF TypeOK, RelayAbort
<1> QED
  BY <1>1, <1>2, <1>3, <1>4, <1>5, <1>6, <1>7, <1>8, <1>9, <1>10, <1>11 DEF RelayStep

THEOREM TypeInit == Init => TypeOK
<1> SUFFICES ASSUME Init PROVE TypeOK
  OBVIOUS
<1>1. NoMessage \in Message
  BY DEF NoMessage, Message
<1>2. SessionOK
  BY DEF Init, SessionOK
<1>3. ScreenOK
  BY DEF Init, ScreenOK
<1>4. NotifyOK
  <2>1. waiters = <<>> /\ permit = FALSE /\ woken = {}
    BY DEF Init
  <2>2. <<>> \in Seq(Clients)
    OBVIOUS
  <2> QED BY <2>1, <2>2 DEF NotifyOK
<1>5. TaskOK
  BY <1>1 DEF Init, TaskOK, ConnPc, RelayPc
<1>6. ClientOK
  BY DEF Init, ClientOK
<1> QED BY <1>2, <1>3, <1>4, <1>5, <1>6 DEF TypeOK

LEMMA TypeStep == TypeOK /\ [Next]_vars => TypeOK'
<1> SUFFICES ASSUME TypeOK, [Next]_vars PROVE TypeOK'
  OBVIOUS
<1>1. CASE UNCHANGED vars
  BY <1>1, TypeFrames DEF TypeOK, vars, sessionVars, screenVars, readerVars,
     notifyVars, clientVars, relayVars
<1>2. CASE Next
  BY <1>2, ReaderTypeStep, EndTypeStep, ConnTypeStep, RelayTypeStep DEF Next
<1> QED BY <1>1, <1>2

\* The state and the messages of the daemon stay in their types, and the queue
\* of notifications within its limit, in every execution.
THEOREM TypeCorrect == Spec => []TypeOK
<1> QED BY TypeInit, TypeStep, PTL DEF Spec

-----------------------------------------------------------------------------
(* Phases: a relay exists only once its connection has been kicked, and    *)
(* nothing happens to a connection after its last notice.                  *)

LEMMA PhaseStep == TypeOK /\ PhaseInv /\ [Next]_vars => PhaseInv'
<1> SUFFICES ASSUME TypeOK, PhaseInv, [Next]_vars PROVE PhaseInv'
  OBVIOUS
<1> USE DEF sessionVars, screenVars, readerVars, notifyVars, clientVars, relayVars,
           readerFrame, connFrame, attachFrame, relayFrame, endFrame
<1>a. /\ conn \in [Clients -> ConnPc] /\ relay \in [Clients -> RelayPc]
      /\ told \in [Clients -> {"no", "ended", "killed", "evicted"}]
      /\ reader \in {"read", "notify", "eof", "dead"}
  BY DEF TypeOK, TaskOK, ClientOK, ScreenOK
<1>1. CASE UNCHANGED vars
  BY <1>1 DEF PhaseInv, vars
<1>2. CASE ReaderStep
  <2>1. UNCHANGED <<conn, relay, told>>
    BY <1>2 DEF ReaderStep, ReaderChunk, ReaderNotify, ReaderEof, ReaderLastNotify
  <2>2. readerAlive' <=> reader' \in {"read", "notify"}
    BY <1>2 DEF ReaderStep, ReaderChunk, ReaderNotify, ReaderEof, ReaderLastNotify,
                PhaseInv
  <2> QED BY <2>1, <2>2 DEF PhaseInv
<1>3. CASE ChildExit \/ EndStep
  <2>1. UNCHANGED <<reader, readerAlive, conn, relay, told>>
    BY <1>3 DEF ChildExit, EndStep, KillRemove, KillDisconnect, Sweep, DropKill, DropEvict
  <2> QED BY <2>1 DEF PhaseInv
<1>4. ASSUME NEW c \in Clients, ConnStep(c) PROVE PhaseInv'
  <2>1. UNCHANGED <<reader, readerAlive, told>>
    BY <1>4 DEF ConnStep, ConnectMark, ConnectSwitch, SetupFail, Snapshot,
                SendInitial, SendFail, DrainStale, Kick, RequestRefresh, Detach,
                RelayFinished, GuardCheck, GuardClear, Received
  <2>2. CASE Kick(c)
    <3>1. relay[c] = "none" /\ told[c] = "no"
      BY <2>2 DEF Kick, PhaseInv
    <3> QED BY <1>a, <2>1, <2>2, <3>1 DEF Kick, PhaseInv
  <2>3. CASE ~Kick(c)
    <3>1. relay' = relay
      BY <1>4, <2>3 DEF ConnStep, ConnectMark, ConnectSwitch, SetupFail, Snapshot,
         SendInitial, SendFail, DrainStale, RequestRefresh, Detach, RelayFinished,
         GuardCheck, GuardClear
    <3>2. /\ \A d \in Clients \ {c} : conn'[d] = conn[d]
          /\ conn'[c] \in {"new", "mark", "setup", "send", "drain", "kick"}
               => conn[c] \in {"new", "mark", "setup", "send", "drain", "kick"}
      BY <1>4, <1>a, <2>3 DEF ConnStep, ConnectMark, ConnectSwitch, SetupFail,
         Snapshot, SendInitial, SendFail, DrainStale, RequestRefresh, Detach,
         RelayFinished, GuardCheck, GuardClear
    <3> QED BY <2>1, <3>1, <3>2 DEF PhaseInv
  <2> QED BY <2>2, <2>3
<1>5. ASSUME NEW c \in Clients, RelayStep(c) PROVE PhaseInv'
  <2>1. UNCHANGED <<reader, readerAlive, conn>> /\ relay[c] \notin {"none", "done"}
    BY <1>5 DEF RelayStep, StartDead, StartLive, Register, WakeDead, WakeLive,
       Throttle, Refresh, EvictSeen, Deliver, WriteFail, RelayAbort, Selecting, Notified
  <2>2. /\ \A d \in Clients \ {c} : relay'[d] = relay[d] /\ told'[d] = told[d]
        /\ told'[c] = told[c] \/ relay'[c] = "done"
    <3>1. CASE EvictSeen(c)
      BY <1>a, <3>1 DEF EvictSeen, RelayEnds
    <3>2. CASE Deliver(c)
      BY <1>a, <3>2 DEF Deliver, RelayEnds
    <3>3. CASE WriteFail(c) \/ RelayAbort(c)
      BY <1>a, <3>3 DEF WriteFail, RelayAbort, RelayEnds
    <3>4. CASE Throttle(c)
      BY <1>a, <3>4 DEF Throttle, TakeAndRender
    <3>5. CASE StartDead(c) \/ StartLive(c) \/ Register(c) \/ WakeDead(c)
               \/ WakeLive(c) \/ Refresh(c)
      BY <1>a, <3>5 DEF StartDead, StartLive, Register, WakeDead, WakeLive, Refresh,
         RenderFull, TakeAndRender
    <3> QED BY <1>5, <3>1, <3>2, <3>3, <3>4, <3>5 DEF RelayStep
  <2>3. told[c] = "no" /\ conn[c] \notin {"new", "mark", "setup", "send", "drain", "kick"}
    BY <1>a, <2>1 DEF PhaseInv
  <2> QED BY <1>a, <2>1, <2>2, <2>3 DEF PhaseInv
<1> QED BY <1>1, <1>2, <1>3, <1>4, <1>5 DEF Next

THEOREM PhaseCorrect == Spec => []PhaseInv
<1>1. Init => PhaseInv
  BY DEF Init, PhaseInv
<1> QED BY <1>1, PhaseStep, TypeCorrect, PTL DEF Spec

-----------------------------------------------------------------------------
(* Lines: what a connection has received lies behind pending_scrollback.   *)

(* A connection that takes no part in a step stays behind.                 *)
LEMMA BehindFrame ==
  ASSUME TypeOK, NEW d \in Clients, Behind(d),
         conn'[d] = conn[d], relay'[d] = relay[d], out'[d] = out[d],
         upto'[d] = upto[d], shown'[d] = shown[d],
         taken <= taken', taken' \in Nat, scrolled <= scrolled', scrolled' \in Nat,
         version <= version', version' \in Nat,
         readerAlive => readerAlive' \/ version' = version,
         ~readerAlive => ~readerAlive' /\ version' = version
  PROVE  Behind(d)'
<1>1. /\ taken \in Nat /\ scrolled \in Nat /\ version \in Nat
      /\ upto[d] \in Nat /\ shown[d] \in Nat
      /\ out[d].from \in Nat /\ out[d].to \in Nat /\ out[d].ver \in Nat
  BY DEF TypeOK, ScreenOK, TaskOK, ClientOK, Message
<1> QED BY <1>1 DEF Behind, Relaying

LEMMA LineStep == TypeOK /\ PhaseInv /\ LineInv /\ [Next]_vars => LineInv'
<1> SUFFICES ASSUME TypeOK, PhaseInv, LineInv, [Next]_vars PROVE LineInv'
  OBVIOUS
<1> USE DEF sessionVars, screenVars, readerVars, notifyVars, clientVars, relayVars,
           readerFrame, connFrame, attachFrame, relayFrame, endFrame
<1>a. /\ taken \in Nat /\ scrolled \in Nat /\ version \in Nat /\ taken <= scrolled
      /\ readerAlive \in BOOLEAN
      /\ conn \in [Clients -> ConnPc] /\ relay \in [Clients -> RelayPc]
      /\ out \in [Clients -> Message]
      /\ upto \in [Clients -> Nat] /\ shown \in [Clients -> Nat]
  BY DEF TypeOK, ScreenOK, TaskOK, ClientOK, LineInv
<1>b. \A d \in Clients : out[d].from \in Nat /\ out[d].to \in Nat /\ out[d].ver \in Nat
  BY <1>a DEF Message
<1>c. \A d \in Clients : Behind(d)
  BY DEF LineInv
<1>1. ASSUME UNCHANGED <<conn, relay, out, upto, shown, taken, scrolled, version,
                         readerAlive>>
      PROVE  LineInv'
  BY <1>1 DEF LineInv, Behind, Relaying
<1>2. ASSUME NEW kind \in Kinds, ReaderChunk(kind) PROVE LineInv'
  <2>1. /\ version' \in Nat /\ version <= version' /\ scrolled' \in Nat
        /\ scrolled <= scrolled' /\ taken' \in {taken, scrolled'}
        /\ UNCHANGED <<conn, relay, out, upto, shown, readerAlive>> /\ readerAlive
    BY <1>2, <1>a DEF ReaderChunk, PhaseInv
  <2>2. taken' \in Nat /\ taken <= taken' /\ taken' <= scrolled'
    BY <1>a, <2>1
  <2>3. ASSUME NEW d \in Clients PROVE Behind(d)'
    BY <1>c, <2>1, <2>2, BehindFrame
  <2> QED BY <2>2, <2>3 DEF LineInv
<1>3. CASE ReaderEof
  <2>1. /\ ~readerAlive' /\ readerAlive
        /\ UNCHANGED <<conn, relay, out, upto, shown, taken, scrolled, version>>
    BY <1>3 DEF ReaderEof, PhaseInv
  <2>2. ASSUME NEW d \in Clients PROVE Behind(d)'
    BY <1>a, <1>c, <2>1, BehindFrame
  <2> QED BY <1>a, <2>1, <2>2 DEF LineInv
<1>4. CASE UNCHANGED vars \/ ReaderNotify \/ ReaderLastNotify \/ ChildExit \/ EndStep
  BY <1>1, <1>4 DEF vars, ReaderNotify, ReaderLastNotify, ChildExit, EndStep,
     KillRemove, KillDisconnect, Sweep, DropKill, DropEvict
\* A step of connection c or its relay: every other connection is as it was.
<1>5. ASSUME NEW c \in Clients, UNCHANGED <<scrolled, version, readerAlive>>,
             taken' \in {taken, scrolled},
             \A d \in Clients \ {c} :
               /\ conn'[d] = conn[d] /\ relay'[d] = relay[d] /\ out'[d] = out[d]
               /\ upto'[d] = upto[d] /\ shown'[d] = shown[d],
             Behind(c)'
      PROVE  LineInv'
  <2>1. taken' \in Nat /\ taken <= taken' /\ taken' <= scrolled'
    BY <1>5, <1>a
  <2>2. ASSUME NEW d \in Clients \ {c} PROVE Behind(d)'
    BY <1>a, <1>c, <1>5, <2>1, <2>2, BehindFrame
  <2> QED BY <1>5, <2>1, <2>2 DEF LineInv
<1>6. ASSUME NEW c \in Clients, ConnStep(c) PROVE LineInv'
  <2>a. Behind(c)
    BY <1>c
  <2>1. ASSUME NEW pc \in ConnPc, conn' = [conn EXCEPT ![c] = pc],
               UNCHANGED <<relay, out, upto, shown, scrolled, taken, version, readerAlive>>,
               pc \notin {"send", "kick"},
               pc \in {"new", "mark", "setup"} => conn[c] \in {"new", "mark", "setup"}
        PROVE  LineInv'
    <3>1. conn'[c] = pc /\ \A d \in Clients \ {c} : conn'[d] = conn[d]
      BY <1>a, <2>1
    <3>2. Behind(c)'
      BY <2>a, <2>1, <3>1 DEF Behind, Relaying
    <3> QED BY <1>5, <2>1, <3>1, <3>2
  <2>2. CASE ConnectMark(c) \/ ConnectSwitch(c)
    BY <2>1, <2>2 DEF ConnectMark, ConnectSwitch, ConnPc
  <2>3. CASE SetupFail(c) \/ Detach(c) \/ RelayFinished(c)
    BY <2>1, <2>3 DEF SetupFail, Detach, RelayFinished, ConnPc
  <2>4. CASE GuardCheck(c) \/ GuardClear(c)
    BY <2>1, <2>4 DEF GuardCheck, GuardClear, ConnPc
  <2>5. CASE RequestRefresh(c)
    BY <1>1, <2>5 DEF RequestRefresh
  <2>6. CASE Snapshot(c)
    <3>1. /\ conn'[c] = "send" /\ \A d \in Clients \ {c} : conn'[d] = conn[d]
          /\ out'[c].from = 0 /\ out'[c].to = scrolled /\ out'[c].ver = version
          /\ \A d \in Clients \ {c} : out'[d] = out[d]
          /\ UNCHANGED <<relay, upto, shown, scrolled, taken, version, readerAlive>>
      BY <1>a, <2>6 DEF Snapshot
    <3>2. conn[c] = "setup" /\ relay[c] = "none"
      BY <2>6 DEF Snapshot, PhaseInv
    <3>3. Behind(c)'
      BY <1>a, <2>a, <3>1, <3>2 DEF Behind, Relaying
    <3> QED BY <1>5, <3>1, <3>3
  <2>7. CASE SendInitial(c)
    <3>1. /\ conn'[c] = "drain" /\ upto'[c] = out[c].to /\ shown'[c] = out[c].ver
          /\ \A d \in Clients \ {c} :
               /\ conn'[d] = conn[d] /\ out'[d] = out[d]
               /\ upto'[d] = upto[d] /\ shown'[d] = shown[d]
          /\ UNCHANGED <<relay, scrolled, taken, version, readerAlive>>
      BY <1>a, <2>7 DEF SendInitial, Received
    <3>2. conn[c] = "send" /\ relay[c] = "none"
      BY <2>7 DEF SendInitial, PhaseInv
    <3>3. Behind(c)'
      BY <2>a, <3>1, <3>2 DEF Behind, Relaying
    <3> QED BY <1>5, <3>1, <3>3
  <2>8. CASE SendFail(c)
    <3>1. /\ conn'[c] = "guard"
          /\ \A d \in Clients \ {c} : conn'[d] = conn[d] /\ out'[d] = out[d]
          /\ UNCHANGED <<relay, upto, shown, scrolled, taken, version, readerAlive>>
      BY <1>a, <2>8 DEF SendFail
    <3>2. relay[c] = "none"
      BY <2>8 DEF SendFail, PhaseInv
    <3>3. Behind(c)'
      BY <2>a, <3>1, <3>2 DEF Behind, Relaying
    <3> QED BY <1>5, <3>1, <3>3
  <2>9. CASE DrainStale(c)
    <3>1. /\ conn'[c] = "kick" /\ \A d \in Clients \ {c} : conn'[d] = conn[d]
          /\ taken' = scrolled
          /\ UNCHANGED <<relay, out, upto, shown, scrolled, version, readerAlive>>
      BY <1>a, <2>9 DEF DrainStale
    <3>2. relay[c] = "none"
      BY <2>9 DEF DrainStale, PhaseInv
    <3>3. Behind(c)'
      BY <2>a, <3>1, <3>2 DEF Behind, Relaying
    <3> QED BY <1>5, <3>1, <3>3
  <2>10. CASE Kick(c)
    <3>1. /\ conn[c] = "kick" /\ conn'[c] = "bridge" /\ relay'[c] = "start"
          /\ \A d \in Clients \ {c} : conn'[d] = conn[d] /\ relay'[d] = relay[d]
          /\ UNCHANGED <<out, upto, shown, scrolled, taken, version, readerAlive>>
      BY <1>a, <2>10 DEF Kick
    <3>2. Behind(c)'
      BY <2>a, <3>1 DEF Behind, Relaying
    <3> QED BY <1>5, <3>1, <3>2
  <2> QED
    BY <1>6, <2>2, <2>3, <2>4, <2>5, <2>6, <2>7, <2>8, <2>9, <2>10 DEF ConnStep
<1>7. ASSUME NEW c \in Clients, RelayStep(c) PROVE LineInv'
  <2>a. Behind(c)
    BY <1>c
  <2>b. conn[c] \notin {"new", "mark", "setup", "send", "kick"}
    BY <1>7 DEF PhaseInv, RelayStep, StartDead, StartLive, Register, WakeDead, WakeLive,
       Throttle, Refresh, EvictSeen, Deliver, WriteFail, RelayAbort, Selecting, Notified
  \* The relay moves on without a message.
  <2>1. ASSUME NEW pc \in RelayPc, relay' = [relay EXCEPT ![c] = pc],
               pc \in {"done", "poll", "wait"},
               pc # "done" => Relaying(c),
               \A d \in Clients \ {c} : out'[d] = out[d],
               UNCHANGED <<conn, upto, shown, scrolled, taken, version, readerAlive>>
        PROVE  LineInv'
    <3>1. relay'[c] = pc /\ \A d \in Clients \ {c} : relay'[d] = relay[d]
      BY <1>a, <2>1
    <3>2. Behind(c)'
      BY <2>a, <2>b, <2>1, <3>1 DEF Behind, Relaying
    <3> QED BY <1>5, <2>1, <3>1, <3>2
  <2>2. CASE StartLive(c) \/ Register(c) \/ WakeLive(c)
    <3>1. Relaying(c) /\ UNCHANGED <<out, conn, upto, shown, scrolled, taken, version,
                                     readerAlive>>
      BY <2>2 DEF StartLive, Register, WakeLive, Notified, Relaying
    <3> QED BY <2>1, <2>2, <3>1 DEF StartLive, Register, WakeLive, RelayPc
  <2>3. CASE EvictSeen(c)
    BY <2>1, <2>3 DEF EvictSeen, RelayEnds, RelayPc
  <2>4. CASE WriteFail(c) \/ RelayAbort(c)
    <3>1. /\ relay' = [relay EXCEPT ![c] = "done"]
          /\ UNCHANGED <<conn, upto, shown, scrolled, taken, version, readerAlive>>
      BY <2>4 DEF WriteFail, RelayAbort, RelayEnds
    <3>2. \A d \in Clients \ {c} : out'[d] = out[d]
      BY <1>a, <2>4 DEF WriteFail, RelayAbort
    <3> QED BY <2>1, <3>1, <3>2 DEF RelayPc
  \* The relay takes what is pending, or a painting only.
  <2>5. ASSUME NEW last \in BOOLEAN, TakeAndRender(c, last), last => ~readerAlive,
               Relaying(c), UNCHANGED <<upto, shown, conn, readerAlive>>
        PROVE  LineInv'
    <3>1. /\ relay'[c] = "write" /\ taken' = scrolled
          /\ out'[c].from = taken /\ out'[c].to = scrolled /\ out'[c].ver = version
          /\ out'[c].last = last
          /\ \A d \in Clients \ {c} : relay'[d] = relay[d] /\ out'[d] = out[d]
          /\ UNCHANGED <<scrolled, version>>
      BY <1>a, <2>5 DEF TakeAndRender
    <3>2. Behind(c)'
      BY <1>a, <2>a, <2>b, <2>5, <3>1 DEF Behind, Relaying
    <3> QED BY <1>5, <2>5, <3>1, <3>2
  <2>6. ASSUME NEW last \in BOOLEAN, RenderFull(c, last), last => ~readerAlive,
               Relaying(c), UNCHANGED <<upto, shown, conn, readerAlive>>
        PROVE  LineInv'
    <3>1. /\ relay'[c] = "write"
          /\ out'[c].from = upto[c] /\ out'[c].to = upto[c] /\ out'[c].ver = version
          /\ out'[c].last = last
          /\ \A d \in Clients \ {c} : relay'[d] = relay[d] /\ out'[d] = out[d]
          /\ UNCHANGED <<scrolled, taken, version>>
      BY <1>a, <2>6 DEF RenderFull
    <3>2. Behind(c)'
      BY <1>a, <2>a, <2>b, <2>6, <3>1 DEF Behind, Relaying
    <3> QED BY <1>5, <2>6, <3>1, <3>2
  <2>7. CASE StartDead(c)
    BY <2>6, <2>7 DEF StartDead, Relaying
  <2>8. CASE Refresh(c)
    BY <2>6, <2>8 DEF Refresh, Selecting, Relaying
  <2>9. CASE WakeDead(c)
    BY <2>5, <2>9 DEF WakeDead, Notified, Relaying
  <2>10. CASE Throttle(c)
    <3>1. Relaying(c) /\ UNCHANGED <<upto, shown, conn, readerAlive>>
      BY <2>10 DEF Throttle, Selecting, Relaying
    <3>2. CASE TakeAndRender(c, FALSE)
      BY <2>5, <3>1, <3>2
    <3>3. CASE relay' = [relay EXCEPT ![c] = "poll"] /\ UNCHANGED <<out, screenVars>>
      BY <2>1, <3>1, <3>3 DEF RelayPc
    <3> QED BY <2>10, <3>2, <3>3 DEF Throttle
  <2>11. CASE Deliver(c)
    <3>1. /\ relay[c] = "write" /\ conn' = conn
          /\ \A d \in Clients \ {c} : relay'[d] = relay[d]
          /\ relay'[c] \in {"done", "poll"}
      BY <1>a, <2>11 DEF Deliver, RelayEnds
    <3>2. /\ \A d \in Clients \ {c} :
               out'[d] = out[d] /\ upto'[d] = upto[d] /\ shown'[d] = shown[d]
          /\ upto'[c] = out[c].to /\ shown'[c] = out[c].ver
          /\ UNCHANGED <<taken, scrolled, version, readerAlive>>
      BY <1>a, <2>11 DEF Deliver, Received
    <3>3. Behind(c)'
      BY <1>a, <1>b, <2>a, <2>b, <3>1, <3>2 DEF Behind, Relaying
    <3> QED BY <1>5, <3>1, <3>2, <3>3
  <2> QED
    BY <1>7, <2>2, <2>3, <2>4, <2>7, <2>8, <2>9, <2>10, <2>11 DEF RelayStep
<1> QED BY <1>2, <1>3, <1>4, <1>6, <1>7 DEF Next, ReaderStep

THEOREM LineCorrect == Spec => []LineInv
<1>1. Init => LineInv
  BY DEF Init, LineInv, Behind, Relaying
<1> QED BY <1>1, LineStep, TypeCorrect, PhaseCorrect, PTL DEF Spec

\* No line that scrolled off reaches a connection twice, whatever connections
\* overlap and evict one another.
THEOREM LinesOnce == Spec => []NoRepeatedLine
<1>1. TypeOK /\ LineInv => NoRepeatedLine
  BY DEF TypeOK, ScreenOK, TaskOK, ClientOK, Message, LineInv, Behind, NoRepeatedLine,
     Relaying
<1> QED BY <1>1, TypeCorrect, LineCorrect, PTL

-----------------------------------------------------------------------------
(* Ownership: who may still be evicted, and by whom.                       *)

LEMMA OwnerStep ==
  TypeOK /\ OwnerInv /\ Evictable /\ [Next]_vars => OwnerInv' /\ Evictable'
<1> SUFFICES ASSUME TypeOK, OwnerInv, Evictable, [Next]_vars
             PROVE  OwnerInv' /\ Evictable'
  OBVIOUS
<1> USE ClientsAssumption DEF sessionVars, screenVars, readerVars, notifyVars, clientVars, relayVars, readerFrame,
       connFrame, attachFrame, relayFrame, endFrame, Attached
<1>1. ASSUME UNCHANGED <<sessionVars, conn>> PROVE OwnerInv' /\ Evictable'
  BY <1>1 DEF OwnerInv, Evictable
<1>2. CASE UNCHANGED vars
  BY <1>1, <1>2 DEF vars
<1>3. CASE ReaderStep
  BY <1>1, <1>3 DEF ReaderStep, ReaderChunk, ReaderNotify, ReaderEof, ReaderLastNotify
<1>4. CASE ChildExit \/ DropKill
  BY <1>4 DEF ChildExit, DropKill, OwnerInv, Evictable
<1>5. CASE KillRemove \/ Sweep
  BY <1>5 DEF KillRemove, Sweep, OwnerInv, Evictable
<1>6. CASE KillDisconnect \/ DropEvict
  <2>1. evictTx' = NoClient /\ UNCHANGED <<inMap, mgr, conn>> /\ ~inMap'
    BY <1>6 DEF KillDisconnect, DropEvict, OwnerInv
  <2>2. OwnerInv'
    BY <1>6, <2>1 DEF KillDisconnect, DropEvict, OwnerInv
  <2>3. ASSUME NEW d \in Clients, evict[d] = "live", evictTx = d
        PROVE  evict'[d] # "live"
    BY <1>6, <2>3 DEF KillDisconnect, DropEvict, TypeOK, SessionOK
  <2>4. \A d \in Clients : evict'[d] = "live" => evict[d] = "live"
    BY <1>6 DEF KillDisconnect, DropEvict, TypeOK, SessionOK
  <2>5. Evictable'
    BY <2>1, <2>3, <2>4 DEF Evictable
  <2> QED BY <2>2, <2>5
<1>7. ASSUME NEW c \in Clients, RelayStep(c) PROVE OwnerInv' /\ Evictable'
  BY <1>1, <1>7 DEF RelayStep, StartDead, StartLive, Register, WakeDead, WakeLive,
     Throttle, Refresh, EvictSeen, Deliver, WriteFail, RelayAbort
<1>8. ASSUME NEW c \in Clients, ConnStep(c) PROVE OwnerInv' /\ Evictable'
  <2>1. CASE ConnectMark(c)
    BY <2>1 DEF ConnectMark, TypeOK, SessionOK, TaskOK, OwnerInv, Evictable
  <2>2. CASE ConnectSwitch(c)
    BY <2>2 DEF ConnectSwitch, TypeOK, SessionOK, TaskOK, OwnerInv, Evictable
  <2>3. ASSUME UNCHANGED sessionVars, NEW pc \in ConnPc \ {"mark"},
               conn' = [conn EXCEPT ![c] = pc],
               Attached(c) \/ pc \in {"guard", "clear", "gone"}
        PROVE  OwnerInv' /\ Evictable'
    <3>1. conn'[c] = pc /\ \A d \in Clients : d # c => conn'[d] = conn[d]
      BY <2>3 DEF TypeOK, TaskOK
    <3> QED BY <2>3, <3>1 DEF OwnerInv, Evictable, ConnPc
  <2>4. CASE SetupFail(c) \/ Detach(c) \/ RelayFinished(c) \/ SendFail(c)
    BY <2>3, <2>4 DEF SetupFail, Detach, RelayFinished, SendFail, ConnPc
  <2>5. CASE GuardClear(c)
    BY <2>3, <2>5 DEF GuardClear, ConnPc
  <2>6. CASE GuardCheck(c)
    BY <2>3, <2>6 DEF GuardCheck, ConnPc
  <2>7. CASE Snapshot(c)
    BY <2>3, <2>7 DEF Snapshot, ConnPc
  <2>8. CASE SendInitial(c)
    BY <2>3, <2>8 DEF SendInitial, ConnPc
  <2>9. CASE DrainStale(c)
    BY <2>3, <2>9 DEF DrainStale, ConnPc
  <2>10. CASE Kick(c)
    BY <2>3, <2>10 DEF Kick, ConnPc
  <2>11. CASE RequestRefresh(c)
    BY <1>1, <2>11 DEF RequestRefresh
  <2> QED
    BY <1>8, <2>1, <2>2, <2>4, <2>5, <2>6, <2>7, <2>8, <2>9, <2>10, <2>11 DEF ConnStep
<1> QED BY <1>2, <1>3, <1>4, <1>5, <1>6, <1>7, <1>8 DEF Next, EndStep

LEMMA OwnerCorrect == Spec => [](OwnerInv /\ Evictable)
<1>1. Init => OwnerInv /\ Evictable
  BY DEF Init, OwnerInv, Evictable, Attached
<1> QED BY <1>1, OwnerStep, TypeCorrect, PTL DEF Spec

\* Every attached client that was not replaced can still be evicted or killed.
THEOREM EvictableAlways == Spec => []Evictable
<1> QED BY OwnerCorrect, PTL

\* When a removed session has been dropped, every attached client was told.
THEOREM NoOrphanEver == Spec => []NoOrphan
<1>1. OwnerInv /\ Evictable => NoOrphan
  BY ClientsAssumption DEF OwnerInv, Evictable, NoOrphan
<1> QED BY <1>1, OwnerCorrect, PTL

-----------------------------------------------------------------------------
(* has_client: a connection that overlaps no other one keeps it set.       *)

LEMMA AloneStep == TypeOK /\ PhaseInv /\ AloneInv /\ [Next]_vars => AloneInv'
<1> SUFFICES ASSUME TypeOK, PhaseInv, AloneInv, [Next]_vars PROVE AloneInv'
  OBVIOUS
<1> USE DEF sessionVars, screenVars, readerVars, notifyVars, clientVars, relayVars,
           readerFrame, connFrame, attachFrame, relayFrame, endFrame
<1>a. /\ conn \in [Clients -> ConnPc] /\ relay \in [Clients -> RelayPc]
      /\ contested \subseteq Clients
  BY DEF TypeOK, TaskOK, ClientOK
(* A step that makes nobody present, and after which nobody is attached    *)
(* who was not on the way before, keeps the invariant.                     *)
<1>b. ASSUME UNCHANGED <<hasClient, contested>>,
             \A d \in Clients : Present(d)' => Present(d),
             \A d \in Clients : (conn[d] = "mark" \/ Attached(d))'
                                 => conn[d] = "mark" \/ Attached(d)
      PROVE  AloneInv'
  BY <1>b DEF AloneInv
<1>1. CASE UNCHANGED vars
  BY <1>1, <1>b DEF vars, Present, Attached
<1>2. CASE ReaderStep
  BY <1>2, <1>b DEF ReaderStep, ReaderChunk, ReaderNotify, ReaderEof, ReaderLastNotify,
     Present, Attached
<1>3. CASE ChildExit \/ EndStep
  BY <1>3, <1>b DEF ChildExit, EndStep, KillRemove, KillDisconnect, Sweep, DropKill,
     DropEvict, Present, Attached
<1>4. ASSUME NEW c \in Clients, ConnStep(c) PROVE AloneInv'
  <2>1. CASE ConnectMark(c)
    <3> DEFINE others == {d \in Clients : Present(d)}
    <3>1. /\ hasClient' = TRUE /\ relay' = relay
          /\ \A d \in Clients \ {c} : conn'[d] = conn[d]
          /\ contested' = IF others = {} THEN contested ELSE contested \cup others \cup {c}
      BY <1>a, <2>1 DEF ConnectMark
    <3>2. \A d \in Clients \ {c} : Present(d)' => d \in others
      BY <3>1 DEF Present
    <3>3. ASSUME NEW d \in Clients, NEW e \in Clients, d # e, Present(d)', Present(e)'
          PROVE  d \in contested'
      <4>1. d \in others \/ e \in others
        BY <3>2, <3>3
      <4>2. d \in others \/ d = c
        BY <3>2, <3>3
      <4> QED BY <3>1, <4>1, <4>2
    <3> QED BY <3>1, <3>3 DEF AloneInv
  <2>2. CASE GuardClear(c)
    <3>1. /\ conn' = [conn EXCEPT ![c] = "gone"] /\ UNCHANGED <<relay, contested>>
          /\ conn[c] = "clear"
      BY <2>2 DEF GuardClear
    <3>2. \A d \in Clients : Present(d)' => Present(d)
      BY <1>a, <3>1 DEF Present
    <3>3. \A d \in Clients : (conn[d] = "mark" \/ Attached(d))' => d # c /\ Present(d)
      BY <1>a, <3>1 DEF Present, Attached
    <3>4. Present(c)
      BY <3>1 DEF Present
    <3> QED BY <3>1, <3>2, <3>3, <3>4 DEF AloneInv
  <2>3. CASE Kick(c)
    <3>1. /\ conn' = [conn EXCEPT ![c] = "bridge"] /\ conn[c] = "kick"
          /\ relay' = [relay EXCEPT ![c] = "start"] /\ UNCHANGED <<hasClient, contested>>
      BY <2>3 DEF Kick
    <3> QED BY <1>a, <1>b, <3>1 DEF Present, Attached
  <2>4. CASE ~(ConnectMark(c) \/ GuardClear(c) \/ Kick(c))
    <3>1. /\ UNCHANGED <<relay, hasClient, contested>>
          /\ \A d \in Clients \ {c} : conn'[d] = conn[d]
          /\ conn'[c] = conn[c] \/ conn[c] \notin {"new", "gone"}
          /\ conn'[c] \in {"mark", "setup", "send", "drain", "kick", "bridge"}
               => conn[c] \in {"mark", "setup", "send", "drain", "kick", "bridge"}
      BY <1>4, <1>a, <2>4 DEF ConnStep, ConnectSwitch, SetupFail, Snapshot, SendInitial,
         SendFail, DrainStale, RequestRefresh, Detach, RelayFinished, GuardCheck
    <3> QED BY <1>b, <3>1 DEF Present, Attached
  <2> QED BY <2>1, <2>2, <2>3, <2>4
<1>5. ASSUME NEW c \in Clients, RelayStep(c) PROVE AloneInv'
  <2>1. UNCHANGED <<conn, hasClient, contested>> /\ relay[c] \notin {"none", "done"}
    BY <1>5 DEF RelayStep, StartDead, StartLive, Register, WakeDead, WakeLive,
       Throttle, Refresh, EvictSeen, Deliver, WriteFail, RelayAbort, Selecting, Notified
  <2>2. \A d \in Clients \ {c} : relay'[d] = relay[d]
    BY <1>5, <1>a DEF RelayStep, StartDead, StartLive, Register, WakeDead, WakeLive,
       Throttle, Refresh, EvictSeen, Deliver, WriteFail, RelayAbort, RelayEnds,
       RenderFull, TakeAndRender
  <2> QED BY <1>b, <2>1, <2>2 DEF Present, Attached
<1> QED BY <1>1, <1>2, <1>3, <1>4, <1>5 DEF Next

\* Unless connections overlap, the reader finds has_client set as long as a
\* client is attached.
THEOREM HasClientKept == Spec => []HasClientAlone
<1>1. Init => AloneInv
  BY DEF Init, AloneInv, Present, Attached
<1>2. AloneInv => HasClientAlone
  BY DEF AloneInv, HasClientAlone
<1> QED BY <1>1, <1>2, AloneStep, TypeCorrect, PhaseCorrect, PTL DEF Spec

-----------------------------------------------------------------------------
(* Notifications: each leaves the queue with one message.                  *)

(* The queue goes into the message of connection c.                        *)
LEMMA NotesTaken ==
  ASSUME TypeOK, NoteInv, NEW c \in Clients, NEW m \in Message, m.notes = notes,
         out' = [out EXCEPT ![c] = m], notes' = {}, UNCHANGED <<got, noted>>
  PROVE  NoteInv'
<1>1. out \in [Clients -> Message] /\ notes \subseteq 1..noted
  BY DEF TypeOK, TaskOK, ScreenOK
<1>2. out'[c].notes = notes /\ \A d \in Clients \ {c} : out'[d] = out[d]
  BY <1>1
<1>3. \A d \in Clients : out'[d].notes = IF d = c THEN notes ELSE out[d].notes
  BY <1>2
<1> SUFFICES ASSUME NEW a \in Clients, NEW d \in Clients
             PROVE  /\ got[a] \cap out'[d].notes = {}
                    /\ a # d => got[a] \cap got[d] = {} /\ out'[a].notes \cap out'[d].notes = {}
                    /\ got[a] \cup out'[a].notes \subseteq 1..noted
  BY DEF NoteInv, NoteOnce
<1>4. /\ got[a] \cap notes = {} /\ out[a].notes \cap notes = {} /\ out[d].notes \cap notes = {}
      /\ got[a] \cap out[d].notes = {}
      /\ a # d => got[a] \cap got[d] = {} /\ out[a].notes \cap out[d].notes = {}
      /\ got[a] \cup out[a].notes \subseteq 1..noted
  BY DEF NoteInv, NoteOnce
<1> QED BY <1>1, <1>3, <1>4

(* A message without notifications takes the place of another one.         *)
LEMMA NotesDropped ==
  ASSUME TypeOK, NoteInv, NEW c \in Clients, NEW m \in Message, m.notes = {},
         out' = [out EXCEPT ![c] = m], UNCHANGED <<got, notes, noted>>
  PROVE  NoteInv'
<1>1. out \in [Clients -> Message]
  BY DEF TypeOK, TaskOK
<1>2. out'[c].notes = {} /\ \A d \in Clients \ {c} : out'[d] = out[d]
  BY <1>1
<1> QED BY <1>2 DEF NoteInv, NoteOnce

(* The message of connection c arrives.                                    *)
LEMMA NotesArrive ==
  ASSUME TypeOK, NoteInv, NEW c \in Clients, Received(c), UNCHANGED <<notes, noted>>
  PROVE  NoteInv'
<1>1. out \in [Clients -> Message] /\ got \in [Clients -> SUBSET Nat]
  BY DEF TypeOK, TaskOK, ClientOK
<1>2. /\ out'[c].notes = {} /\ \A d \in Clients \ {c} : out'[d] = out[d]
      /\ got'[c] = got[c] \cup out[c].notes /\ \A d \in Clients \ {c} : got'[d] = got[d]
  BY <1>1 DEF Received, NoMessage
<1> QED BY <1>2 DEF NoteInv, NoteOnce

LEMMA NoteStep == TypeOK /\ NoteInv /\ [Next]_vars => NoteInv'
<1> SUFFICES ASSUME TypeOK, NoteInv, [Next]_vars PROVE NoteInv'
  OBVIOUS
<1> USE DEF sessionVars, screenVars, readerVars, notifyVars, clientVars, relayVars,
           readerFrame, connFrame, attachFrame, relayFrame, endFrame
<1>a. ScreenOK /\ TaskOK /\ ClientOK
  BY DEF TypeOK
<1>b. ASSUME UNCHANGED <<out, got, notes, noted>> PROVE NoteInv'
  BY <1>b DEF NoteInv, NoteOnce
<1>c. NoMessage \in Message /\ NoMessage.notes = {}
  BY DEF NoMessage, Message
<1>d. ASSUME NEW c \in Clients, NEW last \in BOOLEAN, TakeAndRender(c, last),
             UNCHANGED got
      PROVE  NoteInv'
  <2>1. [from |-> taken, to |-> scrolled, ver |-> version, notes |-> notes,
         last |-> last] \in Message
    BY <1>a DEF ScreenOK, Message
  <2> QED BY <1>d, <2>1, NotesTaken DEF TakeAndRender
<1>e. ASSUME NEW c \in Clients, NEW last \in BOOLEAN, RenderFull(c, last),
             UNCHANGED got
      PROVE  NoteInv'
  <2>1. [from |-> upto[c], to |-> upto[c], ver |-> version, notes |-> {},
         last |-> last] \in Message
    BY <1>a DEF ScreenOK, ClientOK, Message
  <2> QED BY <1>e, <2>1, NotesDropped DEF RenderFull
<1>1. CASE UNCHANGED vars
  BY <1>1, <1>b DEF vars
<1>2. ASSUME NEW kind \in Kinds, ReaderChunk(kind) PROVE NoteInv'
  <2>1. CASE kind = "note"
    <3>1. noted \in Nat /\ noted' = noted + 1 /\ notes' \subseteq notes \cup {noted + 1}
      BY <1>2, <1>a, <2>1 DEF ReaderChunk, PushNote, ScreenOK
    <3>2. \A c \in Clients : noted + 1 \notin got[c] \cup out[c].notes
      BY <3>1 DEF NoteInv
    <3>3. 1..noted \subseteq 1..noted'
      BY <3>1
    <3> QED BY <1>2, <3>1, <3>2, <3>3 DEF ReaderChunk, NoteInv, NoteOnce
  <2>2. CASE kind # "note"
    BY <1>2, <1>b, <2>2 DEF ReaderChunk
  <2> QED BY <2>1, <2>2
<1>3. CASE ReaderNotify \/ ReaderEof \/ ReaderLastNotify \/ ChildExit \/ EndStep
  BY <1>3, <1>b DEF ReaderNotify, ReaderEof, ReaderLastNotify, ChildExit, EndStep,
     KillRemove, KillDisconnect, Sweep, DropKill, DropEvict
<1>4. ASSUME NEW c \in Clients, ConnStep(c) PROVE NoteInv'
  <2>1. CASE Snapshot(c)
    <3>1. [from |-> 0, to |-> scrolled, ver |-> version, notes |-> notes,
           last |-> FALSE] \in Message
      BY <1>a DEF ScreenOK, Message
    <3> QED BY <2>1, <3>1, NotesTaken DEF Snapshot
  <2>2. CASE SendInitial(c)
    BY <2>2, NotesArrive DEF SendInitial
  <2>3. CASE SendFail(c)
    BY <2>3, <1>c, NotesDropped DEF SendFail
  <2>4. CASE ~(Snapshot(c) \/ SendInitial(c) \/ SendFail(c))
    BY <1>4, <1>b, <2>4 DEF ConnStep, ConnectMark, ConnectSwitch, SetupFail, DrainStale,
       Kick, RequestRefresh, Detach, RelayFinished, GuardCheck, GuardClear
  <2> QED BY <2>1, <2>2, <2>3, <2>4
<1>5. ASSUME NEW c \in Clients, RelayStep(c) PROVE NoteInv'
  <2>1. CASE StartLive(c) \/ Register(c) \/ WakeLive(c) \/ EvictSeen(c)
    BY <2>1, <1>b DEF StartLive, Register, WakeLive, EvictSeen
  <2>2. CASE StartDead(c) \/ Refresh(c)
    BY <2>2, <1>e DEF StartDead, Refresh
  <2>3. CASE WakeDead(c)
    BY <2>3, <1>d DEF WakeDead
  <2>4. CASE Throttle(c)
    BY <2>4, <1>b, <1>d DEF Throttle
  <2>5. CASE Deliver(c)
    BY <2>5, NotesArrive DEF Deliver
  <2>6. CASE WriteFail(c) \/ RelayAbort(c)
    BY <2>6, <1>c, NotesDropped DEF WriteFail, RelayAbort
  <2> QED BY <1>5, <2>1, <2>2, <2>3, <2>4, <2>5, <2>6 DEF RelayStep
<1> QED BY <1>1, <1>2, <1>3, <1>4, <1>5 DEF Next, ReaderStep

\* No notification is delivered twice, whichever of a relay and a reconnect
\* drains the queue.
THEOREM NotesOnce == Spec => []NoteOnce
<1>1. Init => NoteInv
  BY DEF Init, NoteInv, NoteOnce, NoMessage
<1>2. NoteInv => NoteOnce
  BY DEF NoteInv
<1> QED BY <1>1, <1>2, NoteStep, TypeCorrect, PTL DEF Spec

-----------------------------------------------------------------------------
(* Refinement: the session gives its clients what OutputFeed promises.     *)

LEMMA FeedInit == Init => Feed!Init
<1> SUFFICES ASSUME Init PROVE Feed!Init
  OBVIOUS
<1>1. [c \in Clients |-> Reason[told[c]]] = [c \in Clients |-> "no"]
  BY DEF Init, Reason
<1>2. (~readerAlive) = FALSE
  BY DEF Init
<1> QED BY <1>1, <1>2 DEF Init, Feed!Init

(* Telling connection c why it has to leave.                               *)
LEMMA ToldReason ==
  ASSUME TypeOK, NEW c \in Clients, NEW reason \in DOMAIN Reason,
         told' = [told EXCEPT ![c] = reason]
  PROVE  [d \in Clients |-> Reason[told[d]]]'
           = [[d \in Clients |-> Reason[told[d]]] EXCEPT ![c] = Reason[reason]]
<1>1. \A d \in Clients : told'[d] = IF d = c THEN reason ELSE told[d]
  BY DEF TypeOK, ClientOK
<1>2. \A d \in Clients :
        Reason[told'[d]] = IF d = c THEN Reason[reason] ELSE Reason[told[d]]
  BY <1>1
<1>3. Reason' = Reason
  BY DEF Reason
<1> QED BY <1>2, <1>3

(* A step that changes nothing a client can observe is a stutter.          *)
LEMMA FeedStutter ==
  ASSUME UNCHANGED <<scrolled, version, readerAlive, upto, lines, shown, told>>
  PROVE  UNCHANGED Feed!vars
<1> QED BY DEF Feed!vars

(* Receiving an update that starts where the connection is or later.       *)
LEMMA FeedReceive ==
  ASSUME TypeOK, NEW c \in Clients, Received(c), told[c] = "no",
         upto[c] <= out[c].from, out[c].from <= out[c].to, out[c].to <= scrolled,
         shown[c] <= out[c].ver, out[c].ver <= version,
         UNCHANGED <<scrolled, version, readerAlive, told>>
  PROVE  Feed!Deliver(c)
<1>1. /\ out[c].from \in 0..scrolled /\ out[c].to \in out[c].from..scrolled
      /\ out[c].ver \in shown[c]..version
  BY DEF TypeOK, ScreenOK, TaskOK, ClientOK, Message
<1>2. Feed!Receive(c, out[c].from, out[c].to, out[c].ver)
  BY DEF Received, Feed!Receive, TypeOK, ScreenOK, TaskOK, ClientOK, Message
<1> QED BY <1>1, <1>2 DEF Feed!Deliver, Reason

LEMMA FeedStep ==
  TypeOK /\ PhaseInv /\ LineInv /\ [Next]_vars => [Feed!Next]_(Feed!vars)
<1> SUFFICES ASSUME TypeOK, PhaseInv, LineInv, [Next]_vars
             PROVE  [Feed!Next]_(Feed!vars)
  OBVIOUS
<1> USE DEF sessionVars, screenVars, readerVars, notifyVars, clientVars, relayVars, readerFrame,
       connFrame, attachFrame, relayFrame, endFrame
<1>1. CASE UNCHANGED vars
  BY <1>1, FeedStutter DEF vars
<1>2. ASSUME NEW kind \in Kinds, ReaderChunk(kind) PROVE [Feed!Next]_(Feed!vars)
  <2>1. CASE kind = "note"
    BY <1>2, <2>1, FeedStutter DEF ReaderChunk
  <2>2. CASE kind # "note"
    <3>1. Feed!Produce
      BY <1>2, <2>2 DEF ReaderChunk, PhaseInv, Feed!Produce
    <3> QED BY <3>1 DEF Feed!Next
  <2> QED BY <2>1, <2>2
<1>3. CASE ReaderNotify \/ ReaderLastNotify
  BY <1>3, FeedStutter DEF ReaderNotify, ReaderLastNotify
<1>4. CASE ReaderEof
  <2>1. Feed!Over
    BY <1>4 DEF ReaderEof, PhaseInv, Feed!Over
  <2> QED BY <2>1 DEF Feed!Next
<1>5. CASE ChildExit \/ EndStep
  BY <1>5, FeedStutter DEF ChildExit, EndStep, KillRemove, KillDisconnect, Sweep,
     DropKill, DropEvict
<1>6. ASSUME NEW c \in Clients, ConnStep(c) PROVE [Feed!Next]_(Feed!vars)
  <2>1. CASE SendInitial(c)
    <3>1. relay[c] = "none" /\ told[c] = "no"
      BY <2>1 DEF SendInitial, PhaseInv
    <3>2. /\ upto[c] <= out[c].from /\ out[c].from <= out[c].to
          /\ out[c].to <= scrolled
          /\ shown[c] <= out[c].ver /\ out[c].ver <= version
      BY <2>1 DEF SendInitial, LineInv, Behind, TypeOK, TaskOK, ScreenOK, ClientOK, Message
    <3>3. Feed!Deliver(c)
      BY <2>1, <3>1, <3>2, FeedReceive DEF SendInitial
    <3> QED BY <3>3 DEF Feed!Next
  <2>2. CASE ~SendInitial(c)
    BY <1>6, <2>2, FeedStutter DEF ConnStep, ConnectMark, ConnectSwitch, SetupFail,
       Snapshot, SendFail, DrainStale, Kick, RequestRefresh, Detach,
       RelayFinished, GuardCheck, GuardClear
  <2> QED BY <2>1, <2>2
<1>7. ASSUME NEW c \in Clients, RelayStep(c) PROVE [Feed!Next]_(Feed!vars)
  <2>1. CASE Deliver(c)
    <3>1. told[c] = "no" /\ relay[c] = "write"
      BY <2>1 DEF Deliver, PhaseInv
    <3>2. /\ upto[c] <= out[c].from /\ out[c].from <= out[c].to
          /\ out[c].to <= taken /\ taken <= scrolled
          /\ shown[c] <= out[c].ver /\ out[c].ver <= version
          /\ out[c].last => ~readerAlive /\ out[c].ver = version
      BY <3>1 DEF LineInv, Behind
    <3>3. out[c].from \in Nat /\ out[c].to \in Nat /\ out[c].ver \in Nat /\ taken \in Nat
      BY DEF TypeOK, ScreenOK, TaskOK, ClientOK, Message
    <3>4. CASE ~out[c].last
      <4>1. UNCHANGED <<scrolled, version, readerAlive, told>> /\ Received(c)
        BY <2>1, <3>4 DEF Deliver
      <4>2. out[c].to <= scrolled
        BY <3>2, <3>3 DEF TypeOK, ScreenOK
      <4>3. Feed!Deliver(c)
        BY <3>1, <3>2, <4>1, <4>2, FeedReceive
      <4> QED BY <4>3 DEF Feed!Next
    <3>5. CASE out[c].last
      <4>1. out[c].from \in 0..scrolled /\ out[c].to \in out[c].from..scrolled
        BY <3>2, <3>3 DEF TypeOK, ScreenOK
      <4>2. Feed!Receive(c, out[c].from, out[c].to, version)
        BY <2>1, <3>2, <3>5 DEF Deliver, Received, Feed!Receive
      <4>3. told' = [told EXCEPT ![c] = "ended"]
            /\ UNCHANGED <<scrolled, version, readerAlive>>
        BY <2>1, <3>5 DEF Deliver
      <4>4. [d \in Clients |-> Reason[told[d]]]'
              = [[d \in Clients |-> Reason[told[d]]] EXCEPT ![c] = "ended"]
        <5>1. "ended" \in DOMAIN Reason /\ Reason["ended"] = "ended"
          BY DEF Reason
        <5> QED BY <4>3, <5>1, ToldReason
      <4>5. Feed!Finish(c)
        BY <3>1, <3>2, <3>5, <4>1, <4>2, <4>3, <4>4 DEF Feed!Finish, Reason
      <4> QED BY <4>5 DEF Feed!Next
    <3> QED BY <3>4, <3>5
  <2>2. CASE EvictSeen(c)
    <3>1. told[c] = "no"
      BY <2>2 DEF EvictSeen, Selecting, PhaseInv
    <3>2. PICK reason \in {"evicted", "killed"} : told' = [told EXCEPT ![c] = reason]
      BY <2>2 DEF EvictSeen
    <3>3. [d \in Clients |-> Reason[told[d]]]'
            = [[d \in Clients |-> Reason[told[d]]] EXCEPT ![c] = "dismissed"]
      <4>1. reason \in DOMAIN Reason /\ Reason[reason] = "dismissed"
        BY <3>2 DEF Reason
      <4> QED BY <3>2, <4>1, ToldReason
    <3>4. Feed!Dismiss(c)
      BY <2>2, <3>1, <3>3 DEF EvictSeen, Feed!Dismiss, Reason
    <3> QED BY <3>4 DEF Feed!Next
  <2>3. CASE ~Deliver(c) /\ ~EvictSeen(c)
    BY <1>7, <2>3, FeedStutter DEF RelayStep, StartDead, StartLive, Register,
       WakeDead, WakeLive, Throttle, Refresh, WriteFail, RelayAbort,
       TakeAndRender, RenderFull
  <2> QED BY <2>1, <2>2, <2>3
<1> QED BY <1>1, <1>2, <1>3, <1>4, <1>5, <1>6, <1>7 DEF Next, ReaderStep

\* The daemon implements OutputFeed: lines in order and never twice, pictures
\* that only move forward, nothing after the last notice, and a final picture
\* with SessionEnded.
THEOREM ImplementsFeed == Spec => FeedSpec
<1> QED BY FeedInit, FeedStep, TypeCorrect, PhaseCorrect, LineCorrect, PTL
        DEF Spec, FeedSpec, Feed!Spec
=============================================================================
