---------------------------- MODULE SessionAttach ----------------------------
(***************************************************************************)
(* One session of the terminal daemon, from its creation until it is       *)
(* killed or swept: the persistent PTY reader thread, the client           *)
(* connections that attach to it and evict one another, the relay task     *)
(* that renders the screen to a connection, and the tasks that end the     *)
(* session.  (src/crates/retach-octty/src/session.rs and server/.)         *)
(*                                                                         *)
(* A step is what one task or thread does between two points where         *)
(* another can observe it: a lock hold, an atomic load or store, a channel *)
(* operation, a socket write.                                              *)
(*                                                                         *)
(* Data is reduced to what the properties tell apart.  A read of the PTY   *)
(* is a "paint" (changes the visible rows), a "scroll" (also pushes a line *)
(* off the top) or a "note" (queues a text notification).  The lines that  *)
(* scrolled off are numbered, and Screen's pending_scrollback is the       *)
(* interval taken+1 .. scrolled; passthrough sequences are always taken    *)
(* with it.  version numbers the contents of the visible rows.  The        *)
(* program stays on the main screen and scrolls fewer lines than the       *)
(* history limit.                                                          *)
(***************************************************************************)
EXTENDS Integers, Sequences, SequencesExt

CONSTANTS
  Clients,    \* connections that may attach, each of them once
  NoClient,   \* Session::evict_tx = None, and the manager lock being free
  Kinds,      \* what a PTY read may do
  Endings,    \* how the session may be taken out of the map
  Refreshers, \* connections that may send RefreshScreen
  MaxChunks,  \* bound: PTY reads that change something
  MaxNotes    \* MAX_QUEUED_NOTIFICATIONS

ASSUME ClientsAssumption == NoClient \notin Clients
ASSUME RefreshersAssumption == Refreshers \subseteq Clients
ASSUME KindsAssumption == Kinds \subseteq {"paint", "scroll", "note"}
ASSUME EndingsAssumption == Endings \subseteq {"kill", "sweep"}
ASSUME BoundsAssumption == MaxChunks \in Nat /\ MaxNotes \in Nat \ {0}

VARIABLES
  \* the session, as the manager sees it
  inMap,        \* the manager's map still holds the session
  mgr,          \* the connection that holds the manager lock in connect()
  ender,        \* progress of the task that removed the session
  child,        \* the child process runs
  evictTx,      \* the connection whose eviction channel the session holds
  evict,        \* what each connection's eviction channel carries
  hasClient,    \* Session::has_client
  \* the screen and the reader thread
  reader,       \* where the reader thread is
  readerAlive,  \* Session::reader_alive
  version,      \* contents of the visible rows
  scrolled,     \* lines that have left the top of the grid
  taken,        \* the last of them taken out of pending_scrollback
  noted,        \* notifications queued so far
  notes,        \* Screen's queued_notifications
  \* screen_notify, a tokio::sync::Notify
  permit,       \* the stored permit
  waiters,      \* relays registered in notified(), in FIFO order
  woken,        \* relays notified and not polled since
  \* the connections and their relay tasks
  conn, relay,
  out,          \* the message being written to the connection
  pendingRender,\* screen_to_client's pending_render
  refresh,      \* the permit of refresh_notify
  \* history of what each connection was sent
  upto,         \* the last scrolled line it received
  lines,        \* how many scrolled lines it received
  shown,        \* the contents it was last painted with (its render_cache)
  got,          \* the notifications it received
  told,         \* why it was told to leave
  contested     \* connections that overlapped another one

sessionVars == <<inMap, mgr, ender, child, evictTx, evict>>
screenVars  == <<version, scrolled, taken, noted, notes>>
readerVars  == <<reader, readerAlive>>
notifyVars  == <<permit, waiters, woken>>
clientVars  == <<upto, lines, shown, got, told>>
relayVars   == <<relay, out, pendingRender, refresh>>
vars == <<sessionVars, hasClient, screenVars, readerVars, notifyVars, conn,
          relayVars, clientVars, contested>>

\* What the steps of one kind leave alone.
readerFrame == <<sessionVars, hasClient, conn, relayVars, clientVars, contested>>
connFrame   == <<sessionVars, screenVars, readerVars, notifyVars, relayVars,
                 clientVars, contested>>
attachFrame == <<sessionVars, hasClient, readerVars, notifyVars, pendingRender,
                 refresh, told, contested>>
relayFrame  == <<sessionVars, hasClient, readerVars, conn, contested>>
endFrame    == <<mgr, hasClient, screenVars, readerVars, notifyVars, conn,
                 relayVars, clientVars, contested>>

ConnPc  == {"new", "mark", "setup", "send", "drain", "kick", "bridge",
            "guard", "clear", "gone"}
RelayPc == {"none", "start", "poll", "wait", "write", "done"}

\* A message on its way to a client: scrolled lines from+1 .. to, a painting
\* of the visible rows, notifications, and whether SessionEnded follows it.
Message == [from : Nat, to : Nat, ver : Nat, notes : SUBSET Nat, last : BOOLEAN]
NoMessage == [from |-> 0, to |-> 0, ver |-> 0, notes |-> {}, last |-> FALSE]

SessionOK ==
  /\ inMap \in BOOLEAN /\ child \in BOOLEAN /\ hasClient \in BOOLEAN
  /\ mgr \in Clients \cup {NoClient} /\ evictTx \in Clients \cup {NoClient}
  /\ ender \in {"no", "disconnect", "kill", "evict", "done"}
  /\ evict \in [Clients -> {"live", "evicted", "closed"}]
ScreenOK ==
  /\ reader \in {"read", "notify", "eof", "dead"} /\ readerAlive \in BOOLEAN
  /\ version \in Nat /\ scrolled \in Nat /\ taken \in Nat
  /\ noted \in Nat /\ notes \subseteq {n \in 1..noted : n + MaxNotes > noted}
NotifyOK ==
  /\ permit \in BOOLEAN /\ waiters \in Seq(Clients) /\ woken \subseteq Clients
TaskOK ==
  /\ conn \in [Clients -> ConnPc] /\ relay \in [Clients -> RelayPc]
  /\ out \in [Clients -> Message]
  /\ pendingRender \in [Clients -> BOOLEAN] /\ refresh \in [Clients -> BOOLEAN]
ClientOK ==
  /\ upto \in [Clients -> Nat] /\ lines \in [Clients -> Int]
  /\ shown \in [Clients -> Nat] /\ got \in [Clients -> SUBSET Nat]
  /\ told \in [Clients -> {"no", "ended", "killed", "evicted"}]
  /\ contested \subseteq Clients

\* Every variable has its type, and the queue of notifications holds none but
\* the newest MaxNotes (ScreenState::push_notification).
TypeOK == SessionOK /\ ScreenOK /\ NotifyOK /\ TaskOK /\ ClientOK

Init ==
  /\ inMap = TRUE /\ mgr = NoClient /\ ender = "no" /\ child = TRUE
  /\ evictTx = NoClient /\ evict = [c \in Clients |-> "live"]
  /\ hasClient = FALSE
  /\ reader = "read" /\ readerAlive = TRUE
  /\ version = 0 /\ scrolled = 0 /\ taken = 0 /\ noted = 0 /\ notes = {}
  /\ permit = FALSE /\ waiters = <<>> /\ woken = {}
  /\ conn = [c \in Clients |-> "new"]
  /\ relay = [c \in Clients |-> "none"]
  /\ out = [c \in Clients |-> NoMessage]
  /\ pendingRender = [c \in Clients |-> FALSE]
  /\ refresh = [c \in Clients |-> FALSE]
  /\ upto = [c \in Clients |-> 0] /\ lines = [c \in Clients |-> 0]
  /\ shown = [c \in Clients |-> 0]
  /\ got = [c \in Clients |-> {}] /\ told = [c \in Clients |-> "no"]
  /\ contested = {}

-----------------------------------------------------------------------------
(* screen_notify: tokio's Notify keeps one permit or a FIFO of waiters.    *)

\* notify_one(): wake the first waiter, or leave a permit.
NotifyOne ==
  IF waiters = <<>>
  THEN permit' = TRUE /\ UNCHANGED <<waiters, woken>>
  ELSE /\ woken' = woken \cup {Head(waiters)}
       /\ waiters' = Tail(waiters)
       /\ UNCHANGED permit

\* The queue without connection c, which occurs in it at most once.
Without(queue, c) ==
  IF \E i \in DOMAIN queue : queue[i] = c
  THEN RemoveAt(queue, CHOOSE i \in DOMAIN queue : queue[i] = c)
  ELSE queue

\* select! takes another branch and drops the notified() future of relay c:
\* a waiter leaves the queue, a notification it had received is passed on.
DropNotified(c) ==
  IF c \in woken
  THEN IF waiters = <<>>
       THEN permit' = TRUE /\ woken' = woken \ {c} /\ UNCHANGED waiters
       ELSE /\ woken' = (woken \ {c}) \cup {Head(waiters)}
            /\ waiters' = Tail(waiters)
            /\ UNCHANGED permit
  ELSE waiters' = Without(waiters, c) /\ UNCHANGED <<permit, woken>>

-----------------------------------------------------------------------------
(* The persistent reader thread.                                           *)

\* The queue keeps its newest MaxNotes notifications.
PushNote == {n \in notes \cup {noted + 1} : n + MaxNotes > noted + 1}

\* One read, processed in a single hold of the screen lock; without a client
\* the pending lines are dropped in the same hold.
ReaderChunk(kind) ==
  /\ reader = "read"
  /\ version + noted < MaxChunks
  /\ version' = IF kind = "note" THEN version ELSE version + 1
  /\ scrolled' = IF kind = "scroll" THEN scrolled + 1 ELSE scrolled
  /\ noted' = IF kind = "note" THEN noted + 1 ELSE noted
  /\ notes' = IF kind = "note" THEN PushNote ELSE notes
  /\ taken' = IF hasClient THEN taken ELSE scrolled'
  /\ reader' = "notify"
  /\ UNCHANGED <<readerFrame, notifyVars, readerAlive>>

ReaderNotify ==
  /\ reader = "notify"
  /\ NotifyOne
  /\ reader' = "read"
  /\ UNCHANGED <<readerFrame, screenVars, readerAlive>>

\* read() returns 0 or an error: the last holder of the terminal closed it.
\* The child itself may have closed it and live on.
ReaderEof ==
  /\ reader = "read"
  /\ readerAlive' = FALSE
  /\ reader' = "eof"
  /\ UNCHANGED <<readerFrame, screenVars, notifyVars>>

\* Slip: the reader exits without waking the relay.
ReaderLastSilent ==
  /\ reader = "eof"
  /\ reader' = "dead"
  /\ UNCHANGED <<readerFrame, screenVars, notifyVars, readerAlive>>

ReaderLastNotify ==
  /\ reader = "eof"
  /\ NotifyOne
  /\ reader' = "dead"
  /\ UNCHANGED <<readerFrame, screenVars, readerAlive>>

\* Only the sweep looks at the child, so it may exit only where one may come.
ChildExit ==
  /\ child /\ "sweep" \in Endings
  /\ child' = FALSE
  /\ UNCHANGED <<endFrame, inMap, ender, evictTx, evict>>

-----------------------------------------------------------------------------
(* A connection: handle_session from setup_session to the drop of its      *)
(* ClientGuard.                                                            *)

\* Connections with a task that still runs for this session.
Present(c) == conn[c] \notin {"new", "gone"} \/ relay[c] \notin {"none", "done"}

\* Slip: has_client is set for a first client only, as if the one that is
\* being replaced had left it set.
ConnectMarkOnce(c) ==
  /\ conn[c] = "new" /\ inMap /\ mgr = NoClient
  /\ mgr' = c
  /\ hasClient' = (hasClient \/ evictTx = NoClient)
  /\ conn' = [conn EXCEPT ![c] = "mark"]
  /\ LET others == {d \in Clients : Present(d)}
     IN contested' = IF others = {} THEN contested
                                    ELSE contested \cup others \cup {c}
  /\ UNCHANGED <<inMap, ender, child, evictTx, evict, screenVars, readerVars,
                 notifyVars, relayVars, clientVars>>

\* connect(), under the manager lock: has_client is set first ...
ConnectMark(c) ==
  /\ conn[c] = "new" /\ inMap /\ mgr = NoClient
  /\ mgr' = c
  /\ hasClient' = TRUE
  /\ conn' = [conn EXCEPT ![c] = "mark"]
  /\ LET others == {d \in Clients : Present(d)}
     IN contested' = IF others = {} THEN contested
                                    ELSE contested \cup others \cup {c}
  /\ UNCHANGED <<inMap, ender, child, evictTx, evict, screenVars, readerVars,
                 notifyVars, relayVars, clientVars>>

\* ... then the previous client is evicted and the channel replaced.
ConnectSwitch(c) ==
  /\ conn[c] = "mark"
  /\ evict' = IF evictTx = NoClient THEN evict
                                    ELSE [evict EXCEPT ![evictTx] = "evicted"]
  /\ evictTx' = c
  /\ mgr' = NoClient
  /\ conn' = [conn EXCEPT ![c] = "setup"]
  /\ UNCHANGED <<inMap, ender, child, hasClient, screenVars, readerVars,
                 notifyVars, relayVars, clientVars, contested>>

\* The resize of an existing session fails, or the client hangs up before
\* the snapshot: the guard is dropped.
SetupFail(c) ==
  /\ conn[c] = "setup"
  /\ conn' = [conn EXCEPT ![c] = "guard"]
  /\ UNCHANGED <<connFrame, hasClient>>

\* Slip: the queued notifications are copied into the snapshot, not drained.
SnapshotKeepsNotes(c) ==
  /\ conn[c] = "setup"
  /\ out' = [out EXCEPT ![c] = [from |-> 0, to |-> scrolled, ver |-> version,
                                notes |-> notes, last |-> FALSE]]
  /\ conn' = [conn EXCEPT ![c] = "send"]
  /\ UNCHANGED <<attachFrame, screenVars, relay, upto, lines, shown, got>>

\* send_initial_state, first lock hold: the whole history, the queued
\* notifications and a full painting.
Snapshot(c) ==
  /\ conn[c] = "setup"
  /\ out' = [out EXCEPT ![c] = [from |-> 0, to |-> scrolled, ver |-> version,
                                notes |-> notes, last |-> FALSE]]
  /\ notes' = {}
  /\ conn' = [conn EXCEPT ![c] = "send"]
  /\ UNCHANGED <<attachFrame, version, scrolled, taken, noted, relay, upto,
                 lines, shown, got>>

\* What connection c has received once out[c] is written.
Received(c) ==
  /\ upto' = [upto EXCEPT ![c] = out[c].to]
  /\ lines' = [lines EXCEPT ![c] = @ + (out[c].to - out[c].from)]
  /\ shown' = [shown EXCEPT ![c] = out[c].ver]
  /\ got' = [got EXCEPT ![c] = @ \cup out[c].notes]
  /\ out' = [out EXCEPT ![c] = NoMessage]

SendInitial(c) ==
  /\ conn[c] = "send"
  /\ Received(c)
  /\ conn' = [conn EXCEPT ![c] = "drain"]
  /\ UNCHANGED <<attachFrame, screenVars, relay>>

SendFail(c) ==
  /\ conn[c] = "send"
  /\ out' = [out EXCEPT ![c] = NoMessage]
  /\ conn' = [conn EXCEPT ![c] = "guard"]
  /\ UNCHANGED <<attachFrame, screenVars, relay, upto, lines, shown, got>>

\* Slip: the lines already sent as history stay pending for the relay.
DrainStaleSkipped(c) ==
  /\ conn[c] = "drain"
  /\ conn' = [conn EXCEPT ![c] = "kick"]
  /\ UNCHANGED <<connFrame, hasClient>>

\* send_initial_state, second lock hold: stale pending lines are discarded.
DrainStale(c) ==
  /\ conn[c] = "drain"
  /\ taken' = scrolled
  /\ conn' = [conn EXCEPT ![c] = "kick"]
  /\ UNCHANGED <<sessionVars, hasClient, version, scrolled, noted, notes,
                 readerVars, notifyVars, relayVars, clientVars, contested>>

\* handle_session kicks the relay's Notify, then spawns the relay.
Kick(c) ==
  /\ conn[c] = "kick"
  /\ NotifyOne
  /\ relay' = [relay EXCEPT ![c] = "start"]
  /\ conn' = [conn EXCEPT ![c] = "bridge"]
  /\ UNCHANGED <<sessionVars, hasClient, screenVars, readerVars, out,
                 pendingRender, refresh, clientVars, contested>>

\* The client sends RefreshScreen; nobody reads the permit of a relay that ended.
RequestRefresh(c) ==
  /\ c \in Refreshers
  /\ conn[c] = "bridge" /\ relay[c] # "done" /\ ~refresh[c]
  /\ refresh' = [refresh EXCEPT ![c] = TRUE]
  /\ UNCHANGED <<relayFrame, screenVars, notifyVars, clientVars, relay, out,
                 pendingRender>>

\* client_to_pty ends first: the client detached, hung up or sent garbage.
Detach(c) ==
  /\ conn[c] = "bridge"
  /\ conn' = [conn EXCEPT ![c] = "guard"]
  /\ UNCHANGED <<connFrame, hasClient>>

\* screen_to_client ends first.
RelayFinished(c) ==
  /\ conn[c] = "bridge" /\ relay[c] = "done"
  /\ conn' = [conn EXCEPT ![c] = "guard"]
  /\ UNCHANGED <<connFrame, hasClient>>

\* ClientGuard::drop reads the eviction channel ...
GuardCheck(c) ==
  /\ conn[c] = "guard"
  /\ conn' = [conn EXCEPT ![c] = IF evict[c] = "evicted" THEN "gone" ELSE "clear"]
  /\ UNCHANGED <<connFrame, hasClient>>

\* ... and clears has_client after the read.
GuardClear(c) ==
  /\ conn[c] = "clear"
  /\ hasClient' = FALSE
  /\ conn' = [conn EXCEPT ![c] = "gone"]
  /\ UNCHANGED connFrame

-----------------------------------------------------------------------------
(* The relay task, screen_to_client.  Its select! is "poll" while the      *)
(* branches are being polled and "wait" once notified() is registered; a   *)
(* branch that is ready may be taken in either.                            *)

Selecting(c) == relay[c] \in {"poll", "wait"}

\* The task is over; its timer and the permits only it reads go with it.
RelayEnds(c) ==
  /\ relay' = [relay EXCEPT ![c] = "done"]
  /\ pendingRender' = [pendingRender EXCEPT ![c] = FALSE]
  /\ refresh' = [refresh EXCEPT ![c] = FALSE]

\* take_and_render: pending lines, notifications and changed rows.
TakeAndRender(c, last) ==
  /\ out' = [out EXCEPT ![c] = [from |-> taken, to |-> scrolled, ver |-> version,
                                notes |-> notes, last |-> last]]
  /\ taken' = scrolled
  /\ notes' = {}
  /\ relay' = [relay EXCEPT ![c] = "write"]
  /\ UNCHANGED <<version, scrolled, noted>>

\* render(full): a painting that takes nothing.
RenderFull(c, last) ==
  /\ out' = [out EXCEPT ![c] = [from |-> upto[c], to |-> upto[c], ver |-> version,
                                notes |-> {}, last |-> last]]
  /\ relay' = [relay EXCEPT ![c] = "write"]
  /\ UNCHANGED screenVars

\* The reader died before the relay started.
StartDead(c) ==
  /\ relay[c] = "start" /\ ~readerAlive
  /\ RenderFull(c, TRUE)
  /\ UNCHANGED <<relayFrame, notifyVars, clientVars, pendingRender, refresh>>

StartLive(c) ==
  /\ relay[c] = "start" /\ readerAlive
  /\ relay' = [relay EXCEPT ![c] = "poll"]
  /\ UNCHANGED <<relayFrame, screenVars, notifyVars, clientVars, out,
                 pendingRender, refresh>>

\* notified() finds no permit and joins the queue.
Register(c) ==
  /\ relay[c] = "poll" /\ ~permit
  /\ waiters' = Append(waiters, c)
  /\ relay' = [relay EXCEPT ![c] = "wait"]
  /\ UNCHANGED <<relayFrame, screenVars, clientVars, permit, woken, out,
                 pendingRender, refresh>>

\* notified() completes: it consumes the permit or the wake-up.
Notified(c) ==
  \/ relay[c] = "poll" /\ permit /\ permit' = FALSE /\ UNCHANGED <<waiters, woken>>
  \/ relay[c] = "wait" /\ c \in woken /\ woken' = woken \ {c}
     /\ UNCHANGED <<permit, waiters>>

WakeDead(c) ==
  /\ Notified(c) /\ ~readerAlive
  /\ TakeAndRender(c, TRUE)
  /\ UNCHANGED <<relayFrame, clientVars, pendingRender, refresh>>

WakeLive(c) ==
  /\ Notified(c) /\ readerAlive
  /\ pendingRender' = [pendingRender EXCEPT ![c] = TRUE]
  /\ relay' = [relay EXCEPT ![c] = "poll"]
  /\ UNCHANGED <<relayFrame, screenVars, clientVars, out, refresh>>

\* Slip: an update without scrolled lines or notifications counts as empty.
NothingNewPending(c) == taken = scrolled /\ notes = {}

NothingNew(c) == taken = scrolled /\ notes = {} /\ shown[c] = version

\* The throttle timer elapsed: render, and write unless nothing changed.
Throttle(c) ==
  /\ Selecting(c) /\ pendingRender[c]
  /\ DropNotified(c)
  /\ pendingRender' = [pendingRender EXCEPT ![c] = FALSE]
  /\ \/ ~NothingNew(c) /\ TakeAndRender(c, FALSE)
     \/ /\ NothingNew(c)
        /\ relay' = [relay EXCEPT ![c] = "poll"]
        /\ UNCHANGED <<out, screenVars>>
  /\ UNCHANGED <<relayFrame, clientVars, refresh>>

Refresh(c) ==
  /\ Selecting(c) /\ refresh[c]
  /\ DropNotified(c)
  /\ refresh' = [refresh EXCEPT ![c] = FALSE]
  /\ RenderFull(c, FALSE)
  /\ UNCHANGED <<relayFrame, clientVars, pendingRender>>

\* Slip: the notice is sent but the loop is not left.
EvictSeenGoesOn(c) ==
  /\ Selecting(c) /\ evict[c] # "live" /\ told[c] = "no"
  /\ DropNotified(c)
  /\ told' = [told EXCEPT ![c] = IF evict[c] = "evicted" THEN "evicted" ELSE "killed"]
  /\ relay' = [relay EXCEPT ![c] = "poll"]
  /\ UNCHANGED <<relayFrame, screenVars, out, pendingRender, refresh, upto,
                 lines, shown, got>>

\* evict_rx.changed(): `false` was sent, or the sender is gone.
EvictSeen(c) ==
  /\ Selecting(c) /\ evict[c] # "live"
  /\ DropNotified(c)
  /\ told' = [told EXCEPT ![c] = IF evict[c] = "evicted" THEN "evicted" ELSE "killed"]
  /\ RelayEnds(c)
  /\ UNCHANGED <<relayFrame, screenVars, out, upto, lines, shown, got>>

\* write_all returns; the last painting is followed by SessionEnded.
Deliver(c) ==
  /\ relay[c] = "write"
  /\ Received(c)
  /\ \/ out[c].last /\ RelayEnds(c) /\ told' = [told EXCEPT ![c] = "ended"]
     \/ /\ ~out[c].last
        /\ relay' = [relay EXCEPT ![c] = "poll"]
        /\ UNCHANGED <<pendingRender, refresh, told>>
  /\ UNCHANGED <<relayFrame, screenVars, notifyVars>>

\* The client is gone: the relay returns the error.
WriteFail(c) ==
  /\ relay[c] = "write"
  /\ out' = [out EXCEPT ![c] = NoMessage]
  /\ RelayEnds(c)
  /\ UNCHANGED <<relayFrame, screenVars, notifyVars, clientVars>>

\* handle_session aborted the relay; the runtime drops it at an await, which
\* may be after handle_session has returned.
RelayAbort(c) ==
  /\ conn[c] \in {"guard", "clear", "gone"}
  /\ relay[c] \notin {"none", "done"}
  /\ DropNotified(c)
  /\ out' = [out EXCEPT ![c] = NoMessage]
  /\ RelayEnds(c)
  /\ UNCHANGED <<relayFrame, screenVars, clientVars>>

-----------------------------------------------------------------------------
(* The end of the session: KillSession, or the periodic sweep of dead      *)
(* sessions.  Both take it out of the map under the manager lock and drop  *)
(* it outside.                                                             *)

\* Slip: the session is looked up and removed without the manager lock.
KillRemoveUnlocked ==
  /\ "kill" \in Endings
  /\ inMap
  /\ inMap' = FALSE
  /\ ender' = "disconnect"
  /\ UNCHANGED <<endFrame, child, evictTx, evict>>

KillRemove ==
  /\ "kill" \in Endings
  /\ inMap /\ mgr = NoClient
  /\ inMap' = FALSE
  /\ ender' = "disconnect"
  /\ UNCHANGED <<endFrame, child, evictTx, evict>>

\* Session::disconnect drops the sender.
KillDisconnect ==
  /\ ender = "disconnect"
  /\ evict' = IF evictTx = NoClient THEN evict
                                    ELSE [evict EXCEPT ![evictTx] = "closed"]
  /\ evictTx' = NoClient
  /\ ender' = "kill"
  /\ UNCHANGED <<endFrame, inMap, child>>

\* take_dead_sessions: the reader exited or the child did.
Sweep ==
  /\ "sweep" \in Endings
  /\ inMap /\ mgr = NoClient /\ ~(readerAlive /\ child)
  /\ inMap' = FALSE
  /\ ender' = "kill"
  /\ UNCHANGED <<endFrame, child, evictTx, evict>>

\* Session::drop kills and reaps the child ...
DropKill ==
  /\ ender = "kill"
  /\ child' = FALSE
  /\ ender' = "evict"
  /\ UNCHANGED <<endFrame, inMap, evictTx, evict>>

\* ... and sends `false` to the client it still has, if any.
DropEvict ==
  /\ ender = "evict"
  /\ evict' = IF evictTx = NoClient THEN evict
                                    ELSE [evict EXCEPT ![evictTx] = "evicted"]
  /\ evictTx' = NoClient
  /\ ender' = "done"
  /\ UNCHANGED <<endFrame, inMap, child>>

-----------------------------------------------------------------------------
ReaderStep == (\E kind \in Kinds : ReaderChunk(kind)) \/ ReaderNotify
              \/ ReaderEof \/ ReaderLastNotify

ConnStep(c) ==
  \/ ConnectMark(c) \/ ConnectSwitch(c) \/ SetupFail(c) \/ Snapshot(c)
  \/ SendInitial(c) \/ SendFail(c) \/ DrainStale(c) \/ Kick(c)
  \/ RequestRefresh(c) \/ Detach(c) \/ RelayFinished(c)
  \/ GuardCheck(c) \/ GuardClear(c)

RelayStep(c) ==
  \/ StartDead(c) \/ StartLive(c) \/ Register(c) \/ WakeDead(c) \/ WakeLive(c)
  \/ Throttle(c) \/ Refresh(c) \/ EvictSeen(c) \/ Deliver(c) \/ WriteFail(c)
  \/ RelayAbort(c)

EndStep == KillRemove \/ KillDisconnect \/ Sweep \/ DropKill \/ DropEvict

Next ==
  \/ ReaderStep
  \/ ChildExit
  \/ \E c \in Clients : ConnStep(c) \/ RelayStep(c)
  \/ EndStep

Spec == Init /\ [][Next]_vars

\* What a task does next when nobody outside the daemon intervenes.
ConnProgress(c) ==
  \/ ConnectSwitch(c) \/ SetupFail(c) \/ Snapshot(c) \/ SendInitial(c)
  \/ SendFail(c) \/ DrainStale(c) \/ Kick(c) \/ RelayFinished(c)
  \/ GuardCheck(c) \/ GuardClear(c)

\* The scheduler runs every thread and task that can run.  Nothing obliges
\* the program in the terminal, the user, a kill or the child to act, and the
\* sweep is left out so that it cannot help a client out.  select! takes a
\* ready branch at random, so a client that keeps asking for a refresh does
\* not starve the other branches of its relay.
Fairness ==
  /\ WF_vars(ReaderNotify \/ ReaderLastNotify)
  /\ WF_vars(KillDisconnect \/ DropKill \/ DropEvict)
  /\ \A c \in Clients : WF_vars(ConnProgress(c)) /\ WF_vars(RelayStep(c))
  /\ \A c \in Refreshers :
       SF_vars(WakeDead(c) \/ WakeLive(c) \/ Throttle(c) \/ EvictSeen(c))

FairSpec == Spec /\ Fairness

-----------------------------------------------------------------------------
(* Safety.                                                                 *)

Relaying(c) == relay[c] \in {"start", "poll", "wait", "write"}
Attached(c) == conn[c] \in {"setup", "send", "drain", "kick", "bridge"}

\* No line that scrolled off the top reaches a connection twice: every update
\* on its way starts at or after the last line the connection received, even
\* when lines scroll while the history is being written and while an evicted
\* relay still drains the same screen (session_bridge.rs, the stale drain).
NoRepeatedLine ==
  \A c \in Clients : conn[c] = "send" \/ relay[c] = "write" =>
    upto[c] <= out[c].from /\ out[c].from <= out[c].to /\ out[c].to <= scrolled

\* A notification leaves the queue with exactly one message: it reaches at
\* most one connection and is never replayed to a later one, although the
\* relay and the reconnect path both drain the queue (take_and_render,
\* take_queued_notifications).
NoteOnce ==
  \A c \in Clients :
    /\ got[c] \cap notes = {} /\ out[c].notes \cap notes = {}
    /\ \A d \in Clients :
         /\ got[c] \cap out[d].notes = {}
         /\ c # d => got[c] \cap got[d] = {} /\ out[c].notes \cap out[d].notes = {}

\* A client that is attached and was not replaced can still be evicted or
\* killed: the session holds the sender of its channel, so two connections
\* never both believe they own the session (Session::connect).
Evictable ==
  \A c \in Clients : Attached(c) /\ evict[c] = "live" => evictTx = c

\* Once a removed session has been dropped, every client that is attached to
\* it has been told: no connection slips in between the removal from the map
\* and the drop, both under the manager lock (connect, KillSession, sweep).
NoOrphan ==
  ender = "done" => \A c \in Clients : Attached(c) => evict[c] # "live"

\* Unless connections overlap, has_client is true from the attachment of a
\* client until it leaves, so the reader does not drop output that is meant
\* for it (ClientGuard, Session::connect).
HasClientAlone ==
  \A c \in Clients : Attached(c) /\ c \notin contested => hasClient

\* Whether and why a client was told to leave, as OutputFeed sees it.
Reason == [no |-> "no", ended |-> "ended", killed |-> "dismissed",
           evicted |-> "dismissed"]

\* The session gives its clients what OutputFeed promises.
Feed == INSTANCE OutputFeed WITH
          produced <- scrolled, over <- ~readerAlive, pos <- upto,
          closed <- [c \in Clients |-> Reason[told[c]]]
FeedSpec == Feed!Spec

-----------------------------------------------------------------------------
(* The inductive strengthening of the safety properties.                   *)

\* Where each connection and its relay stand.
PhaseInv ==
  /\ readerAlive <=> reader \in {"read", "notify"}
  /\ \A c \in Clients :
       /\ conn[c] \in {"new", "mark", "setup", "send", "drain", "kick"} =>
            relay[c] = "none"
       /\ told[c] # "no" => relay[c] = "done"

\* What connection c has received or is about to receive lies behind what has
\* been taken out of pending_scrollback.
Behind(c) ==
  /\ conn[c] \in {"new", "mark", "setup", "send"} => upto[c] = 0 /\ shown[c] = 0
  /\ upto[c] <= scrolled /\ shown[c] <= version
  /\ conn[c] = "send" => /\ out[c].from = 0 /\ out[c].to <= scrolled
                         /\ out[c].ver <= version
  /\ conn[c] = "kick" \/ Relaying(c) => upto[c] <= taken
  /\ relay[c] = "write" =>
       /\ upto[c] <= out[c].from /\ out[c].from <= out[c].to /\ out[c].to <= taken
       /\ shown[c] <= out[c].ver /\ out[c].ver <= version
       /\ out[c].last => ~readerAlive /\ out[c].ver = version

\* So taking it, which relays of two connections may do at the same time and
\* the snapshot of a third in between, never repeats a line (take_and_render,
\* send_initial_state).
LineInv == taken <= scrolled /\ \A c \in Clients : Behind(c)

\* Who holds the manager lock and the sender of the eviction channel.
OwnerInv ==
  /\ inMap => ender = "no"
  /\ \A c \in Clients : conn[c] = "mark" => mgr = c /\ inMap
  /\ ender = "done" => evictTx = NoClient

\* Two connections that are present at the same time are both contested, so
\* whoever clears has_client leaves nobody behind who is not.
AloneInv ==
  /\ \A c, d \in Clients : c # d /\ Present(c) /\ Present(d) => c \in contested
  /\ \A c \in Clients :
       (conn[c] = "mark" \/ Attached(c)) /\ c \notin contested => hasClient

\* What was received or is on its way was queued before, so a notification that
\* is queued is a new one.
NoteInv == NoteOnce /\ \A c \in Clients : got[c] \cup out[c].notes \subseteq 1..noted

-----------------------------------------------------------------------------
(* Liveness, under FairSpec.                                               *)

\* A connection that overlaps no other one is eventually painted with the
\* contents of the screen, however the reader's notifications fall between
\* the snapshot, the stale drain and the first wait of its relay.
ScreenCatchesUp ==
  \A c \in Clients : (conn[c] = "bridge" /\ shown[c] < version)
                       ~> (shown[c] = version \/ conn[c] # "bridge" \/ c \in contested)

\* A client that is told to leave, because it was replaced or the session was
\* killed, always leaves, whatever it was doing: waiting for output, writing,
\* or still receiving its history.  So does a client of a session whose reader
\* saw end of file, without the help of the sweep, unless its connection
\* overlapped another one (screen_to_client, handle_session).
LeavesAtLast ==
  \A c \in Clients : (Attached(c) /\ (evict[c] # "live" \/ ~readerAlive))
                       ~> (conn[c] = "gone" \/ (evict[c] = "live" /\ c \in contested))

=============================================================================
