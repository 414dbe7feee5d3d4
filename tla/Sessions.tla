------------------------------ MODULE Sessions ------------------------------
(***************************************************************************)
(* The sessions of one pane by name: the daemon's map of sessions and what *)
(* it does with the first message of a connection, the client of a pane    *)
(* (`retach open`), and the control calls of the application, which type   *)
(* into panes that have no live terminal, capture them and kill them.      *)
(* (retach-octty/src/session.rs and server/, octty-term/src/retach.rs,     *)
(* octty-app/src/terminal_lifecycle.rs.)                                   *)
(*                                                                         *)
(* A connection is a Unix socket with a task of the daemon at one end and  *)
(* a call at the other.  What the client writes is queued until the task   *)
(* reads it, and is lost when the task ends before; a write to an end that *)
(* was closed fails.  What the daemon writes is reduced to its first       *)
(* answer and to whether the picture of the screen was written.            *)
(*                                                                         *)
(* Input counts as read when client_to_pty has it: the blocking task that  *)
(* writes it to the PTY is not aborted with the relay (see PtyResponses).  *)
(***************************************************************************)
EXTENDS Integers, Sequences

CONSTANTS
  Slot,      \* bound: connections that are not closed at both ends (1..n)
  Session,   \* bound: sessions that exist at one time (1..n)
  MaxInputs, \* bound: inputs typed into the pane
  MaxFaults  \* bound: resizes and spawns that fail, ends of the daemon

ASSUME SlotAssumption == Slot \subseteq Nat \ {0}
ASSUME SessionAssumption == Session \subseteq Nat \ {0} /\ 1 \in Session
ASSUME BoundsAssumption == MaxInputs \in Nat /\ MaxFaults \in Nat

None == 0
Detach == 0 \* ClientMsg::Detach; an input is a number

\* The name in the pane's payload and the one hashed from its workspace
\* (stable_retach_session_name), which differ once the workspace is renamed.
Name == {"payload", "hashed"}

VARIABLES
  \* the daemon
  sessionOf, \* SessionManager::sessions
  running,   \* sessions whose program and reader thread run
  doomed,    \* sessions out of the map that are being dropped
  conn,      \* the connections
  \* the application
  renamed,   \* the workspace was renamed after the payload was written
  live,      \* the pane has a live terminal, so nothing is queued for it
  pending,   \* pending_terminal_inputs
  flush,     \* the task of schedule_terminal_flush
  batch,     \* the inputs it still has to send
  kill,      \* the task of kill_terminal_session
  opener,    \* a `retach open`: the pane's own, or one of somebody else
  closed,    \* the pane was closed
  \* history
  typed,     \* inputs typed so far
  faults,    \* failures so far
  read,      \* how often each input was read by the daemon
  meddled,   \* a kill, a failure, or more trouble than one retry makes up for
  final      \* nothing could open the session any more when it was killed

daemonVars  == <<sessionOf, running, doomed>>
paneVars    == <<renamed, live, closed>>
flushVars   == <<pending, flush, batch, typed>>
historyVars == <<faults, read, meddled, final>>
vars == <<daemonVars, conn, paneVars, flushVars, kill, opener, historyVars>>

NameOf(which) == IF renamed THEN which ELSE "payload"
Hashed == NameOf("hashed")

NoConn == [req |-> "none", name |-> "payload", open |-> FALSE, sent |-> <<>>,
           srv |-> "closed", session |-> None, evicted |-> FALSE,
           reply |-> "none"]

Init ==
  /\ renamed \in BOOLEAN /\ live \in BOOLEAN
  /\ sessionOf \in {m \in [Name -> {None, 1}] : m["hashed"] = None}
  /\ running = {sessionOf["payload"]} \ {None}
  /\ doomed = {}
  /\ conn = [c \in Slot |-> NoConn]
  /\ pending = <<>> /\ batch = <<>> /\ typed = 0
  /\ flush = [at |-> "idle", why |-> "send", c |-> None]
  /\ kill = [at |-> "none", c |-> None]
  /\ opener = [at |-> IF live THEN "start" ELSE "none", c |-> None]
  /\ closed = FALSE /\ final = FALSE
  /\ faults = 0 /\ meddled = FALSE
  /\ read = [k \in 1..MaxInputs |-> 0]

-----------------------------------------------------------------------------
(* Both ends of a connection.                                              *)

\* What neither end will look at again is forgotten; a connection that is
\* closed at both ends is gone.
Tidy(r) ==
  LET over == r.srv = "closed"
      asked == r.srv = "first"
  IN [req |-> IF asked THEN r.req ELSE "none",
      name |-> IF asked THEN r.name ELSE "payload",
      open |-> r.open, sent |-> IF over THEN <<>> ELSE r.sent,
      srv |-> r.srv, session |-> IF over THEN None ELSE r.session,
      evicted |-> r.evicted /\ ~over,
      reply |-> IF r.open THEN r.reply ELSE "none"]

\* The daemon's end of connection c becomes `at`, as changed by the record r.
Served(c, r) == conn' = [conn EXCEPT ![c] = Tidy(r)]
At(c, at) == [conn[c] EXCEPT !.srv = at]
Answered(c, at, reply) == [conn[c] EXCEPT !.srv = at, !.reply = reply]

\* All clients that are attached to a session of S are told to leave.
Evicting(conns, S) ==
  [c \in Slot |-> IF conns[c].session \in S THEN [conns[c] EXCEPT !.evicted = TRUE]
                                            ELSE conns[c]]

\* A call connects and sends its request.
Free == {c \in Slot : conn[c] = NoConn}
Dialed(c, req, name) ==
  /\ c \in Free /\ \A s \in Free : c <= s
  /\ conn' = [conn EXCEPT ![c] = [NoConn EXCEPT !.req = req, !.name = name,
                                                !.open = TRUE, !.srv = "first"]]

Writable(c) == conn[c].srv # "closed"
HungUp(c) == [conn EXCEPT ![c] = Tidy([@ EXCEPT !.open = FALSE])]
\* Write a last message, if that is still possible, and hang up.
LastWord(c, msg) ==
  [conn EXCEPT ![c] = Tidy([conn[c] EXCEPT !.sent = Append(@, msg), !.open = FALSE])]

\* Slip: the end of the stream is not taken for an answer.
RefusedByAnswer(c) == conn[c].reply = "error"

\* The connection was closed without an answer, or the answer was an error.
Refused(c) == conn[c].reply = "error" \/ (conn[c].reply = "none" /\ ~Writable(c))

-----------------------------------------------------------------------------
(* The daemon: handle_client and handle_session.                           *)

serveFrame == <<paneVars, flushVars, kill, opener>>

List(c) ==
  /\ conn[c].srv = "first" /\ conn[c].req = "list"
  /\ Served(c, Answered(c, "closed",
                        IF sessionOf[conn[c].name] = None THEN "no" ELSE "yes"))
  /\ UNCHANGED <<daemonVars, serveFrame, historyVars>>

\* A call that was made before may still open a session: it has not connected,
\* the daemon has not read its request (also when it has hung up since), or the
\* flush has something to send or to ensure.
MayOpen ==
  \/ opener.at = "start"
  \/ \E c \in Slot : conn[c].srv = "first" /\ conn[c].req = "open"
  \/ flush.at \notin {"idle", "capture"} \/ pending # <<>>

\* KillSession takes the session out of the map, disconnects its client and
\* drops it on a blocking thread ...
KillRead(c) ==
  LET s == sessionOf[conn[c].name]
  IN /\ conn[c].srv = "first" /\ conn[c].req = "kill"
     /\ IF s = None
        THEN Served(c, Answered(c, "closed", "error")) /\ UNCHANGED <<doomed, meddled>>
        ELSE /\ conn' = Evicting([conn EXCEPT ![c] = Tidy(At(c, "dropping"))], {s})
             /\ doomed' = doomed \cup {s} /\ meddled' = TRUE
     /\ sessionOf' = [sessionOf EXCEPT ![conn[c].name] = None]
     /\ final' = ~MayOpen
     /\ UNCHANGED <<running, serveFrame, faults, read>>

\* ... and answers when that has finished or takes too long.
KillAnswer(c) ==
  /\ conn[c].srv = "dropping"
  /\ Served(c, Answered(c, "closed", "killed"))
  /\ UNCHANGED <<daemonVars, serveFrame, historyVars>>

Dropped(s) ==
  /\ s \in doomed
  /\ doomed' = doomed \ {s} /\ running' = running \ {s}
  /\ UNCHANGED <<sessionOf, conn, serveFrame, historyVars>>

Used == {sessionOf[n] : n \in Name} \cup running \cup doomed \cup {conn[c].session : c \in Slot}

\* setup_session, under the manager's lock: find or create the session, evict
\* its client and attach to it.
NotFound(c) ==
  /\ conn[c].srv = "first" /\ conn[c].req = "attach" /\ sessionOf[conn[c].name] = None
  /\ Served(c, Answered(c, "closed", "error"))
  /\ UNCHANGED <<daemonVars, serveFrame, historyVars>>

Create(c) ==
  /\ conn[c].srv = "first" /\ conn[c].req = "open" /\ sessionOf[conn[c].name] = None
  /\ \E s \in Session \ Used :
       /\ \A t \in Session \ Used : s <= t
       /\ sessionOf' = [sessionOf EXCEPT ![conn[c].name] = s]
       /\ running' = running \cup {s}
       /\ Served(c, [At(c, "greet") EXCEPT !.session = s])
  /\ UNCHANGED <<doomed, serveFrame, historyVars>>

Attach(c) ==
  LET s == sessionOf[conn[c].name]
  IN /\ conn[c].srv = "first" /\ conn[c].req \in {"open", "attach"} /\ s # None
     /\ conn' = [Evicting(conn, {s}) EXCEPT ![c] = Tidy([At(c, "greet") EXCEPT !.session = s])]
     /\ UNCHANGED <<daemonVars, serveFrame, historyVars>>

\* The program cannot be started, or the PTY cannot be resized: only the
\* first is reported to the client.
Fault(c) ==
  /\ faults < MaxFaults
  /\ conn[c].srv = "first" /\ conn[c].req \in {"open", "attach"}
  /\ LET s == sessionOf[conn[c].name]
     IN IF s = None
        THEN conn[c].req = "open" /\ Served(c, Answered(c, "closed", "error"))
        ELSE conn' = [Evicting(conn, {s}) EXCEPT ![c] = Tidy(At(c, "closed"))]
  /\ faults' = faults + 1 /\ meddled' = TRUE
  /\ UNCHANGED <<daemonVars, serveFrame, read, final>>

\* send_initial_state: Connected, then the history and the screen.  If the
\* client has hung up, handle_session returns before it reads what it sent.
Greet(c) ==
  /\ conn[c].srv = "greet"
  /\ Served(c, IF conn[c].open THEN Answered(c, "screen", "connected")
                               ELSE At(c, "closed"))
  /\ UNCHANGED <<daemonVars, serveFrame, historyVars>>

SendScreen(c) ==
  /\ conn[c].srv = "screen"
  /\ Served(c, IF conn[c].open THEN At(c, "relay")
                               ELSE At(c, "closed"))
  /\ UNCHANGED <<daemonVars, serveFrame, historyVars>>

\* client_to_pty.
ReadInput(c) ==
  /\ conn[c].srv = "relay" /\ conn[c].sent # <<>>
  /\ LET msg == Head(conn[c].sent)
     IN IF msg = Detach
        THEN Served(c, At(c, "closed")) /\ UNCHANGED read
        ELSE /\ conn' = [conn EXCEPT ![c].sent = Tail(@)]
             /\ read' = [read EXCEPT ![msg] = @ + 1]
  /\ UNCHANGED <<daemonVars, serveFrame, faults, meddled, final>>

ReadEof(c) ==
  /\ conn[c].srv = "relay" /\ conn[c].sent = <<>> /\ ~conn[c].open
  /\ Served(c, At(c, "closed"))
  /\ UNCHANGED <<daemonVars, serveFrame, historyVars>>

\* screen_to_client ends: the client was replaced or the session has ended ...
Leave(c) ==
  /\ conn[c].srv = "relay"
  /\ conn[c].evicted \/ conn[c].session \notin running
  /\ Served(c, At(c, "closed"))
  /\ UNCHANGED <<daemonVars, serveFrame, historyVars>>

\* ... or it writes to a client that has hung up.
OutputFails(c) ==
  /\ conn[c].srv = "relay" /\ ~conn[c].open
  /\ Served(c, At(c, "closed"))
  /\ UNCHANGED <<daemonVars, serveFrame, historyVars>>

ProgramEnds(s) ==
  /\ s \in running
  /\ running' = running \ {s}
  /\ meddled' = TRUE
  /\ UNCHANGED <<sessionOf, doomed, conn, serveFrame, faults, read, final>>

\* The sweep of dead sessions, every thirty seconds.
Sweep ==
  LET dead == {sessionOf[n] : n \in Name} \ (running \cup {None})
  IN /\ dead # {}
     /\ sessionOf' = [n \in Name |-> IF sessionOf[n] \in dead THEN None ELSE sessionOf[n]]
     /\ conn' = Evicting(conn, dead)
     /\ UNCHANGED <<running, doomed, serveFrame, historyVars>>

\* The daemon ends, and with it the programs; the next call starts another.
DaemonEnds ==
  /\ faults < MaxFaults
  /\ faults' = faults + 1 /\ meddled' = TRUE
  /\ sessionOf' = [n \in Name |-> None] /\ running' = {} /\ doomed' = {}
  /\ conn' = [c \in Slot |-> Tidy(At(c, "closed"))]
  /\ UNCHANGED <<serveFrame, read, final>>

Serve(c) ==
  \/ List(c) \/ KillRead(c) \/ KillAnswer(c) \/ NotFound(c) \/ Create(c)
  \/ Attach(c) \/ Greet(c) \/ SendScreen(c) \/ ReadInput(c)
  \/ ReadEof(c) \/ Leave(c)

-----------------------------------------------------------------------------
(* flush_terminal_inputs and the control calls it makes, one connection    *)
(* each: "send" an input, "list" the sessions and "create" what is missing *)
(* (ensure_retach_session), "capture" the screen.  flush.why is "send" for *)
(* the first attempt, "again" for the second, and "capture" at the end.    *)

flushFrame == <<daemonVars, paneVars, kill, opener, historyVars>>

\* An input for a pane without a live terminal (send_input_to_active_terminal).
Type ==
  /\ ~live /\ ~closed /\ typed < MaxInputs
  /\ typed' = typed + 1 /\ pending' = Append(pending, typed + 1)
  /\ flush' = IF flush.at = "idle" THEN [flush EXCEPT !.at = "take"] ELSE flush
  /\ UNCHANGED <<flushFrame, conn, batch>>

\* Slip: the queue is copied, not taken.
FlushTakeCopy ==
  /\ flush.at = "take"
  /\ batch' = pending
  /\ flush' = [at |-> IF pending = <<>> THEN "idle" ELSE "send", why |-> "send", c |-> None]
  /\ UNCHANGED <<flushFrame, pending, conn, typed>>

FlushTake ==
  /\ flush.at = "take"
  /\ batch' = pending /\ pending' = <<>>
  /\ flush' = [at |-> IF pending = <<>> THEN "idle" ELSE "send", why |-> "send", c |-> None]
  /\ UNCHANGED <<flushFrame, conn, typed>>

\* The flush goes on without a connection.
Go(at, why) == flush' = [at |-> at, why |-> why, c |-> None]

\* Slip: a capture opens the session.
RequestOpens == [send |-> "attach", list |-> "list", create |-> "open", capture |-> "open"]

Request == [send |-> "attach", list |-> "list", create |-> "open", capture |-> "attach"]

FlushDial ==
  /\ flush.at \in DOMAIN Request /\ flush.c = None
  /\ \E c \in Slot :
       /\ Dialed(c, Request[flush.at], IF flush.why = "send" THEN "payload" ELSE Hashed)
       /\ flush' = [flush EXCEPT !.c = c]
  /\ UNCHANGED <<flushFrame, pending, batch, typed>>

Waiting(at) == flush.at = at /\ flush.c # None
Connected(c) == conn[c].reply = "connected"

\* send_retach_bytes_to_session does not wait for an answer to the input.
SendInput ==
  /\ Waiting("send") /\ Connected(flush.c) /\ Writable(flush.c)
  /\ conn' = [conn EXCEPT ![flush.c].sent = Append(@, Head(batch))]
  /\ flush' = [flush EXCEPT !.at = "detach"]
  /\ UNCHANGED <<flushFrame, pending, batch, typed>>

SendDetach ==
  /\ flush.at = "detach" /\ Writable(flush.c)
  /\ conn' = LastWord(flush.c, Detach)
  /\ batch' = Tail(batch)
  /\ IF Tail(batch) = <<>> THEN Go("list", "capture") ELSE Go("send", "send")
  /\ UNCHANGED <<flushFrame, pending, typed>>

\* An attempt to send fails: once, the session is ensured and the input sent
\* again; the second time, and if that is impossible, the batch is given up.
SendFails ==
  /\ \/ Waiting("send") /\ (Refused(flush.c) \/ ~Writable(flush.c))
     \/ flush.at = "detach" /\ ~Writable(flush.c)
  /\ conn' = HungUp(flush.c)
  /\ IF flush.why = "send"
     THEN Go("list", "again") /\ UNCHANGED batch
     ELSE Go("take", "send") /\ batch' = <<>>
  /\ UNCHANGED <<flushFrame, pending, typed>>

\* What follows once the session exists.
Ensured == Go(IF flush.why = "again" THEN "send" ELSE "capture", flush.why)

\* Slip: that the list came is taken for the session being in it.
ListedAny ==
  /\ Waiting("list") /\ conn[flush.c].reply \in {"yes", "no"}
  /\ conn' = HungUp(flush.c)
  /\ Ensured
  /\ UNCHANGED <<flushFrame, pending, batch, typed>>

Listed ==
  /\ Waiting("list") /\ conn[flush.c].reply \in {"yes", "no"}
  /\ conn' = HungUp(flush.c)
  /\ IF conn[flush.c].reply = "yes" THEN Ensured ELSE Go("create", flush.why)
  /\ UNCHANGED <<flushFrame, pending, batch, typed>>

Created ==
  /\ Waiting("create") /\ Connected(flush.c)
  /\ conn' = LastWord(flush.c, Detach)
  /\ Ensured
  /\ UNCHANGED <<flushFrame, pending, batch, typed>>

EnsureFails ==
  /\ Waiting("list") \/ Waiting("create")
  /\ Refused(flush.c)
  /\ conn' = HungUp(flush.c)
  /\ Go("take", "send") /\ batch' = <<>>
  /\ UNCHANGED <<flushFrame, pending, typed>>

\* The capture ends with the screen, the end of the connection, or its
\* deadline, and what is stored is in any case taken as the screen.
Captured ==
  /\ Waiting("capture") /\ (Connected(flush.c) \/ Refused(flush.c))
  /\ conn' = LastWord(flush.c, Detach)
  /\ Go("take", "send")
  /\ UNCHANGED <<flushFrame, pending, batch, typed>>

FlushStep ==
  \/ FlushTake \/ FlushDial \/ SendInput \/ SendDetach \/ SendFails
  \/ Listed \/ Created \/ EnsureFails \/ Captured

-----------------------------------------------------------------------------
(* The pane is closed, and `retach open`.                                  *)

KillName == IF live THEN Hashed ELSE "payload"

\* close_active_pane.
Close ==
  /\ ~closed
  /\ closed' = TRUE
  /\ kill' = [kill EXCEPT !.at = "call"]
  /\ UNCHANGED <<daemonVars, conn, renamed, live, flushVars, opener, historyVars>>

killFrame == <<daemonVars, paneVars, flushVars, opener, historyVars>>

\* kill_retach_session.
KillDial ==
  /\ kill.at = "call" /\ kill.c = None
  /\ \E c \in Slot : Dialed(c, "kill", KillName) /\ kill' = [kill EXCEPT !.c = c]
  /\ UNCHANGED killFrame

KillEnds ==
  /\ kill.at = "call" /\ kill.c # None /\ ~Writable(kill.c)
  /\ conn' = HungUp(kill.c)
  /\ kill' = [at |-> "done", c |-> None]
  /\ UNCHANGED killFrame

openFrame == <<daemonVars, paneVars, flushVars, kill, faults, read, final>>

\* Somebody else opens the session: another application, a shell.  One such
\* client evicts the flush at most once, which the retry makes up for unless it
\* is already needed for a missing session.
StrangerStarts ==
  /\ opener.at = "none" /\ ~closed
  /\ opener' = [opener EXCEPT !.at = "start"]
  /\ meddled' = (meddled \/ sessionOf["payload"] = None \/ flush.why = "again")
  /\ UNCHANGED <<openFrame, conn>>

OpenDial ==
  /\ opener.at = "start"
  /\ \E c \in Slot : Dialed(c, "open", Hashed) /\ opener' = [at |-> "open", c |-> c]
  /\ UNCHANGED <<openFrame, meddled>>

Ended == opener' = [at |-> "ended", c |-> None]

\* The daemon closes the connection: an error, an eviction, the session ended.
OpenEnds ==
  /\ opener.at = "open" /\ ~Writable(opener.c)
  /\ conn' = HungUp(opener.c)
  /\ Ended
  /\ UNCHANGED <<openFrame, meddled>>

\* The terminal of the process goes away: the pane was closed, the stranger left.
HangUp ==
  /\ opener.at \in {"start", "open"} /\ (live => closed)
  /\ conn' = IF opener.c = None THEN conn ELSE HungUp(opener.c)
  /\ Ended
  /\ UNCHANGED <<openFrame, meddled>>

-----------------------------------------------------------------------------
Next ==
  \/ \E c \in Slot : Serve(c) \/ Fault(c) \/ OutputFails(c)
  \/ \E s \in Session : Dropped(s) \/ ProgramEnds(s)
  \/ Sweep \/ DaemonEnds
  \/ Type \/ FlushStep
  \/ Close \/ KillDial \/ KillEnds
  \/ StrangerStarts \/ OpenDial \/ OpenEnds \/ HangUp

Spec == Init /\ [][Next]_vars

\* Tasks go on, in the daemon and in the application, and a closed terminal
\* hangs up.  Users, programs, the sweep and failures are free.
FairSpec ==
  /\ Spec
  /\ WF_vars(\E c \in Slot : Serve(c))
  /\ WF_vars(\E s \in Session : Dropped(s))
  /\ WF_vars(FlushStep)
  /\ WF_vars(KillDial \/ KillEnds)
  /\ WF_vars(OpenDial \/ OpenEnds \/ (closed /\ HangUp))

-----------------------------------------------------------------------------
Connection ==
  [req : {"none", "list", "kill", "open", "attach"}, name : Name, open : BOOLEAN,
   sent : Seq(Nat), srv : {"first", "dropping", "greet", "screen", "relay", "closed"},
   session : Session \cup {None}, evicted : BOOLEAN,
   reply : {"none", "yes", "no", "error", "killed", "connected"}]

\* Every variable has its type, inputs on their way are typed ones, and no
\* call reads from a connection that it has hung up.
TypeOK ==
  /\ sessionOf \in [Name -> Session \cup {None}]
  /\ running \subseteq Session /\ doomed \subseteq Session
  /\ conn \in [Slot -> Connection]
  /\ renamed \in BOOLEAN /\ live \in BOOLEAN /\ closed \in BOOLEAN /\ final \in BOOLEAN
  /\ pending \in Seq(1 .. typed) /\ batch \in Seq(1 .. typed) /\ typed \in 0 .. MaxInputs
  /\ flush \in [at : {"idle", "take", "detach"} \cup DOMAIN Request,
                why : {"send", "again", "capture"}, c : Slot \cup {None}]
  /\ kill \in [at : {"none", "call", "done"}, c : Slot \cup {None}]
  /\ opener \in [at : {"none", "start", "open", "ended"}, c : Slot \cup {None}]
  /\ faults \in 0 .. MaxFaults /\ meddled \in BOOLEAN
  /\ read \in [1 .. MaxInputs -> Nat]
  /\ \A task \in {flush, kill, opener} : task.c # None => conn[task.c].open

\* An input is read once, although the flush sends it again when the first
\* attempt fails, its calls evict one another, and a task may still read from a
\* connection that was hung up.  Only a client that somebody else connects
\* between the input and its Detach, a kill or a failure can make the daemon
\* read it a second time, and nothing a third (flush_terminal_inputs).
InputOnce ==
  \A k \in DOMAIN read :
    /\ read[k] <= 2
    /\ ~meddled /\ opener.at = "none" => read[k] <= 1

\* The second attempt makes up for a session that is missing, that has another
\* name since its workspace was renamed, or whose flush somebody else evicted:
\* the inputs are given up, with an error on the screen, only after a kill, a
\* failure, or two of these together (ensure_retach_session).
NoFalseAlarm ==
  [][batch # <<>> /\ batch' = <<>> /\ flush'.at = "take" => meddled]_vars

\* Every control call comes to an end, whoever evicts it, kills its session or
\* ends the daemon, and the queue of inputs is emptied in the end.
CallsEnd ==
  /\ flush.at # "idle" \/ pending # <<>> ~> flush.at = "idle" /\ pending = <<>>
  /\ kill.at = "call" ~> kill.at = "done"

\* The session that the kill of a closed pane names does not come back once the
\* calls that could open it have reached the daemon: neither does the pane's own
\* client, wherever the kill evicts it, nor a capture that is under way, nor a
\* retry.  A client that had not reached the daemon by the time of the kill, and
\* inputs that were still being sent, do create it again: then "final" is
\* FALSE, and nothing is claimed.  Nor is it of the session that a pane has
\* under its other name when its workspace was renamed (close_active_pane,
\* KillSession, capture_retach_pane).
ClosedIsStopped == final => sessionOf[KillName] = None

-----------------------------------------------------------------------------
(* The inductive strengthening of InputOnce.                               *)

\* The next input that connection c brings the daemon is k.
Carries(c, k) == conn[c].sent # <<>> /\ Head(conn[c].sent) = k

\* A connection carries at most one input, and none once its end is closed.
ConnInv ==
  \A c \in Slot :
    /\ conn[c].sent \in {<<>>, <<Detach>>} \cup {<<k>> : k \in 1..typed}
                        \cup {<<k, Detach>> : k \in 1..typed}
    /\ conn[c].srv = "closed" => conn[c].sent = <<>>
    /\ conn[c].srv = "first" =>
         conn[c].reply = "none" /\ conn[c].session = None /\ ~conn[c].evicted
    /\ conn[c].reply = "connected" => conn[c].srv \in {"screen", "relay", "closed"}

\* Each task has a connection of its own, and only the flush writes.
TaskInv ==
  /\ kill.c # None => kill.c \notin {flush.c, opener.c}
  /\ flush.c # None => flush.c # opener.c
  /\ opener.at = "open" => opener.c # None
  /\ kill.c # None /\ conn[kill.c].srv = "first" => conn[kill.c].req = "kill"
  /\ flush.c # None /\ flush.at # "detach" => conn[flush.c].sent = <<>>
  /\ flush.at = "detach" => /\ flush.c # None
                            /\ conn[flush.c].sent \in {<<>>, <<Head(batch)>>}

\* The flush has inputs at hand exactly while it sends them; its second attempt
\* and its capture are what ensures the session.
FlushInv ==
  /\ flush.at \in {"send", "detach"} \/ flush.why = "again" <=> batch # <<>>
  /\ flush.at \in {"list", "create"} => flush.why # "send"
  /\ flush.at = "capture" => flush.why = "capture"
  /\ flush.at \in {"idle", "take"} => flush.why = "send" /\ flush.c = None

\* How many inputs are behind the flush; the batch is what follows them, and
\* the queue what follows the batch.
Behind == typed - Len(pending) - Len(batch)
QueueInv ==
  /\ Behind >= 0
  /\ \A i \in DOMAIN batch : batch[i] = Behind + i
  /\ \A i \in DOMAIN pending : pending[i] = Behind + Len(batch) + i

\* Input k was read and is on its way n times at the most.
Sent(k, n) ==
  read[k] <= n /\ ((\E c \in Slot : Carries(c, k)) => read[k] < n)

\* Inputs ahead of the flush were not sent, the one it has at hand as often as
\* it has tried, those behind it twice at the most; and each is in one place.
CountInv ==
  /\ \A k \in DOMAIN read :
       /\ \A c, d \in Slot : Carries(c, k) /\ Carries(d, k) => c = d
       /\ Sent(k, 2)
       /\ k > Behind + 1 \/ (k > Behind /\ batch = <<>>) => Sent(k, 0)
  /\ batch # <<>> =>
       /\ \A c \in Slot :
            Carries(c, Head(batch)) => flush.at = "detach" /\ c = flush.c
       /\ flush.at # "detach" => Sent(Head(batch), 1)
       /\ flush.why = "send" => Sent(Head(batch), 1)
       /\ flush.why = "send" /\ flush.at # "detach" => Sent(Head(batch), 0)

\* While nobody else connects, nothing is killed and nothing fails, the flush is
\* evicted by nobody, so that it retries only what was not sent.
Undisturbed == ~meddled /\ opener.at = "none"
CalmInv == Undisturbed =>
  /\ doomed = {} /\ \A n \in Name : sessionOf[n] \in running \cup {None}
  /\ \A c \in Slot :
       /\ conn[c].srv = "first" => c \in {flush.c, kill.c}
       /\ conn[c].srv \in {"greet", "screen", "relay"} => conn[c].session \in running
  /\ flush.c # None => ~conn[flush.c].evicted
  /\ flush.at = "detach" => conn[flush.c].srv \in {"screen", "relay"}
  /\ \A k \in DOMAIN read : Sent(k, 1)
  /\ batch # <<>> /\ flush.at # "detach" => Sent(Head(batch), 0)

InputInv ==
  ConnInv /\ TaskInv /\ FlushInv /\ QueueInv /\ CountInv /\ CalmInv
=============================================================================
