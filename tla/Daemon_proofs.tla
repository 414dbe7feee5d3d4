----------------------------- MODULE Daemon_proofs -----------------------------
(***************************************************************************)
(* Three parts of the daemon, each with its own variables.                 *)
(*                                                                         *)
(* RelayThrottle: for any length of the throttle interval.                 *)
(*                                                                         *)
(* Sessions: its types, that an input is read once, and that inputs are    *)
(* given up only after a kill, a failure, or more trouble than a second    *)
(* attempt makes up for, for any number of connections, sessions, inputs   *)
(* and failures.                                                           *)
(*                                                                         *)
(* DaemonStart: when every launcher takes the lock, and none gives up on a *)
(* daemon that is still starting, there is at most one daemon, and it owns *)
(* the file at the path: for any number of launchers and daemons, and with *)
(* crashes and terminations at any step.  The induction is LockInv with    *)
(* Reachable.  With UpInv, launching implements OneServer.                 *)
(***************************************************************************)
EXTENDS DaemonStart, RelayThrottle, Sessions, TLAPS

-----------------------------------------------------------------------------
(* The throttle                                                            *)

LEMMA ThrottleStep ==
  ThrottleTypeOK /\ ThrottleInv /\ [ThrottleNext]_throttleVars => ThrottleTypeOK' /\ ThrottleInv'
<1> SUFFICES ASSUME ThrottleTypeOK, ThrottleInv, [ThrottleNext]_throttleVars
             PROVE  ThrottleTypeOK' /\ ThrottleInv'
  OBVIOUS
<1> USE ThrottleAssumption DEF ThrottleTypeOK, ThrottleInv
<1>1. CASE Output
  <2>1. 0 \in 0..(RenderThrottle + 1)
    OBVIOUS
  <2>2. quiet' = 0 /\ permit' = TRUE /\ fresh' = TRUE
        /\ UNCHANGED <<outside, over, pendingRender, left, age>>
    BY <1>1 DEF Output
  <2>3. ThrottleTypeOK'
    BY <2>1, <2>2 DEF outside
  <2> QED BY <2>2, <2>3
<1>2. CASE Wake
  <2>1. RenderThrottle \in 0..RenderThrottle
    OBVIOUS
  <2>2. ThrottleTypeOK'
    BY <1>2, <2>1 DEF Wake, outside
  <2>3. ThrottleInv'
    BY <1>2 DEF Wake
  <2> QED BY <2>2, <2>3
<1>3. CASE Render
  <2>1. 0 \in 0..RenderThrottle
    OBVIOUS
  <2> QED BY <1>3, <2>1 DEF Render, outside
<1>4. CASE Tick
  <2>1. /\ left' = IF left = 0 THEN 0 ELSE left - 1
        /\ age' = UpTo(age, RenderThrottle) /\ quiet' = UpTo(quiet, RenderThrottle + 1)
    BY <1>4 DEF Tick
  <2>2. /\ UNCHANGED <<permit, wanted, reader, evicted, over, fresh, pendingRender>>
        /\ over \/ ~pendingRender \/ left # 0
    BY <1>4 DEF Tick, outside, Ready, Elapsed
  <2>3. left' \in 0..RenderThrottle
    BY <2>1
  <2>4. age' \in 0..RenderThrottle /\ quiet' \in 0..(RenderThrottle + 1)
    BY <2>1 DEF UpTo
  <2>5. age + left >= RenderThrottle => age' + left' >= RenderThrottle
    BY <2>1 DEF UpTo
  <2> QED BY <2>2, <2>3, <2>4, <2>5
<1>5. CASE WakeDead \/ Refresh \/ RelayLeaves
  <2>1. UNCHANGED <<reader, evicted, pendingRender, left, age, quiet>>
    BY <1>5 DEF WakeDead, Refresh, RelayLeaves, outside, clocks
  <2>2. permit' \in BOOLEAN /\ wanted' \in BOOLEAN /\ over' \in BOOLEAN /\ fresh' \in BOOLEAN
    BY <1>5 DEF WakeDead, Refresh, RelayLeaves, outside
  <2> QED BY <2>1, <2>2
<1>6. CASE ReaderEnds \/ LastNotify \/ RequestRefresh \/ Evict
  <2>1. UNCHANGED <<over, fresh, pendingRender, left, age, quiet>>
    BY <1>6 DEF ReaderEnds, LastNotify, RequestRefresh, Evict, clocks
  <2>2. /\ permit' \in BOOLEAN /\ wanted' \in BOOLEAN /\ evicted' \in BOOLEAN
        /\ reader' \in {"alive", "ended", "gone"}
    BY <1>6 DEF ReaderEnds, LastNotify, RequestRefresh, Evict
  <2> QED BY <2>1, <2>2
<1>7. CASE UNCHANGED throttleVars
  BY <1>7 DEF throttleVars
<1> QED BY <1>1, <1>2, <1>3, <1>4, <1>5, <1>6, <1>7 DEF ThrottleNext, Relay

LEMMA ThrottleCorrect == ThrottleSpec => [](ThrottleTypeOK /\ ThrottleInv)
<1>1. ThrottleInit => ThrottleTypeOK /\ ThrottleInv
  <2>1. /\ 0 \in 0..RenderThrottle /\ RenderThrottle \in 0..RenderThrottle
        /\ RenderThrottle + 1 \in 0..(RenderThrottle + 1)
    BY ThrottleAssumption
  <2>2. ThrottleInit => ThrottleTypeOK
    BY <2>1 DEF ThrottleInit, ThrottleTypeOK
  <2>3. ThrottleInit => ThrottleInv
    BY DEF ThrottleInit, ThrottleInv
  <2> QED BY <2>2, <2>3
<1> QED BY <1>1, ThrottleStep, PTL DEF ThrottleSpec

\* Two renders that the throttle lets out are at least its interval apart,
\* whatever its length, however the notifications fall, and whatever refreshes
\* come in between.
THEOREM RendersApart == ThrottleSpec => MinimumInterval
<1>1. ThrottleTypeOK /\ ThrottleInv /\ [ThrottleNext]_throttleVars
        => [pendingRender /\ ~pendingRender' => age >= RenderThrottle]_throttleVars
  <2> SUFFICES ASSUME ThrottleTypeOK, ThrottleInv, ThrottleNext, pendingRender, ~pendingRender'
               PROVE  age >= RenderThrottle
    OBVIOUS
  <2>1. Render
    BY DEF ThrottleNext, Relay, Output, ReaderEnds, LastNotify, RequestRefresh, Evict,
           Wake, WakeDead, Refresh, RelayLeaves, Tick
  <2> QED BY <2>1, ThrottleAssumption DEF Render, Elapsed, ThrottleTypeOK, ThrottleInv
<1> QED BY <1>1, ThrottleCorrect, PTL DEF ThrottleSpec, MinimumInterval

-----------------------------------------------------------------------------
(* Records of connections.                                                 *)

(* What neither end will look at again is forgotten, the rest stays.       *)
LEMMA TidyFields ==
  ASSUME NEW r \in Connection
  PROVE  /\ Tidy(r) \in Connection
         /\ Tidy(r).open = r.open /\ Tidy(r).srv = r.srv
         /\ Tidy(r).sent = IF r.srv = "closed" THEN <<>> ELSE r.sent
         /\ Tidy(r).session = IF r.srv = "closed" THEN None ELSE r.session
         /\ Tidy(r).evicted = (r.evicted /\ r.srv # "closed")
         /\ Tidy(r).reply = IF r.open THEN r.reply ELSE "none"
         /\ r.srv = "first" => Tidy(r).req = r.req
<1>1. <<>> \in Seq(Nat)
  OBVIOUS
<1>2. r.evicted \in BOOLEAN
  BY DEF Connection
<1>3. Tidy(r) \in Connection
  BY <1>1, <1>2, SMTT(20) DEF Tidy, Connection, Name
<1>4. /\ Tidy(r).open = r.open /\ Tidy(r).srv = r.srv
      /\ Tidy(r).sent = IF r.srv = "closed" THEN <<>> ELSE r.sent
      /\ Tidy(r).session = IF r.srv = "closed" THEN None ELSE r.session
  BY DEF Tidy
<1>5. Tidy(r).evicted = (r.evicted /\ r.srv # "closed")
  BY DEF Tidy
<1>6. /\ Tidy(r).reply = IF r.open THEN r.reply ELSE "none"
      /\ r.srv = "first" => Tidy(r).req = r.req
  BY DEF Tidy
<1> QED BY <1>3, <1>4, <1>5, <1>6, Zenon

(* Telling clients to leave changes nothing else.                          *)
LEMMA EvictingType ==
  ASSUME NEW conns \in [Slot -> Connection], NEW S
  PROVE  Evicting(conns, S) \in [Slot -> Connection]
<1>1. ASSUME NEW d \in Slot PROVE [conns[d] EXCEPT !.evicted = TRUE] \in Connection
  <2>1. conns[d] \in Connection
    OBVIOUS
  <2> QED BY <2>1 DEF Connection
<1> QED BY <1>1 DEF Evicting

LEMMA EvictingFields ==
  ASSUME NEW conns \in [Slot -> Connection], NEW S, NEW c \in Slot
  PROVE  /\ Evicting(conns, S)[c].open = conns[c].open
         /\ Evicting(conns, S)[c].srv = conns[c].srv
         /\ Evicting(conns, S)[c].req = conns[c].req
         /\ Evicting(conns, S)[c].name = conns[c].name
         /\ Evicting(conns, S)[c].sent = conns[c].sent
         /\ Evicting(conns, S)[c].session = conns[c].session
         /\ Evicting(conns, S)[c].reply = conns[c].reply
         /\ Evicting(conns, S)[c].evicted = (conns[c].evicted \/ conns[c].session \in S)
<1>1. conns[c] \in Connection
  OBVIOUS
<1>2. CASE conns[c].session \in S
  <2>1. Evicting(conns, S)[c] = [conns[c] EXCEPT !.evicted = TRUE]
    BY <1>2 DEF Evicting
  <2> QED BY <1>1, <1>2, <2>1 DEF Connection
<1>3. CASE conns[c].session \notin S
  <2>1. Evicting(conns, S)[c] = conns[c]
    BY <1>3 DEF Evicting
  <2> QED BY <1>1, <1>3, <2>1 DEF Connection
<1> QED BY <1>2, <1>3

-----------------------------------------------------------------------------
(* What a step of the daemon does to the connections.                      *)

\* Connection d is left alone, but that it may be told to leave its session.
Same(d) ==
  /\ conn'[d].open = conn[d].open /\ conn'[d].srv = conn[d].srv
  /\ conn'[d].req = conn[d].req /\ conn'[d].name = conn[d].name /\ conn'[d].sent = conn[d].sent
  /\ conn'[d].session = conn[d].session /\ conn'[d].reply = conn[d].reply
  /\ conn'[d].evicted => conn[d].evicted \/ conn[d].session # None

\* The task of connection c goes on, past the first message; what it reads or
\* leaves behind is gone.
MovedOn(c) ==
  /\ conn'[c].open = conn[c].open /\ conn'[c].srv # "first"
  /\ \/ conn'[c].sent = <<>>
     \/ conn'[c].srv # "closed" /\ conn'[c].sent = conn[c].sent
     \/ /\ conn'[c].srv # "closed" /\ conn[c].sent # <<>>
        /\ conn'[c].sent = Tail(conn[c].sent)
  /\ conn'[c].reply = "connected" => conn'[c].srv \in {"screen", "relay", "closed"}

\* The step is the daemon's.
DaemonMoves ==
  /\ conn' \in [Slot -> Connection]
  /\ \A d \in Slot : Same(d) \/ MovedOn(d)

(* The daemon's end of one connection moves on.                            *)
LEMMA ServedOne ==
  ASSUME TypeOK, NEW c \in Slot, NEW r \in Connection, Served(c, r),
         r.open = conn[c].open, r.sent = conn[c].sent, r.srv # "first",
         r.reply = "connected" => r.srv \in {"screen", "relay", "closed"}
  PROVE  /\ DaemonMoves
         /\ \A d \in Slot \ {c} : conn'[d] = conn[d]
         /\ conn'[c].srv = r.srv /\ conn'[c].open = conn[c].open
         /\ conn'[c].sent \in {<<>>, conn[c].sent}
         /\ conn'[c].session = IF r.srv = "closed" THEN None ELSE r.session
         /\ conn'[c].evicted = (r.evicted /\ r.srv # "closed")
<1>1. conn' = [conn EXCEPT ![c] = Tidy(r)] /\ conn \in [Slot -> Connection]
  BY DEF Served, TypeOK
<1>2. conn' \in [Slot -> Connection] /\ conn'[c] = Tidy(r)
  BY <1>1, TidyFields
<1>3. MovedOn(c) /\ conn'[c].sent \in {<<>>, conn[c].sent}
  BY <1>2, TidyFields DEF MovedOn
<1>4. \A d \in Slot \ {c} : conn'[d] = conn[d] /\ Same(d)
  BY <1>1 DEF Same
<1> QED BY <1>2, <1>3, <1>4, TidyFields DEF DaemonMoves

(* The daemon's end of one connection moves on, and others are told to     *)
(* leave.                                                                  *)
LEMMA ServedEvicting ==
  ASSUME TypeOK, NEW c \in Slot, NEW r \in Connection, NEW S, None \notin S,
         \/ conn' = Evicting([conn EXCEPT ![c] = Tidy(r)], S)
         \/ conn' = [Evicting(conn, S) EXCEPT ![c] = Tidy(r)],
         r.open = conn[c].open, r.sent = conn[c].sent, r.srv # "first",
         r.reply = "connected" => r.srv \in {"screen", "relay", "closed"}
  PROVE  DaemonMoves
<1>1. conn \in [Slot -> Connection] /\ Tidy(r) \in Connection
  BY TidyFields DEF TypeOK
<1>2. CASE conn' = Evicting([conn EXCEPT ![c] = Tidy(r)], S)
  <2> DEFINE conns == [conn EXCEPT ![c] = Tidy(r)]
  <2>1. /\ conn' = Evicting(conns, S)
        /\ conns \in [Slot -> Connection] /\ conns[c] = Tidy(r)
        /\ \A d \in Slot \ {c} : conns[d] = conn[d]
    BY <1>1, <1>2
  <2> HIDE DEF conns
  <2>2. conn' \in [Slot -> Connection]
    BY <2>1, EvictingType
  <2>3. MovedOn(c)
    <3>1. /\ conn'[c].open = Tidy(r).open /\ conn'[c].srv = Tidy(r).srv
          /\ conn'[c].sent = Tidy(r).sent /\ conn'[c].reply = Tidy(r).reply
      BY <2>1, EvictingFields
    <3> QED BY <3>1, TidyFields DEF MovedOn
  <2>4. ASSUME NEW d \in Slot \ {c} PROVE Same(d)
    <3>1. conns[d] = conn[d]
      BY <2>1
    <3>2. /\ conn'[d].open = conn[d].open /\ conn'[d].srv = conn[d].srv
          /\ conn'[d].req = conn[d].req /\ conn'[d].name = conn[d].name
          /\ conn'[d].sent = conn[d].sent
          /\ conn'[d].session = conn[d].session /\ conn'[d].reply = conn[d].reply
          /\ conn'[d].evicted = (conn[d].evicted \/ conn[d].session \in S)
      BY <2>1, <3>1, EvictingFields
    <3> QED BY <3>2 DEF Same
  <2> QED BY <2>2, <2>3, <2>4 DEF DaemonMoves
<1>3. CASE conn' = [Evicting(conn, S) EXCEPT ![c] = Tidy(r)]
  <2>1. Evicting(conn, S) \in [Slot -> Connection]
    BY <1>1, EvictingType
  <2>2. conn' \in [Slot -> Connection] /\ conn'[c] = Tidy(r)
    BY <1>1, <1>3, <2>1
  <2>3. MovedOn(c)
    BY <2>2, TidyFields DEF MovedOn
  <2>4. ASSUME NEW d \in Slot \ {c} PROVE Same(d)
    <3>1. conn'[d] = Evicting(conn, S)[d]
      BY <1>3, <2>1
    <3>2. /\ conn'[d].open = conn[d].open /\ conn'[d].srv = conn[d].srv
          /\ conn'[d].req = conn[d].req /\ conn'[d].name = conn[d].name
          /\ conn'[d].sent = conn[d].sent
          /\ conn'[d].session = conn[d].session /\ conn'[d].reply = conn[d].reply
          /\ conn'[d].evicted = (conn[d].evicted \/ conn[d].session \in S)
      BY <1>1, <3>1, EvictingFields
    <3> QED BY <3>2 DEF Same
  <2> QED BY <2>2, <2>3, <2>4 DEF DaemonMoves
<1> QED BY <1>2, <1>3

\* Where the daemon's task of a connection can be once it has read the
\* request, and what it answers.
Ats == {"dropping", "greet", "screen", "relay", "closed"}
Replies == {"none", "yes", "no", "error", "killed", "connected"}

(* The next record of the daemon's end.                                    *)
LEMMA AtFields ==
  ASSUME NEW c \in Slot, conn[c] \in Connection, NEW at \in Ats
  PROVE  /\ At(c, at) \in Connection /\ At(c, at).srv = at
         /\ At(c, at).open = conn[c].open /\ At(c, at).sent = conn[c].sent
         /\ At(c, at).reply = conn[c].reply /\ At(c, at).session = conn[c].session
         /\ At(c, at).evicted = conn[c].evicted
         /\ \A reply \in Replies :
              /\ Answered(c, at, reply) \in Connection /\ Answered(c, at, reply).srv = at
              /\ Answered(c, at, reply).open = conn[c].open
              /\ Answered(c, at, reply).sent = conn[c].sent
              /\ Answered(c, at, reply).reply = reply
              /\ Answered(c, at, reply).session = conn[c].session
              /\ Answered(c, at, reply).evicted = conn[c].evicted
<1>1. At(c, at) \in Connection /\ At(c, at).srv = at
  BY DEF At, Connection, Ats
<1>2. /\ At(c, at).open = conn[c].open /\ At(c, at).sent = conn[c].sent
      /\ At(c, at).reply = conn[c].reply /\ At(c, at).session = conn[c].session
      /\ At(c, at).evicted = conn[c].evicted
  BY DEF At, Connection
<1>3. ASSUME NEW reply \in Replies
      PROVE  /\ Answered(c, at, reply) \in Connection /\ Answered(c, at, reply).srv = at
             /\ Answered(c, at, reply).open = conn[c].open
             /\ Answered(c, at, reply).sent = conn[c].sent
             /\ Answered(c, at, reply).reply = reply
             /\ Answered(c, at, reply).session = conn[c].session
             /\ Answered(c, at, reply).evicted = conn[c].evicted
  <2>1. Answered(c, at, reply) \in Connection /\ Answered(c, at, reply).srv = at
    BY DEF Answered, Connection, Ats, Replies
  <2>2. /\ Answered(c, at, reply).open = conn[c].open
        /\ Answered(c, at, reply).sent = conn[c].sent
        /\ Answered(c, at, reply).session = conn[c].session
    BY DEF Answered, Connection
  <2>3. /\ Answered(c, at, reply).evicted = conn[c].evicted
        /\ Answered(c, at, reply).reply = reply
    BY DEF Answered, Connection
  <2> QED BY <2>1, <2>2, <2>3
<1> QED BY <1>1, <1>2, <1>3

\* The steps of the daemon's tasks, one connection each.
ServeStep(c) == Serve(c) \/ Fault(c) \/ OutputFails(c)

(* What the daemon does is a step of its own kind on the connections.      *)
LEMMA DaemonConn ==
  ASSUME TypeOK, ConnInv,
         (\E c \in Slot : ServeStep(c)) \/ Sweep \/ DaemonEnds
  PROVE  DaemonMoves
<1>0. \A c \in Slot : conn[c] \in Connection
  BY DEF TypeOK
<1>1. /\ \A c \in Slot, at \in Ats :
           /\ At(c, at) \in Connection /\ At(c, at).srv = at
           /\ At(c, at).open = conn[c].open /\ At(c, at).sent = conn[c].sent
           /\ At(c, at).reply = conn[c].reply
      /\ \A c \in Slot, at \in Ats, reply \in Replies :
           /\ Answered(c, at, reply) \in Connection /\ Answered(c, at, reply).srv = at
           /\ Answered(c, at, reply).open = conn[c].open
           /\ Answered(c, at, reply).sent = conn[c].sent
           /\ Answered(c, at, reply).reply = reply
  BY <1>0, AtFields DEF Ats
<1>2. ASSUME NEW c \in Slot, conn[c].srv = "first" PROVE conn[c].reply = "none"
  BY <1>2 DEF ConnInv
<1>3. \A n \in Name : sessionOf[n] \in Session \cup {None}
  BY DEF TypeOK
<1>4. \A c \in Slot : conn[c].name \in Name
  BY <1>0 DEF Connection
<1>5. ASSUME NEW c \in Slot, NEW r \in Connection, Served(c, r), r.open = conn[c].open,
             r.sent = conn[c].sent, r.srv # "first",
             r.reply = "connected" => r.srv \in {"screen", "relay", "closed"}
      PROVE  DaemonMoves
  BY <1>5, ServedOne
<1>6. ASSUME NEW c \in Slot, ServeStep(c) PROVE DaemonMoves
  <2>1. CASE List(c)
    BY <2>1, <1>1, <1>5 DEF List, Ats, Replies
  <2>2. CASE KillRead(c)
    <3> DEFINE s == sessionOf[conn[c].name]
    <3>1. CASE s = None
      BY <2>2, <3>1, <1>1, <1>5 DEF KillRead, Ats, Replies
    <3>2. CASE s # None
      <4>1. conn' = Evicting([conn EXCEPT ![c] = Tidy(At(c, "dropping"))], {s})
        BY <2>2, <3>2 DEF KillRead
      <4>2. At(c, "dropping").reply # "connected"
        BY <2>2, <1>1, <1>2 DEF KillRead, Ats
      <4>3. /\ At(c, "dropping") \in Connection /\ At(c, "dropping").srv = "dropping"
            /\ At(c, "dropping").open = conn[c].open /\ At(c, "dropping").sent = conn[c].sent
        BY <1>1 DEF Ats
      <4>4. None \notin {s}
        BY <3>2
      <4> HIDE DEF s
      <4> QED BY <4>1, <4>2, <4>3, <4>4, ServedEvicting
    <3> QED BY <3>1, <3>2
  <2>3. CASE KillAnswer(c)
    BY <2>3, <1>1, <1>5 DEF KillAnswer, Ats, Replies
  <2>4. CASE NotFound(c)
    BY <2>4, <1>1, <1>5 DEF NotFound, Ats, Replies
  <2>5. CASE Create(c)
    <3>1. PICK s \in Session : Served(c, [At(c, "greet") EXCEPT !.session = s])
      BY <2>5 DEF Create
    <3> DEFINE r == [At(c, "greet") EXCEPT !.session = s]
    <3>2. r \in Connection /\ r = [conn[c] EXCEPT !.srv = "greet", !.session = s]
      BY <1>0 DEF At, Connection
    <3>3. /\ r.srv = "greet" /\ r.open = conn[c].open
          /\ r.sent = conn[c].sent /\ r.reply = "none"
      BY <2>5, <3>2, <1>0, <1>2 DEF Create, Connection
    <3> QED BY <3>1, <3>2, <3>3, <1>5
  <2>6. CASE Attach(c)
    <3> DEFINE s == sessionOf[conn[c].name]
               r == [At(c, "greet") EXCEPT !.session = s]
    <3>1. conn' = [Evicting(conn, {s}) EXCEPT ![c] = Tidy(r)] /\ s # None
      BY <2>6 DEF Attach
    <3>2. s \in Session \cup {None}
      BY <1>3, <1>4
    <3>3. r \in Connection /\ r = [conn[c] EXCEPT !.srv = "greet", !.session = s]
      BY <3>2, <1>0 DEF At, Connection
    <3>4. /\ r.srv = "greet" /\ r.open = conn[c].open
          /\ r.sent = conn[c].sent /\ r.reply = "none"
      BY <2>6, <3>3, <1>0, <1>2 DEF Attach, Connection
    <3> QED BY <3>1, <3>3, <3>4, ServedEvicting
  <2>7. CASE Fault(c)
    <3> DEFINE s == sessionOf[conn[c].name]
    <3>1. CASE s = None
      BY <2>7, <3>1, <1>1, <1>5 DEF Fault, Ats, Replies
    <3>2. CASE s # None
      <4>1. conn' = [Evicting(conn, {s}) EXCEPT ![c] = Tidy(At(c, "closed"))]
        BY <2>7, <3>2 DEF Fault
      <4>2. /\ At(c, "closed") \in Connection /\ At(c, "closed").srv = "closed"
            /\ At(c, "closed").open = conn[c].open /\ At(c, "closed").sent = conn[c].sent
        BY <1>1 DEF Ats
      <4>3. None \notin {s}
        BY <3>2
      <4> HIDE DEF s
      <4> QED BY <4>1, <4>2, <4>3, ServedEvicting
    <3> QED BY <3>1, <3>2
  <2>8. CASE Greet(c)
    BY <2>8, <1>1, <1>5 DEF Greet, Ats, Replies
  <2>9. CASE SendScreen(c)
    BY <2>9, <1>1, <1>5 DEF SendScreen, Ats, Replies
  <2>10. CASE ReadInput(c)
    <3>1. CASE Head(conn[c].sent) = Detach
      BY <2>10, <3>1, <1>1, <1>5 DEF ReadInput, Ats, Replies
    <3>2. CASE Head(conn[c].sent) # Detach
      <4>1. conn' = [conn EXCEPT ![c].sent = Tail(@)] /\ conn[c].sent # <<>> /\ conn[c].srv = "relay"
        BY <2>10, <3>2 DEF ReadInput
      <4>2. Tail(conn[c].sent) \in Seq(Nat)
        BY <4>1, <1>0 DEF Connection
      <4>3. conn \in [Slot -> Connection]
        BY DEF TypeOK
      <4>4. conn' = [conn EXCEPT ![c] = [conn[c] EXCEPT !.sent = Tail(conn[c].sent)]]
        BY <4>1
      <4>5. [conn[c] EXCEPT !.sent = Tail(conn[c].sent)] \in Connection
        BY <4>2, <1>0 DEF Connection
      <4>6. conn' \in [Slot -> Connection]
        BY <4>3, <4>4, <4>5
      <4>7. conn'[c] = [conn[c] EXCEPT !.sent = Tail(conn[c].sent)]
        BY <4>3, <4>4
      <4>8. MovedOn(c)
        BY <4>1, <4>7, <1>0 DEF MovedOn, Connection
      <4>9. \A d \in Slot \ {c} : Same(d)
        BY <4>3, <4>4 DEF Same
      <4> QED BY <4>6, <4>8, <4>9 DEF DaemonMoves
    <3> QED BY <3>1, <3>2
  <2>11. CASE ReadEof(c)
    BY <2>11, <1>1, <1>5 DEF ReadEof, Ats, Replies
  <2>12. CASE Leave(c)
    BY <2>12, <1>1, <1>5 DEF Leave, Ats, Replies
  <2>13. CASE OutputFails(c)
    BY <2>13, <1>1, <1>5 DEF OutputFails, Ats, Replies
  <2> QED BY <1>6, <2>1, <2>2, <2>3, <2>4, <2>5, <2>6, <2>7, <2>8, <2>9, <2>10,
             <2>11, <2>12, <2>13 DEF ServeStep, Serve
<1>7. CASE Sweep
  <2>1. PICK dead : conn' = Evicting(conn, dead) /\ None \notin dead
    BY <1>7 DEF Sweep
  <2>2. conn \in [Slot -> Connection]
    BY DEF TypeOK
  <2>3. ASSUME NEW d \in Slot PROVE Same(d)
    <3>1. /\ conn'[d].open = conn[d].open /\ conn'[d].srv = conn[d].srv
          /\ conn'[d].req = conn[d].req /\ conn'[d].name = conn[d].name
          /\ conn'[d].sent = conn[d].sent
          /\ conn'[d].session = conn[d].session /\ conn'[d].reply = conn[d].reply
          /\ conn'[d].evicted = (conn[d].evicted \/ conn[d].session \in dead)
      BY <2>1, <2>2, EvictingFields
    <3> QED BY <2>1, <3>1 DEF Same
  <2>4. conn' \in [Slot -> Connection]
    BY <2>1, <2>2, EvictingType
  <2> QED BY <2>3, <2>4 DEF DaemonMoves
<1>8. CASE DaemonEnds
  <2>1. conn' = [c \in Slot |-> Tidy(At(c, "closed"))]
    BY <1>8 DEF DaemonEnds
  <2>2. \A c \in Slot : Tidy(At(c, "closed")) \in Connection
    BY <1>1, TidyFields DEF Ats
  <2>3. conn' \in [Slot -> Connection]
    BY <2>1, <2>2
  <2>4. \A c \in Slot : MovedOn(c)
    BY <2>1, <1>1, TidyFields DEF MovedOn, Ats
  <2> QED BY <2>3, <2>4 DEF DaemonMoves
<1> QED BY <1>6, <1>7, <1>8

-----------------------------------------------------------------------------
(* What a connection can carry.                                            *)

(* The sequences that are sent.                                            *)
LEMMA Words ==
  ASSUME NEW k \in Nat, NEW m \in Nat
  PROVE  /\ <<>> \in Seq(Nat) /\ <<k>> \in Seq(Nat) /\ <<k, m>> \in Seq(Nat)
         /\ <<k>> # <<>> /\ <<k, m>> # <<>> /\ <<k>> # <<k, m>>
         /\ Head(<<k>>) = k /\ Tail(<<k>>) = <<>>
         /\ Head(<<k, m>>) = k /\ Tail(<<k, m>>) = <<m>>
         /\ Append(<<>>, m) = <<m>> /\ Append(<<k>>, m) = <<k, m>>
<1>1. /\ <<>> \in Seq(Nat) /\ <<k>> \in Seq(Nat) /\ <<k, m>> \in Seq(Nat)
      /\ <<k>> # <<>> /\ <<k, m>> # <<>> /\ <<k>> # <<k, m>>
  OBVIOUS
<1>2. Head(<<k>>) = k /\ Tail(<<k>>) = <<>>
  OBVIOUS
<1>3. Head(<<k, m>>) = k /\ Tail(<<k, m>>) = <<m>>
  OBVIOUS
<1>4. Append(<<>>, m) = <<m>>
  OBVIOUS
<1>5. Append(<<k>>, m) = <<k, m>>
  <2> DEFINE a == Append(<<k>>, m)
             b == <<k, m>>
  <2>1. a \in Seq(Nat) /\ Len(a) = 2 /\ a[1] = k /\ a[2] = m
    OBVIOUS
  <2>2. b \in Seq(Nat) /\ Len(b) = 2 /\ b[1] = k /\ b[2] = m
    OBVIOUS
  <2> HIDE DEF a, b
  <2>3. a \in [1..2 -> Nat] /\ b \in [1..2 -> Nat]
    BY <2>1, <2>2
  <2>4. \A i \in 1..2 : a[i] = b[i]
    BY <2>1, <2>2
  <2>5. a = b
    BY <2>3, <2>4
  <2> QED BY <2>5 DEF a, b
<1> QED BY <1>1, <1>2, <1>3, <1>4, <1>5

(* The next of some inputs is one of them.                                 *)
LEMMA NextInput ==
  ASSUME NEW S, NEW inputs \in Seq(S), inputs # <<>>
  PROVE  /\ Head(inputs) = inputs[1] /\ Head(inputs) \in S
         /\ Len(inputs) \in Nat /\ Len(inputs) > 0
         /\ Tail(inputs) \in Seq(S) /\ Len(Tail(inputs)) = Len(inputs) - 1
         /\ \A i \in 1..Len(inputs) - 1 : Tail(inputs)[i] = inputs[i + 1]
<1>1. Len(inputs) \in Nat /\ Len(inputs) > 0
  OBVIOUS
<1>2. Head(inputs) = inputs[1] /\ inputs[1] \in S
  BY <1>1
<1>3. /\ Tail(inputs) \in Seq(S) /\ Len(Tail(inputs)) = Len(inputs) - 1
      /\ \A i \in 1..Len(inputs) - 1 : Tail(inputs)[i] = inputs[i + 1]
  BY <1>1
<1> QED BY <1>1, <1>2, <1>3

\* What connection d carries to the daemon is an input, a Detach, or both.
Message(d, n) ==
  \/ conn[d].sent = <<>> \/ conn[d].sent = <<Detach>>
  \/ \E k \in 1..n : conn[d].sent = <<k>> \/ conn[d].sent = <<k, Detach>>

LEMMA ConnMessage ==
  ASSUME NEW d \in Slot, ConnInv
  PROVE  Message(d, typed)
BY DEF ConnInv, Message

\* No connection is hung up, and none carries anything new.
Kept ==
  \A d \in Slot :
    /\ conn'[d].open = conn[d].open
    /\ conn'[d].srv = "first" => conn[d].srv = "first" /\ conn'[d].req = conn[d].req
    /\ conn[d].sent = <<>> => conn'[d].sent = <<>>
    /\ \A k \in Nat : conn[d].sent = <<k>> => conn'[d].sent \in {<<>>, <<k>>}
    /\ \A k \in Nat \ {0} : Carries(d, k)' => Carries(d, k)

(* A step of the daemon keeps what is on its way, or takes it.             *)
LEMMA DaemonKeeps ==
  ASSUME TypeOK, ConnInv, typed' = typed, DaemonMoves
  PROVE  ConnInv' /\ Kept
<1>1. ASSUME NEW d \in Slot
      PROVE  /\ conn'[d].sent \in {<<>>, <<Detach>>} \cup {<<k>> : k \in 1..typed}
                                  \cup {<<k, Detach>> : k \in 1..typed}
             /\ conn[d].sent = <<>> => conn'[d].sent = <<>>
             /\ \A k \in Nat : conn[d].sent = <<k>> => conn'[d].sent \in {<<>>, <<k>>}
             /\ \A k \in Nat \ {0} : Carries(d, k)' => Carries(d, k)
             /\ conn'[d].srv = "closed" => conn'[d].sent = <<>>
  <2>1. typed \in Nat /\ typed' = typed
    BY BoundsAssumption DEF TypeOK
  <2>2. \/ conn'[d].sent = conn[d].sent \/ conn'[d].sent = <<>>
        \/ conn[d].sent # <<>> /\ conn'[d].sent = Tail(conn[d].sent)
    BY DEF DaemonMoves, Same, MovedOn
  <2>3. conn'[d].srv = "closed" => conn'[d].sent = <<>>
    BY DEF DaemonMoves, Same, MovedOn, ConnInv
  <2>4. Message(d, typed)
    BY ConnMessage
  <2>5. CASE conn'[d].sent = conn[d].sent
    BY <2>3, <2>5 DEF ConnInv, Carries
  <2>6. CASE conn'[d].sent = <<>>
    BY <2>6 DEF Carries
  <2>7. CASE conn[d].sent # <<>> /\ conn'[d].sent = Tail(conn[d].sent)
    <3>1. \A k \in 1..typed : k \in Nat
      BY <2>1
    <3>2. conn'[d].sent \in {<<>>, <<Detach>>}
      <4>1. Detach \in Nat
        BY DEF Detach
      <4>2. Tail(<<Detach>>) = <<>> /\ \A k \in Nat : Tail(<<k>>) = <<>> /\ Tail(<<k, Detach>>) = <<Detach>>
        BY <4>1, Words
      <4> QED BY <2>4, <2>7, <3>1, <4>2 DEF Message
    <3>3. \A k \in Nat : conn[d].sent = <<k>> => conn'[d].sent = <<>>
      BY <2>7, Words
    <3>4. \A k \in Nat \ {0} : ~Carries(d, k)'
      BY <3>2, Words DEF Carries, Detach
    <3> QED BY <2>3, <2>7, <3>2, <3>3, <3>4
  <2> QED BY <2>2, <2>5, <2>6, <2>7
<1>2. ASSUME NEW d \in Slot
      PROVE  /\ conn'[d].open = conn[d].open
             /\ conn'[d].srv = "first" =>
                  /\ conn'[d].reply = "none" /\ conn'[d].session = None /\ ~conn'[d].evicted
                  /\ conn[d].srv = "first" /\ conn'[d].req = conn[d].req
             /\ conn'[d].reply = "connected" => conn'[d].srv \in {"screen", "relay", "closed"}
  BY DEF DaemonMoves, Same, MovedOn, ConnInv
<1>3. ConnInv'
  BY <1>1, <1>2 DEF ConnInv
<1>4. Kept
  BY <1>1, <1>2 DEF Kept
<1> QED BY <1>3, <1>4

\* The steps that are the daemon's.
DaemonStep ==
  \/ \E c \in Slot : ServeStep(c)
  \/ \E s \in Session : Dropped(s) \/ ProgramEnds(s)
  \/ Sweep \/ DaemonEnds

(* The daemon leaves the application's variables alone.                    *)
LEMMA DaemonFrame ==
  ASSUME TypeOK, ConnInv, DaemonStep
  PROVE  UNCHANGED serveFrame /\ DaemonMoves /\ ConnInv' /\ Kept
<1>1. UNCHANGED serveFrame
  BY DEF DaemonStep, ServeStep, Serve, List, KillRead, KillAnswer, NotFound, Create,
         Attach, Fault, Greet, SendScreen, ReadInput, ReadEof, Leave, OutputFails,
         Dropped, ProgramEnds, Sweep, DaemonEnds
<1>2. DaemonMoves
  <2>1. CASE \E s \in Session : Dropped(s) \/ ProgramEnds(s)
    <3>1. conn' = conn /\ conn \in [Slot -> Connection]
      BY <2>1 DEF Dropped, ProgramEnds, TypeOK
    <3> QED BY <3>1 DEF DaemonMoves, Same
  <2> QED BY <2>1, DaemonConn DEF DaemonStep
<1>3. typed' = typed
  BY <1>1 DEF serveFrame, flushVars
<1> QED BY <1>1, <1>2, <1>3, DaemonKeeps

(* What the daemon's own variables can be after a step of it.              *)
LEMMA DaemonType ==
  ASSUME TypeOK, ConnInv, DaemonStep
  PROVE  TypeOK'
<1>1. /\ UNCHANGED serveFrame /\ conn' \in [Slot -> Connection]
      /\ \A d \in Slot : conn'[d].open = conn[d].open
  BY DaemonFrame DEF DaemonMoves, Kept
<1> DEFINE Rest == /\ sessionOf' \in [Name -> Session \cup {None}]
                   /\ running' \subseteq Session /\ doomed' \subseteq Session
                   /\ faults' \in 0..MaxFaults /\ meddled' \in BOOLEAN
                   /\ read' \in [1..MaxInputs -> Nat] /\ final' \in BOOLEAN
<1>2. /\ sessionOf \in [Name -> Session \cup {None}]
      /\ running \subseteq Session /\ doomed \subseteq Session
      /\ faults \in 0..MaxFaults /\ meddled \in BOOLEAN
      /\ read \in [1..MaxInputs -> Nat]
      /\ \A c \in Slot : conn[c].name \in Name
      /\ MaxFaults \in Nat /\ final \in BOOLEAN
  BY BoundsAssumption DEF TypeOK, Connection
<1>3. ASSUME NEW c \in Slot, ServeStep(c) PROVE Rest
  <2>1. CASE KillRead(c)
    <3>1. sessionOf' = [sessionOf EXCEPT ![conn[c].name] = None]
      BY <2>1 DEF KillRead
    <3>2. sessionOf[conn[c].name] \in Session \cup {None}
      BY <1>2
    <3>3. running' = running /\ faults' = faults /\ read' = read
      BY <2>1 DEF KillRead
    <3>4. doomed' \subseteq Session /\ meddled' \in BOOLEAN /\ final' \in BOOLEAN
      BY <2>1, <1>2, <3>2 DEF KillRead
    <3> QED BY <1>2, <3>1, <3>3, <3>4
  <2>2. CASE Create(c)
    <3>1. PICK s \in Session : /\ sessionOf' = [sessionOf EXCEPT ![conn[c].name] = s]
                               /\ running' = running \cup {s}
      BY <2>2 DEF Create
    <3>2. UNCHANGED <<doomed, historyVars>>
      BY <2>2 DEF Create
    <3> QED BY <1>2, <3>1, <3>2 DEF historyVars
  <2>3. CASE Fault(c)
    <3>1. UNCHANGED <<daemonVars, read, final>> /\ faults < MaxFaults /\ faults' = faults + 1 /\ meddled' = TRUE
      BY <2>3 DEF Fault
    <3> QED BY <1>2, <3>1 DEF daemonVars
  <2>4. CASE ReadInput(c)
    <3>1. UNCHANGED <<daemonVars, faults, meddled, final>>
      BY <2>4 DEF ReadInput
    <3>2. CASE read' = read
      BY <1>2, <3>1, <3>2 DEF daemonVars
    <3>3. CASE read' # read
      <4> DEFINE msg == Head(conn[c].sent)
      <4>1. conn[c].sent # <<>> /\ msg # Detach /\ read' = [read EXCEPT ![msg] = @ + 1]
        BY <2>4, <3>3 DEF ReadInput
      <4> HIDE DEF msg
      <4>2. read' \in [1..MaxInputs -> Nat]
        <5>1. CASE msg \in 1..MaxInputs
          <6>1. read[msg] + 1 \in Nat
            BY <1>2, <5>1
          <6> QED BY <1>2, <4>1, <6>1
        <5>2. CASE msg \notin 1..MaxInputs
          BY <1>2, <4>1, <5>2
        <5> QED BY <5>1, <5>2
      <4> QED BY <1>2, <3>1, <4>2 DEF daemonVars
    <3> QED BY <3>2, <3>3
  <2>5. CASE List(c) \/ KillAnswer(c) \/ NotFound(c) \/ Attach(c) \/ Greet(c) \/ SendScreen(c)
             \/ ReadEof(c) \/ Leave(c) \/ OutputFails(c)
    <3>1. UNCHANGED <<daemonVars, historyVars>>
      BY <2>5 DEF List, KillAnswer, NotFound, Attach, Greet, SendScreen, ReadEof, Leave, OutputFails
    <3> QED BY <1>2, <3>1 DEF daemonVars, historyVars
  <2> QED BY <1>3, <2>1, <2>2, <2>3, <2>4, <2>5 DEF ServeStep, Serve
<1>4. ASSUME NEW s \in Session, Dropped(s) \/ ProgramEnds(s) PROVE Rest
  <2>1. CASE Dropped(s)
    <3>1. doomed' \subseteq doomed /\ running' \subseteq running /\ UNCHANGED <<sessionOf, historyVars>>
      BY <2>1 DEF Dropped
    <3> QED BY <1>2, <3>1 DEF historyVars
  <2>2. CASE ProgramEnds(s)
    <3>1. running' \subseteq running /\ meddled' = TRUE /\ UNCHANGED <<sessionOf, doomed, faults, read, final>>
      BY <2>2 DEF ProgramEnds
    <3> QED BY <1>2, <3>1
  <2> QED BY <1>4, <2>1, <2>2
<1>5. ASSUME Sweep PROVE Rest
  <2>1. PICK dead : sessionOf' = [n \in Name |-> IF sessionOf[n] \in dead THEN None ELSE sessionOf[n]]
    BY <1>5 DEF Sweep
  <2>2. UNCHANGED <<running, doomed, historyVars>>
    BY <1>5 DEF Sweep
  <2> QED BY <1>2, <2>1, <2>2 DEF historyVars
<1>6. ASSUME DaemonEnds PROVE Rest
  <2>1. /\ faults < MaxFaults /\ faults' = faults + 1 /\ meddled' = TRUE /\ UNCHANGED <<read, final>>
        /\ sessionOf' = [n \in Name |-> None] /\ running' = {} /\ doomed' = {}
    BY <1>6 DEF DaemonEnds
  <2> QED BY <1>2, <2>1
<1>7. Rest
  BY <1>3, <1>4, <1>5, <1>6 DEF DaemonStep
<1>8. UNCHANGED <<renamed, live, closed, pending, batch, typed, flush, kill, opener>>
  BY <1>1 DEF serveFrame, paneVars, flushVars
<1>9. \A task \in {flush, kill, opener} : task.c # None => conn'[task.c].open
  <2>1. \A task \in {flush, kill, opener} : task.c \in Slot \cup {None}
    BY DEF TypeOK
  <2> QED BY <1>1, <2>1 DEF TypeOK
<1> QED BY <1>1, <1>7, <1>8, <1>9 DEF TypeOK

(* The daemon leaves each task its connection.                             *)
LEMMA DaemonTask ==
  ASSUME TypeOK, TaskInv, FlushInv, UNCHANGED serveFrame, Kept
  PROVE  TaskInv'
<1>1. UNCHANGED <<batch, flush, kill, opener>>
  BY DEF serveFrame, flushVars
<1>2. flush.c \in Slot \cup {None} /\ kill.c \in Slot \cup {None} /\ opener.c \in Slot \cup {None}
  BY DEF TypeOK
<1>3. kill.c # None /\ conn'[kill.c].srv = "first" => conn'[kill.c].req = "kill"
  BY <1>2 DEF TaskInv, Kept
<1>4. flush.c # None /\ flush.at # "detach" => conn'[flush.c].sent = <<>>
  BY <1>2 DEF TaskInv, Kept
<1>5. ASSUME flush.at = "detach" PROVE flush.c # None /\ conn'[flush.c].sent \in {<<>>, <<Head(batch)>>}
  <2>1. batch # <<>> /\ flush.c # None /\ flush.c \in Slot /\ conn[flush.c].sent \in {<<>>, <<Head(batch)>>}
    BY <1>2, <1>5 DEF TaskInv, FlushInv
  <2>2. Head(batch) \in Nat
    <3>1. batch \in Seq(1..typed) /\ typed \in Nat
      BY BoundsAssumption DEF TypeOK
    <3>2. Head(batch) \in 1..typed
      BY <2>1, <3>1, NextInput
    <3> QED BY <3>1, <3>2
  <2> QED BY <2>1, <2>2 DEF Kept
<1> QED BY <1>1, <1>3, <1>4, <1>5 DEF TaskInv

-----------------------------------------------------------------------------
(* How often inputs are read.                                              *)

\* No connection carries an input that it did not carry before.
NoneNew == \A d \in Slot : \A k \in Nat \ {0} : Carries(d, k)' => Carries(d, k)

(* Where nothing is sent or read, the counts stand: a step may move the    *)
(* flush on between two attempts.                                          *)
LEMMA CountKept ==
  ASSUME TypeOK, CountInv, NoneNew, UNCHANGED <<batch, read>>, Behind' = Behind,
         \/ flush' = flush
         \/ /\ flush.at # "detach" /\ flush'.at # "detach"
            /\ batch # <<>> /\ flush'.why = "send" => flush.why = "send"
  PROVE  CountInv'
<1>1. \A k \in DOMAIN read : k \in Nat \ {0} /\ read[k] \in Nat
  BY BoundsAssumption DEF TypeOK
<1>2. ASSUME NEW k \in DOMAIN read, NEW n \in Nat, Sent(k, n)
      PROVE  Sent(k, n)'
  BY <1>1, <1>2 DEF Sent, NoneNew
<1>3. Behind' = Behind
  OBVIOUS
<1>4. ASSUME NEW k \in DOMAIN read
      PROVE  /\ \A c, d \in Slot : Carries(c, k)' /\ Carries(d, k)' => c = d
             /\ Sent(k, 2)'
             /\ k > Behind + 1 \/ (k > Behind /\ batch = <<>>) => Sent(k, 0)'
  BY <1>1, <1>2 DEF CountInv, NoneNew
<1>5. ASSUME batch # <<>>
      PROVE  /\ \A c \in Slot :
                  Carries(c, Head(batch))' => flush'.at = "detach" /\ c = flush'.c
             /\ flush'.at # "detach" => Sent(Head(batch), 1)'
             /\ flush'.why = "send" => Sent(Head(batch), 1)'
             /\ flush'.why = "send" /\ flush'.at # "detach" => Sent(Head(batch), 0)'
  <2>1. batch \in Seq(1..typed) /\ typed \in 0..MaxInputs
    BY DEF TypeOK
  <2>2. Head(batch) \in 1..typed
    BY <2>1, <1>5, NextInput
  <2>3. Head(batch) \in DOMAIN read /\ Head(batch) \in Nat \ {0}
    BY <2>1, <2>2, BoundsAssumption DEF TypeOK
  <2>4. PICK h \in DOMAIN read : h = Head(batch)
    BY <2>3
  <2>5. /\ \A c \in Slot : Carries(c, h) => flush.at = "detach" /\ c = flush.c
        /\ flush.at # "detach" => Sent(h, 1)
        /\ flush.why = "send" => Sent(h, 1)
        /\ flush.why = "send" /\ flush.at # "detach" => Sent(h, 0)
    BY <1>5, <2>4 DEF CountInv
  <2>6. \A c \in Slot : Carries(c, h)' => Carries(c, h)
    BY <1>1, <2>4 DEF NoneNew
  <2>7. /\ \A c \in Slot : Carries(c, h)' => flush'.at = "detach" /\ c = flush'.c
        /\ flush'.at # "detach" => Sent(h, 1)'
        /\ flush'.why = "send" => Sent(h, 1)'
        /\ flush'.why = "send" /\ flush'.at # "detach" => Sent(h, 0)'
    BY <1>2, <1>5, <2>5, <2>6
  <2> QED BY <2>4, <2>7 DEF Sent, Carries
<1> QED BY <1>3, <1>4, <1>5 DEF CountInv

(* An input is read.                                                       *)
LEMMA CountRead ==
  ASSUME TypeOK, ConnInv, CountInv, NEW c \in Slot, ReadInput(c), Kept, read' # read
  PROVE  /\ Head(conn[c].sent) \in DOMAIN read
         /\ Carries(c, Head(conn[c].sent))
         /\ \A k \in DOMAIN read, n \in Nat : Sent(k, n) => Sent(k, n)'
         /\ CountInv'
<1>1. /\ typed \in Nat /\ typed <= MaxInputs /\ MaxInputs \in Nat /\ DOMAIN read = 1..MaxInputs
      /\ read \in [1..MaxInputs -> Nat] /\ conn[c] \in Connection /\ conn \in [Slot -> Connection]
  BY BoundsAssumption DEF TypeOK
<1>2. conn[c].sent # <<>> /\ Head(conn[c].sent) # Detach /\ UNCHANGED flushVars
  BY DEF ReadInput, serveFrame
<1>3. Message(c, typed) /\ \A k \in 1..typed : k \in Nat /\ k \in DOMAIN read
  BY <1>1, ConnMessage
<1>4. PICK msg \in DOMAIN read : msg = Head(conn[c].sent) /\ Tail(conn[c].sent) \in {<<>>, <<Detach>>}
  <2>1. CASE conn[c].sent = <<Detach>>
    BY <1>2, <2>1, Words DEF Detach
  <2>2. ASSUME NEW k \in 1..typed, conn[c].sent = <<k>> \/ conn[c].sent = <<k, Detach>>
        PROVE  k = Head(conn[c].sent) /\ Tail(conn[c].sent) \in {<<>>, <<Detach>>}
    <3>1. k \in Nat /\ Detach \in Nat
      BY <1>3 DEF Detach
    <3>2. Head(<<k>>) = k /\ Tail(<<k>>) = <<>> /\ Head(<<k, Detach>>) = k /\ Tail(<<k, Detach>>) = <<Detach>>
      BY <3>1, Words
    <3> QED BY <2>2, <3>2
  <2> QED BY <1>2, <1>3, <2>1, <2>2 DEF Message
<1>5. /\ conn' = [conn EXCEPT ![c].sent = Tail(@)]
      /\ read' = [read EXCEPT ![msg] = @ + 1]
  BY <1>2, <1>4 DEF ReadInput
<1>6. Carries(c, msg)
  BY <1>2, <1>4 DEF Carries
<1>7. NoneNew
  BY DEF Kept, NoneNew
<1>8. msg \in Nat \ {0} /\ \A k \in DOMAIN read : k \in Nat \ {0}
  BY <1>1
<1>9. ASSUME NEW d \in Slot, Carries(d, msg)' PROVE FALSE
  <2>1. d = c
    <3>1. Carries(d, msg)
      BY <1>7, <1>8, <1>9 DEF NoneNew
    <3> QED BY <1>6, <3>1 DEF CountInv
  <2>2. conn'[c].sent = Tail(conn[c].sent)
    BY <1>1, <1>5 DEF Connection
  <2>3. conn'[c].sent \in {<<>>, <<Detach>>}
    BY <1>4, <2>2
  <2>4. Head(<<Detach>>) = Detach
    BY Words DEF Detach
  <2> QED BY <1>8, <1>9, <2>1, <2>3, <2>4 DEF Carries, Detach
<1>10. ASSUME NEW k \in DOMAIN read, NEW n \in Nat, Sent(k, n)
       PROVE  Sent(k, n)'
  <2>1. CASE k = msg
    <3>1. read[k] < n /\ read'[k] = read[k] + 1 /\ read[k] \in Nat
      BY <2>1, <1>1, <1>5, <1>6, <1>10 DEF Sent
    <3> QED BY <2>1, <3>1, <1>9 DEF Sent
  <2>2. CASE k # msg
    <3>1. read'[k] = read[k]
      BY <2>2, <1>1, <1>5
    <3> QED BY <3>1, <1>7, <1>8, <1>10 DEF Sent, NoneNew
  <2> QED BY <2>1, <2>2
<1>11. UNCHANGED <<flush, batch, pending, typed>> /\ DOMAIN read' = DOMAIN read
  BY <1>1, <1>2, <1>5 DEF flushVars
<1>12. Behind' = Behind
  BY <1>11 DEF Behind
<1>13. ASSUME NEW k \in DOMAIN read
       PROVE  /\ \A a, d \in Slot : Carries(a, k)' /\ Carries(d, k)' => a = d
              /\ Sent(k, 2)'
              /\ k > Behind + 1 \/ (k > Behind /\ batch = <<>>) => Sent(k, 0)'
  BY <1>7, <1>8, <1>10 DEF CountInv, NoneNew
<1>14. ASSUME batch # <<>>
       PROVE  /\ \A a \in Slot :
                   Carries(a, Head(batch))' => flush.at = "detach" /\ a = flush.c
              /\ flush.at # "detach" => Sent(Head(batch), 1)'
              /\ flush.why = "send" => Sent(Head(batch), 1)'
              /\ flush.why = "send" /\ flush.at # "detach" => Sent(Head(batch), 0)'
  <2>1. batch \in Seq(1..typed)
    BY DEF TypeOK
  <2>2. Head(batch) \in 1..typed
    BY <2>1, <1>14, NextInput
  <2>3. PICK h \in DOMAIN read : h = Head(batch)
    BY <2>2, <1>1
  <2>4. /\ \A a \in Slot : Carries(a, h) => flush.at = "detach" /\ a = flush.c
        /\ flush.at # "detach" => Sent(h, 1)
        /\ flush.why = "send" => Sent(h, 1)
        /\ flush.why = "send" /\ flush.at # "detach" => Sent(h, 0)
    BY <1>14, <2>3 DEF CountInv
  <2>5. /\ \A a \in Slot : Carries(a, h)' => flush.at = "detach" /\ a = flush.c
        /\ flush.at # "detach" => Sent(h, 1)'
        /\ flush.why = "send" => Sent(h, 1)'
        /\ flush.why = "send" /\ flush.at # "detach" => Sent(h, 0)'
    BY <1>7, <1>8, <1>10, <2>4 DEF NoneNew
  <2> QED BY <1>11, <2>3, <2>5 DEF Sent, Carries
<1>15. CountInv'
  BY <1>11, <1>12, <1>13, <1>14 DEF CountInv
<1> QED BY <1>4, <1>6, <1>10, <1>15

(* Where nothing is read, what is sent is sent as often as before.         *)
LEMMA SentKept ==
  ASSUME TypeOK, NoneNew, read' = read
  PROVE  \A k \in DOMAIN read, n \in Nat : Sent(k, n) => Sent(k, n)'
<1>1. \A k \in DOMAIN read : k \in Nat \ {0} /\ read[k] \in Nat
  BY BoundsAssumption DEF TypeOK
<1> QED BY <1>1 DEF Sent, NoneNew

-----------------------------------------------------------------------------
(* While nobody disturbs the flush.                                        *)

(* One task of the daemon goes on.                                         *)
LEMMA CalmServed ==
  ASSUME TypeOK, TaskInv, CalmInv, Undisturbed, UNCHANGED <<flush, kill, batch, doomed>>,
         NEW c \in Slot, conn'[c].srv # "first", \A d \in Slot \ {c} : Same(d),
         flush.c \in Slot \ {c} => conn'[flush.c].evicted = conn[flush.c].evicted,
         running \subseteq running', \A n \in Name : sessionOf'[n] \in running' \cup {None},
         conn'[c].srv \in {"greet", "screen", "relay"} => conn'[c].session \in running',
         c = flush.c => ~conn'[c].evicted,
         c = flush.c /\ flush.at = "detach" => conn'[c].srv \in {"screen", "relay"},
         \A k \in DOMAIN read, n \in Nat : Sent(k, n) => Sent(k, n)',
         DOMAIN read' = DOMAIN read
  PROVE  CalmInv'
<1>1. /\ doomed' = {} /\ \A n \in Name : sessionOf'[n] \in running' \cup {None}
  BY DEF CalmInv
<1>2. flush.c \in Slot \cup {None}
  BY DEF TypeOK
<1>3. ASSUME NEW d \in Slot
      PROVE  /\ conn'[d].srv = "first" => d \in {flush.c, kill.c}
             /\ conn'[d].srv \in {"greet", "screen", "relay"} => conn'[d].session \in running'
  BY DEF CalmInv, Same
<1>4. flush.c # None => ~conn'[flush.c].evicted
  BY <1>2 DEF CalmInv
<1>5. flush.at = "detach" => conn'[flush.c].srv \in {"screen", "relay"}
  BY <1>2 DEF CalmInv, Same, TaskInv
<1>6. \A k \in DOMAIN read : Sent(k, 1)'
  BY DEF CalmInv
<1>7. ASSUME batch # <<>>, flush.at # "detach" PROVE Sent(Head(batch), 0)'
  <2>1. batch \in Seq(1..typed) /\ typed \in 0..MaxInputs /\ DOMAIN read = 1..MaxInputs
    BY DEF TypeOK
  <2>2. PICK h \in DOMAIN read : h = Head(batch)
    BY <2>1, <1>7, NextInput, BoundsAssumption
  <2>3. Sent(h, 0)
    BY <2>2, <1>7 DEF CalmInv
  <2>4. Sent(h, 0)'
    BY <2>3
  <2> QED BY <2>2, <2>4 DEF Sent, Carries
<1> QED BY <1>1, <1>3, <1>4, <1>5, <1>6, <1>7 DEF CalmInv

(* A step of the daemon keeps the calm: the sweep and the drop of a        *)
(* session have nothing to do, and the only session that a call attaches   *)
(* to while nobody else connects is the flush's own.                       *)
LEMMA DaemonCalm ==
  ASSUME TypeOK, ConnInv, TaskInv, FlushInv, CountInv, CalmInv, DaemonStep
  PROVE  CalmInv'
<1> SUFFICES ASSUME Undisturbed' PROVE CalmInv'
  BY DEF CalmInv
<1>1. UNCHANGED serveFrame /\ DaemonMoves /\ Kept
  BY DaemonFrame
<1>2. UNCHANGED <<flush, kill, batch, opener>>
  BY <1>1 DEF serveFrame, flushVars
<1>3. meddled' = FALSE /\ opener.at = "none" /\ meddled \in BOOLEAN
  BY <1>2 DEF Undisturbed, TypeOK
<1>4. NoneNew
  BY <1>1 DEF Kept, NoneNew
<1>5. \A c \in Slot : conn[c] \in Connection
  BY DEF TypeOK
<1>6. /\ flush.c \in Slot \cup {None} /\ \A n \in Name : sessionOf[n] \in Session \cup {None}
      /\ \A c \in Slot : conn[c].name \in Name
  BY <1>5 DEF TypeOK, Connection
<1>7. ASSUME NEW c \in Slot, NEW r \in Connection, Undisturbed, Served(c, r),
             r.open = conn[c].open, r.sent = conn[c].sent, r.srv # "first",
             r.reply = "connected" => r.srv \in {"screen", "relay", "closed"},
             c = flush.c => ~r.evicted,
             c = flush.c /\ flush.at = "detach" => r.srv \in {"screen", "relay"},
             doomed' = doomed, read' = read,
             running \subseteq running', \A n \in Name : sessionOf'[n] \in running' \cup {None},
             r.srv \in {"greet", "screen", "relay"} => r.session \in running'
      PROVE  CalmInv'
  <2>1. /\ \A d \in Slot \ {c} : conn'[d] = conn[d]
        /\ conn'[c].srv = r.srv
        /\ conn'[c].session = IF r.srv = "closed" THEN None ELSE r.session
        /\ conn'[c].evicted = (r.evicted /\ r.srv # "closed")
    BY <1>7, ServedOne
  <2>2. \A d \in Slot \ {c} : Same(d)
    BY <2>1 DEF Same
  <2>3. \A k \in DOMAIN read, n \in Nat : Sent(k, n) => Sent(k, n)'
    BY <1>4, <1>7, SentKept
  <2>4. c = flush.c => ~conn'[c].evicted
    BY <1>7, <2>1
  <2>5. /\ conn'[c].srv # "first" /\ DOMAIN read' = DOMAIN read
        /\ flush.c \in Slot \ {c} => conn'[flush.c].evicted = conn[flush.c].evicted
        /\ conn'[c].srv \in {"greet", "screen", "relay"} => conn'[c].session \in running'
        /\ c = flush.c /\ flush.at = "detach" => conn'[c].srv \in {"screen", "relay"}
    BY <1>7, <2>1
  <2> QED BY <1>2, <1>7, <2>2, <2>3, <2>4, <2>5, CalmServed

<1>8. ASSUME NEW c \in Slot, ServeStep(c) PROVE Undisturbed
  BY <1>3, <1>8 DEF Undisturbed, ServeStep, Serve, List, KillRead, KillAnswer, NotFound,
     Create, Attach, Fault, Greet, SendScreen, ReadInput, ReadEof, Leave, OutputFails, historyVars
<1>9. ASSUME NEW c \in Slot, Undisturbed
      PROVE  /\ conn[c].srv = "first" => conn[c].reply = "none" /\ ~conn[c].evicted
             /\ conn[c].srv \in {"first", "dropping", "greet"} =>
                  ~(c = flush.c /\ flush.at = "detach")
             /\ c = flush.c /\ flush.c # None => ~conn[c].evicted /\ conn[c].open
             /\ conn[c].srv \in {"greet", "screen", "relay"} => conn[c].session \in running
             /\ \A n \in Name : sessionOf[n] \in running \cup {None}
  BY <1>9 DEF ConnInv, CalmInv, TypeOK
<1>10. \A c \in Slot : c # None
  BY SlotAssumption DEF None
<1>11. ASSUME NEW c \in Slot, NEW at \in Ats
       PROVE  /\ At(c, at) \in Connection /\ At(c, at).srv = at
              /\ At(c, at).open = conn[c].open /\ At(c, at).sent = conn[c].sent
              /\ At(c, at).reply = conn[c].reply /\ At(c, at).session = conn[c].session
              /\ At(c, at).evicted = conn[c].evicted
              /\ \A reply \in Replies :
                   /\ Answered(c, at, reply) \in Connection /\ Answered(c, at, reply).srv = at
                   /\ Answered(c, at, reply).open = conn[c].open
                   /\ Answered(c, at, reply).sent = conn[c].sent
                   /\ Answered(c, at, reply).reply = reply
                   /\ Answered(c, at, reply).session = conn[c].session
                   /\ Answered(c, at, reply).evicted = conn[c].evicted
  BY <1>5, AtFields
\* The task of the daemon that ends a connection does not end the flush's while
\* it detaches.
<1>12. ASSUME NEW c \in Slot, Undisturbed, NEW reply \in Replies,
              Served(c, At(c, "closed")) \/ Served(c, Answered(c, "closed", reply)),
              ~(c = flush.c /\ flush.at = "detach"),
              UNCHANGED <<doomed, read, running>>,
              \A n \in Name : sessionOf'[n] \in running' \cup {None}
       PROVE  CalmInv'
  <2>1. "closed" \in Ats
    BY DEF Ats
  <2>2. c = flush.c => ~conn[c].evicted
    BY <1>9, <1>10, <1>12
  <2>3. CASE Served(c, At(c, "closed"))
    BY <1>7, <1>11, <1>12, <2>1, <2>2, <2>3
  <2>4. CASE Served(c, Answered(c, "closed", reply))
    BY <1>7, <1>11, <1>12, <2>1, <2>2, <2>4
  <2> QED BY <1>12, <2>3, <2>4
<1>13. ASSUME NEW c \in Slot, ServeStep(c) PROVE CalmInv'
  <2>0. Undisturbed
    BY <1>8, <1>13
  <2> DEFINE s == sessionOf[conn[c].name]
  <2>1. CASE List(c)
    <3>1. PICK reply \in Replies : Served(c, Answered(c, "closed", reply))
      BY <2>1 DEF List, Replies
    <3>2. conn[c].srv = "first" /\ UNCHANGED <<sessionOf, running, doomed, read>>
      BY <2>1 DEF List, daemonVars, historyVars
    <3> QED BY <2>0, <3>1, <3>2, <1>9, <1>12
  <2>2. CASE KillRead(c)
    <3>1. conn[c].srv = "first" /\ UNCHANGED <<running, read>>
      BY <2>2 DEF KillRead
    <3>2. Served(c, Answered(c, "closed", "error")) /\ doomed' = doomed
      BY <2>2, <1>3 DEF KillRead
    <3>3. \A n \in Name : sessionOf'[n] \in running' \cup {None}
      <4>1. sessionOf' = [sessionOf EXCEPT ![conn[c].name] = None] /\ sessionOf \in [Name -> Session \cup {None}]
        BY <2>2 DEF KillRead, TypeOK
      <4> QED BY <2>0, <3>1, <4>1, <1>9
    <3>4. "error" \in Replies
      BY DEF Replies
    <3> QED BY <2>0, <3>1, <3>2, <3>3, <3>4, <1>9, <1>12
  <2>3. CASE KillAnswer(c)
    <3>1. /\ conn[c].srv = "dropping" /\ Served(c, Answered(c, "closed", "killed"))
          /\ UNCHANGED <<sessionOf, running, doomed, read>> /\ "killed" \in Replies
      BY <2>3 DEF KillAnswer, daemonVars, historyVars, Replies
    <3> QED BY <2>0, <3>1, <1>9, <1>12
  <2>4. CASE NotFound(c)
    <3>1. /\ conn[c].srv = "first" /\ Served(c, Answered(c, "closed", "error"))
          /\ UNCHANGED <<sessionOf, running, doomed, read>> /\ "error" \in Replies
      BY <2>4 DEF NotFound, daemonVars, historyVars, Replies
    <3> QED BY <2>0, <3>1, <1>9, <1>12
  <2>5. CASE Create(c)
    <3>1. PICK t \in Session : /\ sessionOf' = [sessionOf EXCEPT ![conn[c].name] = t]
                               /\ running' = running \cup {t}
                               /\ Served(c, [At(c, "greet") EXCEPT !.session = t])
      BY <2>5 DEF Create
    <3> DEFINE r == [At(c, "greet") EXCEPT !.session = t]
    <3>2. conn[c].srv = "first" /\ UNCHANGED <<doomed, read>>
      BY <2>5 DEF Create, historyVars
    <3>3. r \in Connection /\ r = [conn[c] EXCEPT !.srv = "greet", !.session = t]
      BY <1>5 DEF At, Connection
    <3>4. /\ r.srv = "greet" /\ r.open = conn[c].open /\ r.sent = conn[c].sent
          /\ r.reply = "none" /\ ~r.evicted /\ r.session = t
      BY <2>0, <3>2, <3>3, <1>5, <1>9 DEF Connection
    <3>5. \A n \in Name : sessionOf'[n] \in running' \cup {None}
      BY <2>0, <3>1, <1>6, <1>9
    <3> HIDE DEF r
    <3>6. Served(c, r)
      BY <3>1 DEF r
    <3>7. ~(c = flush.c /\ flush.at = "detach") /\ running \subseteq running' /\ t \in running'
      BY <2>0, <3>1, <3>2, <1>9
    <3> QED BY <2>0, <3>2, <3>3, <3>4, <3>5, <3>6, <3>7, <1>7
  <2>6. CASE Attach(c)
    <3> DEFINE r == [At(c, "greet") EXCEPT !.session = s]
               evicting == Evicting(conn, {s})
    <3>1. /\ conn' = [evicting EXCEPT ![c] = Tidy(r)] /\ s # None
          /\ conn[c].srv = "first" /\ conn[c].req \in {"open", "attach"}
          /\ UNCHANGED <<sessionOf, running, doomed, read>>
      BY <2>6 DEF Attach, daemonVars, historyVars
    <3>2. s \in running /\ s \in Session
      BY <2>0, <3>1, <1>6, <1>9
    <3>3. r \in Connection /\ r = [conn[c] EXCEPT !.srv = "greet", !.session = s]
      BY <3>2, <1>5 DEF At, Connection
    <3>4. r.srv = "greet" /\ ~r.evicted /\ r.session = s
      BY <2>0, <3>1, <3>3, <1>5, <1>9 DEF Connection
    <3>5. c = flush.c
      <4>1. c \in {flush.c, kill.c}
        BY <2>0, <3>1 DEF CalmInv
      <4>2. c # kill.c
        BY <3>1, <1>10 DEF TaskInv
      <4> QED BY <4>1, <4>2
    <3>6. conn \in [Slot -> Connection] /\ evicting \in [Slot -> Connection]
      BY EvictingType DEF TypeOK
    <3> HIDE DEF r, evicting
    <3>7. conn'[c] = Tidy(r)
      BY <3>1, <3>6
    <3>8. ASSUME NEW d \in Slot \ {c} PROVE Same(d)
      <4>1. conn'[d] = evicting[d]
        BY <3>1, <3>6
      <4>2. /\ conn'[d].open = conn[d].open /\ conn'[d].srv = conn[d].srv
            /\ conn'[d].req = conn[d].req /\ conn'[d].name = conn[d].name
            /\ conn'[d].sent = conn[d].sent
            /\ conn'[d].session = conn[d].session /\ conn'[d].reply = conn[d].reply
            /\ conn'[d].evicted = (conn[d].evicted \/ conn[d].session \in {s})
        BY <3>6, <4>1, EvictingFields DEF evicting
      <4> QED BY <3>1, <4>2 DEF Same
    <3>9. conn'[c].srv = "greet" /\ conn'[c].session = s /\ ~conn'[c].evicted
      BY <3>3, <3>4, <3>7, TidyFields
    <3>10. \A k \in DOMAIN read, n \in Nat : Sent(k, n) => Sent(k, n)'
      BY <3>1, <1>4, SentKept
    <3>11. ~(flush.at = "detach")
      BY <2>0, <3>1, <3>5, <1>9
    <3> QED BY <2>0, <3>1, <3>2, <3>5, <3>8, <3>9, <3>10, <3>11, <1>2, <1>9, CalmServed
  <2>7. CASE Fault(c)
    BY <2>7, <1>3 DEF Fault
  <2>8. CASE Greet(c)
    <3>1. conn[c].srv = "greet" /\ UNCHANGED <<sessionOf, running, doomed, read>>
      BY <2>8 DEF Greet, daemonVars, historyVars
    <3>2. CASE conn[c].open
      <4>1. Served(c, Answered(c, "screen", "connected"))
        BY <2>8, <3>2 DEF Greet
      <4>2. "screen" \in Ats /\ "connected" \in Replies
        BY DEF Ats, Replies
      <4> QED BY <2>0, <3>1, <4>1, <4>2, <1>7, <1>9, <1>10, <1>11
    <3>3. CASE ~conn[c].open
      <4>1. Served(c, At(c, "closed")) /\ "none" \in Replies
        BY <2>8, <3>3 DEF Greet, Replies
      <4> QED BY <2>0, <3>1, <4>1, <1>9, <1>12
    <3> QED BY <3>2, <3>3
  <2>9. CASE SendScreen(c)
    <3>1. conn[c].srv = "screen" /\ UNCHANGED <<sessionOf, running, doomed, read>>
      BY <2>9 DEF SendScreen, daemonVars, historyVars
    <3>2. CASE conn[c].open
      <4>1. Served(c, At(c, "relay"))
        BY <2>9, <3>2 DEF SendScreen
      <4>2. "relay" \in Ats
        BY DEF Ats
      <4> QED BY <2>0, <3>1, <4>1, <4>2, <1>7, <1>9, <1>10, <1>11
    <3>3. CASE ~conn[c].open
      <4>1. Served(c, At(c, "closed")) /\ "none" \in Replies
        BY <2>9, <3>3 DEF SendScreen, Replies
      <4>2. c # flush.c
        BY <2>0, <3>3, <1>9, <1>10
      <4> QED BY <2>0, <3>1, <4>1, <4>2, <1>9, <1>12
    <3> QED BY <3>2, <3>3
  <2>10. CASE ReadInput(c)
    <3>1. conn[c].srv = "relay" /\ conn[c].sent # <<>> /\ UNCHANGED <<sessionOf, running, doomed>>
      BY <2>10 DEF ReadInput, daemonVars
    <3>2. CASE Head(conn[c].sent) = Detach
      <4>1. Served(c, At(c, "closed")) /\ read' = read /\ "none" \in Replies
        BY <2>10, <3>2 DEF ReadInput, Replies
      <4>2. ~(c = flush.c /\ flush.at = "detach")
        <5> SUFFICES ASSUME c = flush.c, flush.at = "detach" PROVE FALSE
          OBVIOUS
        <5>1. batch # <<>> /\ conn[c].sent = <<Head(batch)>>
          BY <3>1 DEF TaskInv, FlushInv
        <5>2. batch \in Seq(1..typed) /\ typed \in 0..MaxInputs
          BY DEF TypeOK
        <5>3. Head(batch) \in 1..typed
          BY <5>1, <5>2, NextInput
        <5>4. Head(batch) \in Nat /\ Head(batch) # 0
          BY <5>2, <5>3
        <5>5. Head(conn[c].sent) = Head(batch)
          BY <5>1, <5>4, Words
        <5> QED BY <3>2, <5>4, <5>5 DEF Detach
      <4> QED BY <2>0, <3>1, <4>1, <4>2, <1>9, <1>12
    <3>3. CASE Head(conn[c].sent) # Detach
      <4>1. conn' = [conn EXCEPT ![c].sent = Tail(@)] /\ conn \in [Slot -> Connection]
        BY <2>10, <3>3 DEF ReadInput, TypeOK
      <4>2. \A d \in Slot \ {c} : Same(d)
        BY <4>1 DEF Same
      <4>3. /\ conn'[c].srv = conn[c].srv /\ conn'[c].session = conn[c].session
            /\ conn'[c].evicted = conn[c].evicted
        BY <4>1, <1>5 DEF Connection
      <4>4. /\ \A k \in DOMAIN read, n \in Nat : Sent(k, n) => Sent(k, n)'
            /\ DOMAIN read' = DOMAIN read
        <5>1. CASE read' = read
          BY <5>1, <1>4, SentKept
        <5>2. CASE read' # read
          <6>1. \A k \in DOMAIN read, n \in Nat : Sent(k, n) => Sent(k, n)'
            BY <2>10, <5>2, <1>1, CountRead
          <6>2. DOMAIN read' = DOMAIN read
            BY <2>10, <3>3 DEF ReadInput
          <6> QED BY <6>1, <6>2
        <5> QED BY <5>1, <5>2
      <4>5. flush.c \in Slot \ {c} => conn'[flush.c].evicted = conn[flush.c].evicted
        BY <4>1
      <4> QED BY <2>0, <3>1, <4>2, <4>3, <4>4, <4>5, <1>2, <1>9, <1>10, CalmServed
    <3> QED BY <3>2, <3>3
  <2>11. CASE ReadEof(c)
    <3>1. /\ ~conn[c].open /\ Served(c, At(c, "closed")) /\ "none" \in Replies
          /\ UNCHANGED <<sessionOf, running, doomed, read>>
      BY <2>11 DEF ReadEof, daemonVars, historyVars, Replies
    <3>2. c # flush.c
      BY <2>0, <3>1, <1>9, <1>10
    <3> QED BY <2>0, <3>1, <3>2, <1>9, <1>12
  <2>12. CASE Leave(c)
    <3>1. /\ conn[c].srv = "relay" /\ (conn[c].evicted \/ conn[c].session \notin running)
          /\ Served(c, At(c, "closed")) /\ "none" \in Replies
          /\ UNCHANGED <<sessionOf, running, doomed, read>>
      BY <2>12 DEF Leave, daemonVars, historyVars, Replies
    <3>2. c # flush.c
      BY <2>0, <3>1, <1>9, <1>10
    <3> QED BY <2>0, <3>1, <3>2, <1>9, <1>12
  <2>13. CASE OutputFails(c)
    <3>1. /\ ~conn[c].open /\ Served(c, At(c, "closed")) /\ "none" \in Replies
          /\ UNCHANGED <<sessionOf, running, doomed, read>>
      BY <2>13 DEF OutputFails, daemonVars, historyVars, Replies
    <3>2. c # flush.c
      BY <2>0, <3>1, <1>9, <1>10
    <3> QED BY <2>0, <3>1, <3>2, <1>9, <1>12
  <2> QED BY <1>13, <2>1, <2>2, <2>3, <2>4, <2>5, <2>6, <2>7, <2>8, <2>9, <2>10, <2>11,
             <2>12, <2>13 DEF ServeStep, Serve
<1>14. ASSUME NEW s \in Session, Dropped(s) \/ ProgramEnds(s) PROVE CalmInv'
  <2>1. CASE Dropped(s)
    <3>1. meddled' = meddled
      BY <2>1 DEF Dropped, historyVars
    <3>2. doomed = {}
      BY <3>1, <1>3 DEF Undisturbed, CalmInv
    <3> QED BY <2>1, <3>2 DEF Dropped
  <2>2. CASE ProgramEnds(s)
    BY <2>2, <1>3 DEF ProgramEnds
  <2> QED BY <1>14, <2>1, <2>2
<1>15. ASSUME Sweep PROVE CalmInv'
  <2>1. Undisturbed
    BY <1>3, <1>15 DEF Sweep, historyVars, Undisturbed
  <2>2. {sessionOf[n] : n \in Name} \ (running \cup {None}) # {}
    BY <1>15 DEF Sweep
  <2> QED BY <2>1, <2>2 DEF CalmInv
<1>16. ASSUME DaemonEnds PROVE CalmInv'
  BY <1>3, <1>16 DEF DaemonEnds
<1> QED BY <1>13, <1>14, <1>15, <1>16 DEF DaemonStep

-----------------------------------------------------------------------------
(* What the calls do to the connections.                                   *)

\* Connection c alone changes, and nothing new is carried.
Alone(c) ==
  /\ conn' \in [Slot -> Connection] /\ ConnInv' /\ NoneNew
  /\ \A d \in Slot \ {c} : conn'[d] = conn[d]

\* The call at connection c hangs up.
Closing(c) ==
  /\ Alone(c) /\ conn'[c].srv = conn[c].srv /\ conn'[c].reply = "none"
  /\ conn[c].srv # "closed" => conn'[c].session = conn[c].session
  /\ conn[c].srv = "first" => conn'[c].req = conn[c].req

\* A call opens connection c.
Opening(c, req) ==
  /\ Alone(c) /\ ~conn[c].open
  /\ conn'[c].srv = "first" /\ conn'[c].req = req /\ conn'[c].open
  /\ conn'[c].sent = <<>> /\ ~conn'[c].evicted

(* A call hangs up, with or without a last Detach.                         *)
LEMMA HangsUp ==
  ASSUME TypeOK, ConnInv, typed' = typed, NEW c \in Slot,
         \/ conn' = HungUp(c)
         \/ /\ conn' = LastWord(c, Detach)
            /\ conn[c].sent = <<>> \/ \E k \in 1..typed : conn[c].sent = <<k>>
  PROVE  Closing(c)
<1>1. conn \in [Slot -> Connection] /\ conn[c] \in Connection
  BY DEF TypeOK
<1>2. PICK r : /\ conn' = [conn EXCEPT ![c] = Tidy(r)]
               /\ r = [conn[c] EXCEPT !.open = FALSE, !.sent = r.sent]
               /\ r.sent = conn[c].sent \/ (r.sent = Append(conn[c].sent, Detach)
                    /\ (conn[c].sent = <<>> \/ \E k \in 1..typed : conn[c].sent = <<k>>))
  <2>1. CASE conn' = HungUp(c)
    <3> DEFINE r == [conn[c] EXCEPT !.open = FALSE]
    <3>1. r.sent = conn[c].sent /\ r = [conn[c] EXCEPT !.open = FALSE, !.sent = r.sent]
      BY <1>1 DEF Connection
    <3>2. conn' = [conn EXCEPT ![c] = Tidy(r)]
      BY <2>1 DEF HungUp
    <3> QED BY <3>1, <3>2
  <2>2. CASE /\ conn' = LastWord(c, Detach)
             /\ conn[c].sent = <<>> \/ \E k \in 1..typed : conn[c].sent = <<k>>
    <3> DEFINE r == [conn[c] EXCEPT !.sent = Append(conn[c].sent, Detach), !.open = FALSE]
    <3>1. /\ r.sent = Append(conn[c].sent, Detach)
          /\ r = [conn[c] EXCEPT !.open = FALSE, !.sent = r.sent]
      BY <1>1 DEF Connection
    <3>2. conn' = [conn EXCEPT ![c] = Tidy(r)]
      BY <2>2 DEF LastWord
    <3> QED BY <2>2, <3>1, <3>2
  <2> QED BY <2>1, <2>2
<1>3. typed \in Nat /\ \A k \in 1..typed : k \in Nat \ {0}
  BY BoundsAssumption DEF TypeOK
<1>4. /\ r.sent \in Seq(Nat)
      /\ Message(c, typed)
      /\ \/ r.sent = conn[c].sent
         \/ conn[c].sent = <<>> /\ r.sent = <<Detach>>
         \/ \E k \in 1..typed : conn[c].sent = <<k>> /\ r.sent = <<k, Detach>>
  <2>1. Message(c, typed)
    BY ConnMessage
  <2>2. CASE r.sent = conn[c].sent
    BY <2>1, <2>2, <1>1 DEF Connection
  <2>3. CASE r.sent = Append(conn[c].sent, Detach) /\ conn[c].sent = <<>>
    BY <2>1, <2>3, Words DEF Detach
  <2>4. ASSUME NEW k \in 1..typed, r.sent = Append(conn[c].sent, Detach), conn[c].sent = <<k>>
        PROVE  r.sent = <<k, Detach>> /\ r.sent \in Seq(Nat)
    <3>1. k \in Nat /\ Detach \in Nat
      BY <1>3 DEF Detach
    <3>2. Append(<<k>>, Detach) = <<k, Detach>> /\ <<k, Detach>> \in Seq(Nat)
      BY <3>1, Words
    <3> QED BY <2>4, <3>2
  <2> QED BY <1>2, <2>1, <2>2, <2>3, <2>4
<1>5. r \in Connection
  BY <1>1, <1>2, <1>4 DEF Connection
<1>6. /\ r.srv = conn[c].srv /\ r.session = conn[c].session /\ r.req = conn[c].req
      /\ r.evicted = conn[c].evicted /\ ~r.open
  BY <1>1, <1>2 DEF Connection
<1>7. conn' \in [Slot -> Connection] /\ conn'[c] = Tidy(r) /\ \A d \in Slot \ {c} : conn'[d] = conn[d]
  BY <1>1, <1>2, <1>5, TidyFields
<1>8. /\ conn'[c].srv = conn[c].srv /\ conn'[c].reply = "none"
      /\ conn[c].srv # "closed" => conn'[c].session = conn[c].session /\ conn'[c].sent = r.sent
      /\ conn'[c].evicted = (conn[c].evicted /\ conn[c].srv # "closed")
      /\ conn[c].srv = "closed" => conn'[c].sent = <<>> /\ conn'[c].session = None
      /\ conn[c].srv = "first" => conn'[c].req = conn[c].req
  BY <1>5, <1>6, <1>7, TidyFields
<1>9. conn'[c].sent \in {<<>>, <<Detach>>} \cup {<<k>> : k \in 1..typed}
                        \cup {<<k, Detach>> : k \in 1..typed}
  BY <1>4, <1>8 DEF Message
<1>10. NoneNew
  <2>1. ASSUME NEW k \in Nat \ {0}, Carries(c, k)' PROVE Carries(c, k)
    <3>1. CASE conn'[c].sent = conn[c].sent
      BY <2>1, <3>1 DEF Carries
    <3>2. CASE conn'[c].sent = <<>>
      BY <2>1, <3>2 DEF Carries
    <3>3. CASE conn'[c].sent = <<Detach>>
      BY <2>1, <3>3, Words DEF Carries, Detach
    <3>4. ASSUME NEW j \in 1..typed, conn[c].sent = <<j>>, conn'[c].sent = <<j, Detach>>
          PROVE  Carries(c, k)
      BY <2>1, <3>4, <1>3, Words DEF Carries, Detach
    <3> QED BY <3>1, <3>2, <3>3, <3>4, <1>4, <1>8
  <2>2. ASSUME NEW d \in Slot \ {c}, NEW k \in Nat \ {0}, Carries(d, k)' PROVE Carries(d, k)
    BY <2>2, <1>7 DEF Carries
  <2> QED BY <2>1, <2>2 DEF NoneNew
<1>11. ConnInv'
  <2>1. conn[c].srv = "first" => conn[c].session = None /\ ~conn[c].evicted
    BY DEF ConnInv
  <2>2. /\ conn'[c].srv = "closed" => conn'[c].sent = <<>>
        /\ conn'[c].srv = "first" =>
             conn'[c].reply = "none" /\ conn'[c].session = None /\ ~conn'[c].evicted
        /\ conn'[c].reply # "connected"
    BY <1>8, <2>1
  <2> QED BY <1>7, <1>9, <2>2 DEF ConnInv
<1> QED BY <1>7, <1>8, <1>10, <1>11 DEF Closing, Alone

(* A call connects.                                                        *)
LEMMA Dials ==
  ASSUME TypeOK, ConnInv, typed' = typed, NEW c \in Slot,
         NEW req \in {"list", "kill", "open", "attach"}, NEW name \in Name, Dialed(c, req, name)
  PROVE  Opening(c, req)
<1> DEFINE r == [NoConn EXCEPT !.req = req, !.name = name, !.open = TRUE, !.srv = "first"]
<1>1. conn \in [Slot -> Connection] /\ conn[c] = NoConn /\ conn' = [conn EXCEPT ![c] = r]
  BY DEF TypeOK, Dialed, Free
<1>2. <<>> \in Seq(Nat)
  OBVIOUS
<1>3. /\ r \in Connection /\ r.srv = "first" /\ r.req = req /\ r.open /\ r.sent = <<>>
      /\ ~r.evicted /\ r.reply = "none" /\ r.session = None
  BY <1>2 DEF NoConn, Connection, Name
<1> HIDE DEF r
<1>4. conn' \in [Slot -> Connection] /\ conn'[c] = r /\ \A d \in Slot \ {c} : conn'[d] = conn[d]
  BY <1>1, <1>3
<1>5. ConnInv' /\ NoneNew
  BY <1>3, <1>4 DEF ConnInv, NoneNew, Carries
<1>6. ~conn[c].open
  BY <1>1 DEF NoConn
<1> QED BY <1>3, <1>4, <1>5, <1>6 DEF Opening, Alone

-----------------------------------------------------------------------------
(* The flush.                                                              *)

\* The steps by which a call of the flush ends.
FlushEnds == SendDetach \/ SendFails \/ Listed \/ Created \/ EnsureFails \/ Captured

(* A call of the flush ends by hanging up.                                 *)
LEMMA FlushHangsUp ==
  ASSUME TypeOK, ConnInv, TaskInv, FlushInv, FlushEnds
  PROVE  /\ UNCHANGED <<flushFrame, pending, typed>>
         /\ flush.c \in Slot /\ flush.c # None /\ Closing(flush.c)
         /\ flush'.c = None /\ flush'.at \in {"send", "list", "create", "capture", "take"}
         /\ flush'.why \in {"send", "again", "capture"}
         /\ flush.at \in {"send", "list", "create", "capture", "detach"}
<1>1. UNCHANGED <<flushFrame, pending, typed>>
  BY DEF FlushEnds, SendDetach, SendFails, Listed, Created, EnsureFails, Captured
<1>2. flush.at \in {"send", "list", "create", "capture", "detach"} /\ flush.c # None
  BY DEF FlushEnds, SendDetach, SendFails, Listed, Created, EnsureFails, Captured, Waiting, TaskInv
<1>3. flush.c \in Slot /\ flush.why \in {"send", "again", "capture"}
  BY <1>2 DEF TypeOK
<1>4. /\ flush'.c = None /\ flush'.at \in {"send", "list", "create", "capture", "take"}
      /\ flush'.why \in {"send", "again", "capture"}
  BY <1>3 DEF FlushEnds, SendDetach, SendFails, Listed, Created, EnsureFails, Captured, Go, Ensured
<1>5. \/ conn' = HungUp(flush.c)
      \/ /\ conn' = LastWord(flush.c, Detach)
         /\ conn[flush.c].sent = <<>> \/ \E k \in 1..typed : conn[flush.c].sent = <<k>>
  <2>1. CASE SendDetach
    <3>1. /\ conn' = LastWord(flush.c, Detach) /\ batch # <<>> /\ batch \in Seq(1..typed)
          /\ conn[flush.c].sent \in {<<>>, <<Head(batch)>>}
      BY <2>1 DEF SendDetach, TaskInv, FlushInv, TypeOK
    <3>2. Head(batch) \in 1..typed
      BY <3>1, NextInput
    <3> QED BY <3>1, <3>2
  <2>2. CASE Created \/ Captured
    BY <2>2 DEF Created, Captured, Waiting, TaskInv
  <2>3. CASE SendFails \/ Listed \/ EnsureFails
    BY <2>3 DEF SendFails, Listed, EnsureFails
  <2> QED BY <2>1, <2>2, <2>3 DEF FlushEnds
<1>6. typed' = typed
  BY <1>1
<1>7. Closing(flush.c)
  BY <1>3, <1>5, <1>6, HangsUp
<1> QED BY <1>1, <1>2, <1>3, <1>4, <1>7

(* A call of the flush begins.                                             *)
LEMMA FlushOpens ==
  ASSUME TypeOK, ConnInv, FlushDial
  PROVE  /\ UNCHANGED <<flushFrame, pending, batch, typed>> /\ flush.c = None
         /\ flush.at \in {"send", "list", "create", "capture"}
         /\ \E c \in Slot : /\ Opening(c, Request[flush.at]) /\ flush' = [flush EXCEPT !.c = c]
                            /\ Request[flush.at] # "kill"
<1>1. /\ UNCHANGED <<flushFrame, pending, batch, typed>> /\ flush.c = None
      /\ flush.at \in {"send", "list", "create", "capture"}
  BY DEF FlushDial, Request
<1>2. Request[flush.at] \in {"list", "open", "attach"}
  BY <1>1 DEF Request
<1>3. PICK c \in Slot :
        /\ Dialed(c, Request[flush.at], IF flush.why = "send" THEN "payload" ELSE Hashed)
        /\ flush' = [flush EXCEPT !.c = c]
  BY DEF FlushDial
<1>4. (IF flush.why = "send" THEN "payload" ELSE Hashed) \in Name
  BY DEF Hashed, NameOf, Name
<1>5. Opening(c, Request[flush.at])
  BY <1>1, <1>2, <1>3, <1>4, Dials
<1> QED BY <1>1, <1>2, <1>3, <1>5

(* The flush writes an input to a connection that carries none.            *)
LEMMA FlushSends ==
  ASSUME TypeOK, ConnInv, TaskInv, FlushInv, SendInput
  PROVE  /\ UNCHANGED <<flushFrame, pending, batch, typed>>
         /\ flush.at = "send" /\ flush' = [flush EXCEPT !.at = "detach"]
         /\ flush.c \in Slot /\ flush.c # None
         /\ batch # <<>> /\ Head(batch) \in 1..typed
         /\ conn' \in [Slot -> Connection] /\ ConnInv'
         /\ conn'[flush.c] = [conn[flush.c] EXCEPT !.sent = <<Head(batch)>>]
         /\ conn[flush.c].srv \in {"screen", "relay"}
         /\ \A d \in Slot \ {flush.c} : conn'[d] = conn[d]
<1>1. /\ UNCHANGED <<flushFrame, pending, batch, typed>>
      /\ flush.at = "send" /\ flush' = [flush EXCEPT !.at = "detach"] /\ flush.c # None
      /\ conn' = [conn EXCEPT ![flush.c].sent = Append(@, Head(batch))]
  BY DEF SendInput, Waiting
<1>2. /\ flush.c \in Slot /\ batch # <<>> /\ batch \in Seq(1..typed) /\ typed \in Nat
      /\ conn \in [Slot -> Connection] /\ conn[flush.c] \in Connection
      /\ conn[flush.c].sent = <<>>
  BY <1>1, BoundsAssumption DEF TypeOK, TaskInv, FlushInv
<1>3. Head(batch) \in 1..typed
  BY <1>2, NextInput
<1>4. PICK h \in 1..typed : h = Head(batch)
  BY <1>3
<1>5. h \in Nat /\ Append(<<>>, h) = <<h>> /\ <<h>> \in Seq(Nat)
  BY <1>2, <1>4, Words
<1>6. conn[flush.c].srv \in {"screen", "relay"}
  BY <1>1, <1>2 DEF SendInput, Connected, Writable, ConnInv
<1>7. [conn[flush.c] EXCEPT !.sent = <<h>>] \in Connection
  BY <1>2, <1>5 DEF Connection
<1>8. conn' = [conn EXCEPT ![flush.c] = [conn[flush.c] EXCEPT !.sent = <<h>>]]
  BY <1>1, <1>2, <1>4, <1>5
<1>9. /\ conn' \in [Slot -> Connection]
      /\ conn'[flush.c] = [conn[flush.c] EXCEPT !.sent = <<h>>]
      /\ \A d \in Slot \ {flush.c} : conn'[d] = conn[d]
  BY <1>2, <1>7, <1>8
<1>10. /\ conn'[flush.c].sent = <<h>> /\ conn'[flush.c].srv = conn[flush.c].srv
       /\ conn'[flush.c].reply = conn[flush.c].reply
  BY <1>2, <1>9 DEF Connection
<1>11. ConnInv'
  BY <1>1, <1>4, <1>6, <1>9, <1>10 DEF ConnInv
<1> QED BY <1>1, <1>2, <1>3, <1>4, <1>6, <1>9, <1>11

(* The flush takes a batch, or an input is typed: no connection changes.   *)
LEMMA FlushAlone ==
  ASSUME TypeOK, ConnInv, FlushInv, Type \/ FlushTake
  PROVE  /\ UNCHANGED <<flushFrame, conn>> /\ ConnInv' /\ typed' \in typed..MaxInputs
         /\ flush' \in [at : {"idle", "take", "send", "list", "create", "capture", "detach"},
                        why : {"send", "again", "capture"}, c : Slot \cup {None}]
         /\ flush'.at # flush.at => flush'.at # "detach" /\ flush.at # "detach"
         /\ flush'.c \in {flush.c, None}
         /\ pending' \in Seq(1..typed') /\ batch' \in Seq(1..typed')
<1>1. UNCHANGED <<flushFrame, conn>>
  BY DEF Type, FlushTake
<1>2. /\ typed \in Nat /\ MaxInputs \in Nat /\ typed <= MaxInputs
      /\ pending \in Seq(1..typed) /\ batch \in Seq(1..typed)
      /\ flush \in [at : {"idle", "take", "send", "list", "create", "capture", "detach"},
                    why : {"send", "again", "capture"}, c : Slot \cup {None}]
  BY BoundsAssumption DEF TypeOK, Request
<1>3. CASE Type
  <2>1. /\ typed' = typed + 1 /\ typed < MaxInputs /\ batch' = batch
        /\ pending' = Append(pending, typed + 1)
        /\ flush' = IF flush.at = "idle" THEN [flush EXCEPT !.at = "take"] ELSE flush
    BY <1>3 DEF Type
  <2>2. pending \in Seq(1..typed') /\ batch \in Seq(1..typed') /\ typed + 1 \in 1..typed'
    BY <1>2, <2>1
  <2>3. pending' \in Seq(1..typed')
    BY <2>1, <2>2
  <2>4. ConnInv'
    BY <1>1, <1>2, <2>1 DEF ConnInv
  <2>5. CASE flush.at = "idle"
    <3>1. flush' = [flush EXCEPT !.at = "take"]
      BY <2>1, <2>5
    <3>2. /\ flush' \in [at : {"idle", "take", "send", "list", "create", "capture", "detach"},
                         why : {"send", "again", "capture"}, c : Slot \cup {None}]
          /\ flush'.at = "take" /\ flush'.c = flush.c
      BY <1>2, <3>1
    <3> QED BY <1>1, <1>2, <2>1, <2>2, <2>3, <2>4, <2>5, <3>2
  <2>6. CASE flush.at # "idle"
    BY <1>1, <1>2, <2>1, <2>2, <2>3, <2>4, <2>6
  <2> QED BY <2>5, <2>6
<1>4. CASE FlushTake
  <2>1. /\ typed' = typed /\ batch' = pending /\ pending' = <<>> /\ flush.at = "take"
        /\ flush' = [at |-> IF pending = <<>> THEN "idle" ELSE "send", why |-> "send", c |-> None]
    BY <1>4 DEF FlushTake
  <2>2. ConnInv'
    BY <1>1, <1>2, <2>1 DEF ConnInv
  <2>3. pending' \in Seq(1..typed') /\ batch' \in Seq(1..typed')
    BY <1>2, <2>1
  <2> QED BY <1>1, <1>2, <2>1, <2>2, <2>3
<1> QED BY <1>3, <1>4

\* The steps of the flush and of who fills its queue.
FlushAction == Type \/ FlushStep

(* The flush's steps by what they do to the connections.                   *)
LEMMA FlushCases ==
  ASSUME FlushAction
  PROVE  (Type \/ FlushTake) \/ FlushDial \/ SendInput \/ FlushEnds
BY DEF FlushAction, FlushStep, FlushEnds

(* The variables keep their types, and each task its connection.           *)
LEMMA FlushTypeTask ==
  ASSUME TypeOK, ConnInv, TaskInv, FlushInv, FlushAction
  PROVE  TypeOK' /\ ConnInv' /\ TaskInv'
<1> DEFINE FlushType == [at : {"idle", "take", "send", "list", "create", "capture", "detach"},
                         why : {"send", "again", "capture"}, c : Slot \cup {None}]
<1>1. /\ flush \in FlushType /\ pending \in Seq(1..typed) /\ batch \in Seq(1..typed)
      /\ kill.c \in Slot \cup {None} /\ opener.c \in Slot \cup {None}
      /\ typed \in 0..MaxInputs
  BY DEF TypeOK, Request
<1>2. ASSUME UNCHANGED flushFrame, conn' \in [Slot -> Connection], flush' \in FlushType,
             pending' \in Seq(1..typed'), batch' \in Seq(1..typed'), typed' \in 0..MaxInputs,
             kill.c # None => conn'[kill.c].open, opener.c # None => conn'[opener.c].open,
             flush'.c # None => conn'[flush'.c].open
      PROVE  TypeOK'
  <2>1. UNCHANGED <<sessionOf, running, doomed, renamed, live, closed, final, kill, opener,
                    faults, read, meddled>>
    BY <1>2 DEF flushFrame, historyVars, daemonVars, paneVars
  <2>2. flush' \in [at : {"idle", "take", "detach"} \cup DOMAIN Request,
                    why : {"send", "again", "capture"}, c : Slot \cup {None}]
    BY <1>2 DEF Request
  <2> QED BY <1>2, <2>1, <2>2 DEF TypeOK
<1>3. ASSUME UNCHANGED flushFrame PROVE UNCHANGED <<kill, opener>>
  BY <1>3 DEF flushFrame, historyVars
<1>4. CASE Type \/ FlushTake
  <2>1. /\ UNCHANGED <<flushFrame, conn>> /\ ConnInv' /\ typed' \in 0..MaxInputs
        /\ flush' \in FlushType
        /\ flush'.at # flush.at => flush'.at # "detach" /\ flush.at # "detach"
        /\ flush'.c \in {flush.c, None}
        /\ pending' \in Seq(1..typed') /\ batch' \in Seq(1..typed')
    BY <1>1, <1>4, FlushAlone, BoundsAssumption
  <2>2. TypeOK'
    BY <1>2, <2>1 DEF TypeOK
  <2>3. flush.at = "detach" => batch' = batch /\ flush' = flush
    BY <1>4 DEF Type, FlushTake
  <2>4. flush'.at # "detach" => flush.at # "detach"
    BY <2>1
  <2>5. flush'.at = "detach" => flush.at = "detach"
    BY <2>1
  <2>6. TaskInv'
    BY <2>1, <2>3, <2>4, <2>5, <1>3 DEF TaskInv
  <2> QED BY <2>1, <2>2, <2>6
<1>5. CASE FlushDial
  <2>1. UNCHANGED <<flushFrame, pending, batch, typed>> /\ flush.c = None /\ flush.at # "detach"
    BY <1>5, FlushOpens
  <2>2. PICK c \in Slot : /\ Opening(c, Request[flush.at]) /\ flush' = [flush EXCEPT !.c = c]
    BY <1>5, FlushOpens
  <2>3. flush' \in FlushType /\ flush'.c = c /\ flush'.at = flush.at
    BY <1>1, <2>2
  <2>4. /\ kill.c # None => kill.c \in Slot \ {c} /\ conn'[kill.c] = conn[kill.c]
        /\ opener.c # None => opener.c \in Slot \ {c} /\ conn'[opener.c] = conn[opener.c]
    BY <1>1, <2>2 DEF Opening, Alone, TypeOK
  <2>5. TypeOK'
    BY <1>1, <1>2, <2>1, <2>2, <2>3, <2>4 DEF Opening, Alone, TypeOK
  <2>6. TaskInv'
    BY <1>3, <2>1, <2>2, <2>3, <2>4 DEF TaskInv, Opening
  <2> QED BY <2>2, <2>5, <2>6 DEF Opening, Alone
<1>6. CASE SendInput
  <2>1. /\ UNCHANGED <<flushFrame, pending, batch, typed>>
        /\ flush' = [flush EXCEPT !.at = "detach"]
        /\ flush.c \in Slot /\ flush.c # None /\ batch # <<>>
        /\ conn' \in [Slot -> Connection] /\ ConnInv'
        /\ conn'[flush.c] = [conn[flush.c] EXCEPT !.sent = <<Head(batch)>>]
        /\ \A d \in Slot \ {flush.c} : conn'[d] = conn[d]
    BY <1>6, FlushSends
  <2>2. flush' \in FlushType /\ flush'.c = flush.c /\ flush'.at = "detach"
    BY <1>1, <2>1
  <2>3. conn[flush.c] \in Connection /\ conn[flush.c].open
    BY <2>1 DEF TypeOK
  <2>4. conn'[flush.c].open /\ conn'[flush.c].sent = <<Head(batch)>>
    BY <2>1, <2>3 DEF Connection
  <2>5. /\ kill.c # None => kill.c \in Slot \ {flush.c} /\ conn'[kill.c] = conn[kill.c]
        /\ opener.c # None => opener.c \in Slot \ {flush.c} /\ conn'[opener.c] = conn[opener.c]
    BY <1>1, <2>1 DEF TaskInv
  <2>6. TypeOK'
    BY <1>1, <1>2, <2>1, <2>2, <2>4, <2>5 DEF TypeOK
  <2>7. TaskInv'
    <3>1. flush'.at = "detach" /\ flush'.c # None /\ batch' = batch /\ conn'[flush'.c].sent = <<Head(batch)>>
      BY <2>1, <2>2, <2>4
    <3>2. /\ kill.c # None => kill.c \notin {flush'.c, opener.c}
          /\ flush'.c # opener.c
      BY <2>1, <2>2, <2>5 DEF TaskInv
    <3>3. /\ opener.at = "open" => opener.c # None
          /\ kill.c # None /\ conn'[kill.c].srv = "first" => conn'[kill.c].req = "kill"
      BY <2>1, <2>5 DEF TaskInv
    <3> QED BY <1>3, <2>1, <3>1, <3>2, <3>3 DEF TaskInv
  <2> QED BY <2>1, <2>6, <2>7
<1>7. CASE FlushEnds
  <2>1. /\ UNCHANGED <<flushFrame, pending, typed>>
        /\ flush.c \in Slot /\ flush.c # None /\ Closing(flush.c)
        /\ flush'.c = None /\ flush'.at \in {"send", "list", "create", "capture", "take"}
        /\ flush'.why \in {"send", "again", "capture"}
    BY <1>7, FlushHangsUp
  <2>2. flush' = [at |-> flush'.at, why |-> flush'.why, c |-> flush'.c]
    BY <1>7 DEF FlushEnds, SendDetach, SendFails, Listed, Created, EnsureFails, Captured, Go, Ensured
  <2>3. flush' \in FlushType
    BY <2>1, <2>2
  <2>4. batch' \in Seq(1..typed')
    <3>1. batch' \in {batch, <<>>} \/ (batch # <<>> /\ batch' = Tail(batch))
      BY <1>7 DEF FlushEnds, SendDetach, SendFails, Listed, Created, EnsureFails, Captured, FlushInv
    <3>2. <<>> \in Seq(1..typed) /\ (batch # <<>> => Tail(batch) \in Seq(1..typed))
      BY <1>1, NextInput
    <3>3. batch' \in Seq(1..typed)
      BY <1>1, <3>1, <3>2
    <3> QED BY <2>1, <3>3
  <2>5. /\ kill.c # None => kill.c \in Slot \ {flush.c} /\ conn'[kill.c] = conn[kill.c]
        /\ opener.c # None => opener.c \in Slot \ {flush.c} /\ conn'[opener.c] = conn[opener.c]
    BY <1>1, <2>1 DEF TaskInv, Closing, Alone
  <2>6. TypeOK'
    BY <1>1, <1>2, <2>1, <2>3, <2>4, <2>5 DEF TypeOK, Closing, Alone
  <2>7. TaskInv'
    BY <1>3, <2>1, <2>5 DEF TaskInv
  <2> QED BY <2>1, <2>6, <2>7 DEF Closing, Alone
<1> QED BY <1>4, <1>5, <1>6, <1>7, FlushCases

(* The flush has inputs at hand exactly while it sends them, and the queue *)
(* is numbered.                                                            *)
LEMMA FlushQueue ==
  ASSUME TypeOK, ConnInv, TaskInv, FlushInv, QueueInv, FlushAction
  PROVE  FlushInv' /\ QueueInv'
<1>1. /\ pending \in Seq(1..typed) /\ batch \in Seq(1..typed) /\ typed \in Nat
      /\ Len(pending) \in Nat /\ Len(batch) \in Nat
      /\ flush \in [at : {"idle", "take", "send", "list", "create", "capture", "detach"},
                    why : {"send", "again", "capture"}, c : Slot \cup {None}]
  BY BoundsAssumption DEF TypeOK, Request
<1>2. Behind \in Int /\ (batch = <<>> <=> Len(batch) = 0) /\ (pending = <<>> <=> Len(pending) = 0)
  BY <1>1 DEF Behind
<1>3. CASE Type
  <2>1. /\ typed' = typed + 1 /\ batch' = batch /\ pending' = Append(pending, typed + 1)
        /\ flush' = IF flush.at = "idle" THEN [flush EXCEPT !.at = "take"] ELSE flush
    BY <1>3 DEF Type
  <2>2. FlushInv'
    BY <1>1, <2>1 DEF FlushInv
  <2>3. /\ Len(pending') = Len(pending) + 1
        /\ pending'[Len(pending) + 1] = typed + 1
        /\ \A i \in 1..Len(pending) : pending'[i] = pending[i]
        /\ DOMAIN pending' = 1..(Len(pending) + 1)
    BY <1>1, <2>1
  <2>4. Behind' = Behind
    BY <1>1, <2>1, <2>3 DEF Behind
  <2>5. ASSUME NEW i \in DOMAIN pending'
        PROVE  pending'[i] = Behind + Len(batch) + i
    <3>1. CASE i \in 1..Len(pending)
      <4>1. i \in DOMAIN pending
        BY <1>1, <3>1
      <4>2. pending[i] = Behind + Len(batch) + i
        BY <4>1 DEF QueueInv
      <4> QED BY <2>3, <3>1, <4>2
    <3>2. CASE i = Len(pending) + 1
      <4>1. Behind + Len(batch) + Len(pending) = typed
        BY <1>1 DEF Behind
      <4>2. pending'[i] = typed + 1
        BY <2>3, <3>2
      <4>3. Behind + Len(batch) + i = typed + 1
        BY <1>1, <1>2, <3>2, <4>1
      <4> QED BY <4>2, <4>3
    <3> QED BY <1>1, <2>3, <2>5, <3>1, <3>2
  <2> QED BY <2>1, <2>2, <2>4, <2>5 DEF QueueInv
<1>4. CASE FlushTake
  <2>1. /\ typed' = typed /\ batch' = pending /\ pending' = <<>> /\ flush.at = "take"
        /\ flush' = [at |-> IF pending = <<>> THEN "idle" ELSE "send", why |-> "send", c |-> None]
    BY <1>4 DEF FlushTake
  <2>2. batch = <<>>
    BY <2>1 DEF FlushInv
  <2>3. FlushInv'
    BY <2>1 DEF FlushInv
  <2>4. Behind' = Behind
    BY <1>1, <1>2, <2>1, <2>2 DEF Behind
  <2> QED BY <1>1, <1>2, <2>1, <2>2, <2>3, <2>4 DEF QueueInv
<1>5. CASE FlushDial \/ SendInput \/ Listed \/ Created \/ Captured
  <2>1. UNCHANGED <<pending, batch, typed>>
    BY <1>5 DEF FlushDial, SendInput, Listed, Created, Captured
  <2>2. QueueInv'
    BY <2>1 DEF QueueInv, Behind
  <2>3. FlushInv'
    BY <1>1, <1>5, <2>1 DEF FlushInv, FlushDial, SendInput, Listed, Created, Captured,
       Waiting, Ensured, Go, Request
  <2> QED BY <2>2, <2>3
<1>6. CASE SendDetach
  <2>1. /\ batch # <<>> /\ batch' = Tail(batch) /\ UNCHANGED <<pending, typed>>
        /\ flush' = IF Tail(batch) = <<>> THEN [at |-> "list", why |-> "capture", c |-> None]
                                          ELSE [at |-> "send", why |-> "send", c |-> None]
    BY <1>6 DEF SendDetach, Go, FlushInv
  <2>2. FlushInv'
    BY <2>1 DEF FlushInv
  <2>3. /\ Len(batch') = Len(batch) - 1 /\ batch' \in Seq(1..typed)
        /\ \A i \in 1..Len(batch) - 1 : batch'[i] = batch[i + 1]
    BY <1>1, <2>1, NextInput
  <2>4. Behind' = Behind + 1
    BY <1>1, <2>1, <2>3 DEF Behind
  <2>5. ASSUME NEW i \in DOMAIN batch' PROVE batch'[i] = Behind + 1 + i
    <3>1. i \in 1..Len(batch) - 1 /\ i + 1 \in DOMAIN batch
      BY <1>1, <2>3, SMTT(20)
    <3> QED BY <1>2, <2>3, <3>1 DEF QueueInv
  <2>6. \A i \in DOMAIN pending : pending[i] = Behind' + Len(batch') + i
    BY <1>1, <1>2, <2>3, <2>4 DEF QueueInv
  <2> QED BY <1>2, <2>1, <2>2, <2>4, <2>5, <2>6 DEF QueueInv
<1>7. CASE SendFails \/ EnsureFails
  <2>1. UNCHANGED <<pending, typed>>
    BY <1>7 DEF SendFails, EnsureFails
  <2>2. \/ /\ batch' = batch /\ flush.at \in {"send", "detach"}
           /\ flush' = [at |-> "list", why |-> "again", c |-> None]
        \/ batch' = <<>> /\ flush' = [at |-> "take", why |-> "send", c |-> None]
    BY <1>7 DEF SendFails, EnsureFails, Go, Waiting
  <2>3. CASE batch' = batch /\ flush.at \in {"send", "detach"}
             /\ flush' = [at |-> "list", why |-> "again", c |-> None]
    BY <2>1, <2>3 DEF FlushInv, QueueInv, Behind
  <2>4. CASE batch' = <<>> /\ flush' = [at |-> "take", why |-> "send", c |-> None]
    <3>1. FlushInv'
      BY <2>4 DEF FlushInv
    <3>2. Behind' = Behind + Len(batch) /\ Len(batch') = 0
      BY <1>1, <2>1, <2>4 DEF Behind
    <3> QED BY <1>1, <1>2, <2>1, <2>4, <3>1, <3>2 DEF QueueInv
  <2> QED BY <2>2, <2>3, <2>4
<1> QED BY <1>3, <1>4, <1>5, <1>6, <1>7 DEF FlushAction, FlushStep

(* The next input at hand is the one after those that are behind.          *)
LEMMA AtHand ==
  ASSUME TypeOK, QueueInv, batch # <<>>
  PROVE  /\ Head(batch) = Behind + 1 /\ Behind \in Nat
         /\ Head(batch) \in DOMAIN read /\ Head(batch) \in Nat \ {0}
<1>1. /\ batch \in Seq(1..typed) /\ typed \in 0..MaxInputs /\ DOMAIN read = 1..MaxInputs
      /\ MaxInputs \in Nat
  BY BoundsAssumption DEF TypeOK
<1>2. Head(batch) = batch[1] /\ Head(batch) \in 1..typed /\ Len(batch) \in Nat /\ Len(batch) > 0
  BY <1>1, NextInput
<1>3. 1 \in DOMAIN batch
  BY <1>1, <1>2
<1>4. Behind \in Nat
  <2>1. Len(pending) \in Nat
    BY DEF TypeOK
  <2> QED BY <1>1, <1>2, <2>1 DEF QueueInv, Behind
<1>5. batch[1] = Behind + 1
  BY <1>3 DEF QueueInv
<1> QED BY <1>1, <1>2, <1>4, <1>5

(* The flush sends what was sent as often as it has tried.                 *)
LEMMA FlushCount ==
  ASSUME TypeOK, ConnInv, TaskInv, FlushInv, QueueInv, CountInv, FlushAction
  PROVE  CountInv'
<1>1. /\ pending \in Seq(1..typed) /\ batch \in Seq(1..typed) /\ typed \in Nat /\ typed <= MaxInputs
      /\ Len(pending) \in Nat /\ Len(batch) \in Nat /\ Behind \in Nat
      /\ DOMAIN read = 1..MaxInputs /\ read \in [1..MaxInputs -> Nat] /\ MaxInputs \in Nat
      /\ batch # <<>> <=> Len(batch) > 0
  <2>1. Len(pending) \in Nat /\ Len(batch) \in Nat /\ typed \in Nat
    BY BoundsAssumption DEF TypeOK
  <2>2. Behind \in Nat
    BY <2>1 DEF QueueInv, Behind
  <2> QED BY <2>1, <2>2, BoundsAssumption DEF TypeOK
<1>2. \A k \in DOMAIN read : k \in Nat \ {0} /\ read[k] \in Nat
  BY <1>1
<1>3. read' = read
  BY DEF FlushAction, FlushStep, Type, FlushTake, FlushDial, SendInput, SendDetach, SendFails,
     Listed, Created, EnsureFails, Captured, flushFrame, historyVars
<1>4. CASE Type
  <2>1. /\ NoneNew /\ batch' = batch
        /\ flush' = flush \/ (flush.at = "idle" /\ flush'.at = "take" /\ flush'.why = flush.why)
    <3>1. flush' = IF flush.at = "idle" THEN [flush EXCEPT !.at = "take"] ELSE flush
      BY <1>4 DEF Type
    <3>2. conn' = conn /\ batch' = batch
      BY <1>4 DEF Type
    <3>3. flush \in [at : {"idle", "take", "send", "list", "create", "capture", "detach"},
                     why : {"send", "again", "capture"}, c : Slot \cup {None}]
      BY DEF TypeOK, Request
    <3> QED BY <3>1, <3>2, <3>3 DEF NoneNew, Carries
  <2>2. Behind' = Behind
    <3>1. typed' = typed + 1 /\ batch' = batch /\ Len(pending') = Len(pending) + 1
      BY <1>1, <1>4 DEF Type
    <3> QED BY <1>1, <3>1 DEF Behind
  <2> QED BY <1>3, <2>1, <2>2, CountKept
<1>5. CASE FlushTake
  <2>1. /\ typed' = typed /\ batch' = pending /\ pending' = <<>> /\ flush.at = "take"
        /\ conn' = conn /\ batch = <<>>
    BY <1>5 DEF FlushTake, FlushInv
  <2>2. Behind' = Behind
    BY <1>1, <2>1 DEF Behind
  <2>3. \A k \in DOMAIN read, n \in Nat : Sent(k, n) => Sent(k, n)'
    BY <1>3, <2>1 DEF Sent, Carries
  <2>4. ASSUME NEW k \in DOMAIN read
        PROVE  /\ \A c, d \in Slot : Carries(c, k)' /\ Carries(d, k)' => c = d
               /\ Sent(k, 2)'
               /\ k > Behind => Sent(k, 0)'
    BY <2>1, <2>3 DEF CountInv, Carries
  <2>5. ASSUME batch' # <<>>
        PROVE  /\ \A c \in Slot : ~Carries(c, Head(batch))'
               /\ Sent(Head(batch), 1)' /\ Sent(Head(batch), 0)'
    <3>1. pending # <<>>
      BY <2>1, <2>5
    <3>2. Head(pending) = pending[1] /\ Head(pending) \in 1..typed /\ 1 \in DOMAIN pending
      BY <1>1, <3>1, NextInput, SMTT(20)
    <3>3. PICK h \in DOMAIN read : h = Head(pending) /\ h > Behind
      <4>1. pending[1] = Behind + Len(batch) + 1 /\ Len(batch) = 0
        BY <1>1, <2>1, <3>2 DEF QueueInv
      <4> QED BY <1>1, <3>2, <4>1
    <3>4. Sent(h, 0)'
      BY <2>4, <3>3
    <3>5. read'[h] \in Nat
      BY <1>2, <1>3
    <3> QED BY <2>1, <3>3, <3>4, <3>5 DEF Sent, Carries
  <2>6. \A k \in DOMAIN read' :
          /\ \A c, d \in Slot : Carries(c, k)' /\ Carries(d, k)' => c = d
          /\ Sent(k, 2)'
          /\ k > Behind' + 1 \/ (k > Behind' /\ batch' = <<>>) => Sent(k, 0)'
    BY <1>1, <1>2, <1>3, <2>2, <2>4
  <2> QED BY <2>5, <2>6 DEF CountInv
<1>6. CASE FlushDial
  <2>1. /\ UNCHANGED <<pending, batch, typed>> /\ NoneNew
        /\ flush.at # "detach" /\ flush'.at # "detach" /\ flush'.why = flush.why
    <3>1. PICK c \in Slot : /\ Opening(c, Request[flush.at]) /\ flush' = [flush EXCEPT !.c = c]
      BY <1>6, FlushOpens
    <3>2. UNCHANGED <<pending, batch, typed>> /\ flush.at # "detach"
      BY <1>6, FlushOpens
    <3>3. flush'.at = flush.at /\ flush'.why = flush.why
      BY <3>1 DEF TypeOK
    <3> QED BY <3>1, <3>2, <3>3 DEF Opening, Alone
  <2>2. Behind' = Behind
    BY <2>1 DEF Behind
  <2> QED BY <1>3, <2>1, <2>2, CountKept
<1>7. CASE Listed \/ Created \/ Captured
  <2>1. UNCHANGED <<pending, batch, typed>> /\ NoneNew
    BY <1>7, FlushHangsUp DEF FlushEnds, Closing, Alone, Listed, Created, Captured
  <2>2. flush.at # "detach" /\ flush'.at # "detach"
    BY <1>7 DEF Listed, Created, Captured, Waiting, Ensured, Go
  <2>3. batch # <<>> /\ flush'.why = "send" => flush.why = "send"
    BY <1>7 DEF Listed, Created, Captured, Waiting, Ensured, Go, FlushInv
  <2>4. Behind' = Behind
    BY <2>1 DEF Behind
  <2> QED BY <1>3, <2>1, <2>2, <2>3, <2>4, CountKept
<1>8. CASE SendInput
  <2>1. /\ UNCHANGED <<pending, batch, typed>> /\ flush.at = "send"
        /\ flush' = [flush EXCEPT !.at = "detach"]
        /\ flush.c \in Slot /\ batch # <<>>
        /\ conn'[flush.c] = [conn[flush.c] EXCEPT !.sent = <<Head(batch)>>]
        /\ \A d \in Slot \ {flush.c} : conn'[d] = conn[d]
    BY <1>8, FlushSends
  <2>2. flush'.at = "detach" /\ flush'.why = flush.why /\ flush'.c = flush.c
    BY <2>1 DEF TypeOK
  <2>3. PICK h \in DOMAIN read : h = Head(batch) /\ h = Behind + 1 /\ h \in Nat \ {0}
    BY <2>1, AtHand
  <2>4. conn[flush.c] \in Connection
    BY <2>1 DEF TypeOK
  <2>5. conn'[flush.c].sent = <<h>> /\ Head(<<h>>) = h
    BY <2>1, <2>3, <2>4, Words DEF Connection
  <2>6. ASSUME NEW k \in DOMAIN read, NEW c \in Slot, Carries(c, k)'
        PROVE  (k = h /\ c = flush.c) \/ (Carries(c, k) /\ c # flush.c)
    BY <2>1, <2>5, <2>6 DEF Carries
  <2>7. /\ \A c \in Slot : ~Carries(c, h)
        /\ Sent(h, 1) /\ (flush.why = "send" => Sent(h, 0))
    BY <2>1, <2>3 DEF CountInv
  <2>8. ASSUME NEW k \in DOMAIN read, k # h, NEW n \in Nat, Sent(k, n) PROVE Sent(k, n)'
    BY <1>3, <2>6, <2>8 DEF Sent
  <2>9. Behind' = Behind
    BY <2>1 DEF Behind
  <2>10. Sent(h, 2)' /\ (flush.why = "send" => Sent(h, 1)')
    BY <1>2, <1>3, <2>7 DEF Sent
  <2>11. ASSUME NEW k \in DOMAIN read
         PROVE  /\ \A c, d \in Slot : Carries(c, k)' /\ Carries(d, k)' => c = d
                /\ Sent(k, 2)'
                /\ k > Behind + 1 \/ (k > Behind /\ batch = <<>>) => Sent(k, 0)'
    <3>1. CASE k = h
      BY <1>1, <2>1, <2>3, <2>6, <2>7, <2>10, <3>1
    <3>2. CASE k # h
      BY <2>6, <2>8, <3>2 DEF CountInv
    <3> QED BY <3>1, <3>2
  <2>12. /\ \A c \in Slot : Carries(c, h)' => c = flush.c
         /\ flush'.why = "send" => Sent(h, 1)'
    BY <2>2, <2>6, <2>7, <2>10
  <2>13. /\ \A c \in Slot : Carries(c, Head(batch))' => flush'.at = "detach" /\ c = flush'.c
         /\ flush'.why = "send" => Sent(Head(batch), 1)'
    BY <2>1, <2>2, <2>3, <2>12 DEF Sent, Carries
  <2> QED BY <1>3, <2>1, <2>2, <2>9, <2>11, <2>13 DEF CountInv

<1>9. CASE SendDetach
  <2>1. /\ batch # <<>> /\ batch' = Tail(batch) /\ UNCHANGED <<pending, typed>>
        /\ flush.at = "detach" /\ NoneNew /\ flush'.at # "detach"
    BY <1>9, FlushHangsUp DEF FlushEnds, SendDetach, Go, FlushInv, Closing, Alone
  <2>2. /\ Len(batch') = Len(batch) - 1 /\ batch' \in Seq(1..typed)
        /\ \A i \in 1..Len(batch) - 1 : batch'[i] = batch[i + 1]
    BY <1>1, <2>1, NextInput
  <2>3. Behind' = Behind + 1
    BY <1>1, <2>1, <2>2 DEF Behind
  <2>4. \A k \in DOMAIN read, n \in Nat : Sent(k, n) => Sent(k, n)'
    BY <1>3, <2>1, SentKept
  <2>5. ASSUME NEW k \in DOMAIN read
        PROVE  /\ \A c, d \in Slot : Carries(c, k)' /\ Carries(d, k)' => c = d
               /\ Sent(k, 2)'
               /\ k > Behind + 1 => Sent(k, 0)'
    BY <1>2, <2>1, <2>4 DEF CountInv, NoneNew
  <2>6. ASSUME batch' # <<>>
        PROVE  /\ \A c \in Slot : ~Carries(c, Head(batch))'
               /\ Sent(Head(batch), 1)' /\ Sent(Head(batch), 0)'
    <3>1. Head(batch') = batch'[1] /\ Head(batch') \in 1..typed /\ Len(batch') > 0
      BY <2>2, <2>6, NextInput
    <3>2. PICK h \in DOMAIN read : h = Head(batch') /\ h > Behind + 1
      <4>1. 1 \in 1..Len(batch) - 1 /\ 2 \in DOMAIN batch
        BY <1>1, <2>2, <3>1, SMTT(20)
      <4>2. batch'[1] = batch[1 + 1] /\ batch[2] = Behind + 2
        BY <2>2, <4>1 DEF QueueInv
      <4> QED BY <1>1, <3>1, <4>1, <4>2
    <3>3. Sent(h, 0)'
      BY <2>5, <3>2
    <3>4. read'[h] \in Nat
      BY <1>2, <1>3
    <3> QED BY <3>2, <3>3, <3>4 DEF Sent, Carries
  <2>7. \A k \in DOMAIN read' :
          /\ \A c, d \in Slot : Carries(c, k)' /\ Carries(d, k)' => c = d
          /\ Sent(k, 2)'
          /\ k > Behind' + 1 \/ (k > Behind' /\ batch' = <<>>) => Sent(k, 0)'
    BY <1>1, <1>2, <1>3, <2>3, <2>5
  <2> QED BY <2>6, <2>7 DEF CountInv
<1>10. CASE SendFails \/ EnsureFails
  <2>1. UNCHANGED <<pending, typed>> /\ NoneNew /\ Closing(flush.c) /\ flush.c \in Slot
    BY <1>10, FlushHangsUp DEF FlushEnds, Closing, Alone
  <2>2. \/ /\ SendFails /\ batch' = batch /\ flush.why = "send"
           /\ flush' = [at |-> "list", why |-> "again", c |-> None]
        \/ batch' = <<>> /\ flush' = [at |-> "take", why |-> "send", c |-> None]
    BY <1>10 DEF SendFails, EnsureFails, Go
  <2>3. CASE /\ SendFails /\ batch' = batch /\ flush.why = "send"
             /\ flush' = [at |-> "list", why |-> "again", c |-> None]
    <3>1. CASE flush.at # "detach"
      <4>1. Behind' = Behind
        BY <2>1, <2>3 DEF Behind
      <4> QED BY <1>3, <2>1, <2>3, <3>1, <4>1, CountKept
    <3>2. CASE flush.at = "detach"
      <4>1. conn[flush.c].srv = "closed" /\ conn[flush.c].sent = <<>>
        BY <2>1, <2>3, <3>2 DEF SendFails, Waiting, Writable, ConnInv
      <4>2. batch # <<>>
        BY <3>2 DEF FlushInv
      <4>3. PICK h \in DOMAIN read : h = Head(batch) /\ h \in Nat \ {0}
        BY <4>2, AtHand
      <4>4. (\A c \in Slot : ~Carries(c, h)) /\ Sent(h, 1)
        BY <2>3, <4>1, <4>2, <4>3 DEF CountInv, Carries
      <4>5. \A k \in DOMAIN read, n \in Nat : Sent(k, n) => Sent(k, n)'
        BY <1>3, <2>1, SentKept
      <4>6. (\A c \in Slot : ~Carries(c, h)') /\ Sent(h, 1)'
        BY <2>1, <4>3, <4>4, <4>5 DEF NoneNew
      <4>7. (\A c \in Slot : ~Carries(c, Head(batch))') /\ Sent(Head(batch), 1)'
        BY <2>3, <4>3, <4>6 DEF Sent, Carries
      <4>8. \A k \in DOMAIN read :
              /\ \A c, d \in Slot : Carries(c, k)' /\ Carries(d, k)' => c = d
              /\ Sent(k, 2)'
              /\ k > Behind + 1 \/ (k > Behind /\ batch = <<>>) => Sent(k, 0)'
        BY <1>2, <2>1, <4>5 DEF CountInv, NoneNew
      <4>9. Behind' = Behind
        BY <2>1, <2>3 DEF Behind
      <4> QED BY <1>3, <2>3, <4>7, <4>8, <4>9 DEF CountInv
    <3> QED BY <3>1, <3>2
  <2>4. CASE batch' = <<>> /\ flush' = [at |-> "take", why |-> "send", c |-> None]
    <3>1. Behind' = Behind + Len(batch)
      BY <1>1, <2>1, <2>4 DEF Behind
    <3>2. \A k \in DOMAIN read, n \in Nat : Sent(k, n) => Sent(k, n)'
      BY <1>3, <2>1, SentKept
    <3>3. ASSUME NEW k \in DOMAIN read
          PROVE  /\ \A c, d \in Slot : Carries(c, k)' /\ Carries(d, k)' => c = d
                 /\ Sent(k, 2)'
                 /\ k > Behind' + 1 \/ k > Behind' => Sent(k, 0)'
      <4>1. k > Behind' => k > Behind + 1 \/ (k > Behind /\ batch = <<>>)
        BY <1>1, <1>2, <3>1
      <4>2. k > Behind' + 1 => k > Behind'
        BY <1>1, <1>2, <3>1
      <4>3. k > Behind + 1 \/ (k > Behind /\ batch = <<>>) => Sent(k, 0)'
        BY <3>2 DEF CountInv
      <4>4. /\ \A c, d \in Slot : Carries(c, k)' /\ Carries(d, k)' => c = d
            /\ Sent(k, 2)'
        BY <1>2, <2>1, <3>2 DEF CountInv, NoneNew
      <4> QED BY <4>1, <4>2, <4>3, <4>4
    <3> QED BY <1>3, <2>4, <3>3 DEF CountInv
  <2> QED BY <2>2, <2>3, <2>4
<1> QED BY <1>4, <1>5, <1>6, <1>7, <1>8, <1>9, <1>10 DEF FlushAction, FlushStep

(* Undisturbed, the flush keeps its connection and sends nothing twice.    *)
LEMMA FlushCalm ==
  ASSUME TypeOK, ConnInv, TaskInv, FlushInv, QueueInv, CountInv, CalmInv, FlushAction
  PROVE  CalmInv'
<1> SUFFICES ASSUME Undisturbed' PROVE CalmInv'
  BY DEF CalmInv
<1>1. UNCHANGED flushFrame
  BY DEF FlushAction, FlushStep, Type, FlushTake, FlushDial, SendInput, SendDetach, SendFails,
     Listed, Created, EnsureFails, Captured
<1>2. UNCHANGED <<sessionOf, running, doomed, kill, opener, meddled, read>>
  BY <1>1 DEF flushFrame, historyVars, daemonVars
<1>3. Undisturbed
  BY <1>2 DEF Undisturbed
<1>4. /\ doomed = {} /\ \A n \in Name : sessionOf[n] \in running \cup {None}
      /\ \A c \in Slot :
           /\ conn[c].srv = "first" => c \in {flush.c, kill.c}
           /\ conn[c].srv \in {"greet", "screen", "relay"} => conn[c].session \in running
      /\ flush.c # None => ~conn[flush.c].evicted
      /\ flush.at = "detach" => conn[flush.c].srv \in {"screen", "relay"}
      /\ \A k \in DOMAIN read : Sent(k, 1)
      /\ batch # <<>> /\ flush.at # "detach" => Sent(Head(batch), 0)
  BY <1>3 DEF CalmInv
\* The rest is about the connections, and about the next input at hand.
<1>5. ASSUME \A c \in Slot :
               /\ conn'[c].srv = "first" => c \in {flush'.c, kill'.c}
               /\ conn'[c].srv \in {"greet", "screen", "relay"} => conn'[c].session \in running,
             flush'.c # None => ~conn'[flush'.c].evicted,
             flush'.at = "detach" => conn'[flush'.c].srv \in {"screen", "relay"},
             \A k \in DOMAIN read : Sent(k, 1)',
             batch' # <<>> /\ flush'.at # "detach" => Sent(Head(batch), 0)'
      PROVE  CalmInv'
  BY <1>2, <1>4, <1>5 DEF CalmInv
<1>6. CountInv' /\ TypeOK' /\ FlushInv'
  BY FlushCount, FlushTypeTask, FlushQueue
<1>7. flush.c \in Slot \cup {None} /\ kill.c \in Slot \cup {None}
  BY DEF TypeOK
<1>8. NoneNew => \A k \in DOMAIN read : Sent(k, 1)'
  BY <1>2, <1>4, SentKept
<1>9. CASE Type \/ FlushTake
  <2>1. conn' = conn
    BY <1>9 DEF Type, FlushTake
  <2>2. NoneNew
    BY <2>1 DEF NoneNew, Carries
  <2>3. CASE Type
    <3>1. /\ batch' = batch
          /\ flush' = IF flush.at = "idle" THEN [flush EXCEPT !.at = "take"] ELSE flush
      BY <2>3 DEF Type
    <3>2. /\ flush'.c = flush.c /\ (flush'.at = "detach" <=> flush.at = "detach")
      BY <3>1 DEF TypeOK
    <3>3. batch # <<>> /\ flush.at # "detach" => Sent(Head(batch), 0)'
      BY <1>2, <1>4, <2>1, <3>1 DEF Sent, Carries
    <3> QED BY <1>2, <1>4, <1>5, <1>8, <2>1, <2>2, <3>1, <3>2, <3>3
  <2>4. CASE FlushTake
    <3>1. /\ flush'.c = None /\ flush'.at # "detach" /\ flush'.why = "send" /\ flush.at = "take"
      BY <2>4 DEF FlushTake
    <3>2. batch' # <<>> => Sent(Head(batch), 0)'
      BY <1>6, <3>1 DEF CountInv
    <3>3. flush.c = None
      BY <3>1 DEF FlushInv
    <3> QED BY <1>2, <1>4, <1>5, <1>8, <2>1, <2>2, <3>1, <3>2, <3>3
  <2> QED BY <1>9, <2>3, <2>4
<1>10. CASE FlushDial
  <2>1. PICK c \in Slot : Opening(c, Request[flush.at]) /\ flush' = [flush EXCEPT !.c = c]
    BY <1>10, FlushOpens
  <2>2. /\ batch' = batch /\ flush.c = None /\ flush.at # "detach"
        /\ flush'.c = c /\ flush'.at = flush.at
    BY <1>10, <2>1, FlushOpens DEF TypeOK
  <2>3. /\ NoneNew /\ conn'[c].srv = "first" /\ ~conn'[c].evicted
        /\ \A d \in Slot \ {c} : conn'[d] = conn[d]
    BY <2>1 DEF Opening, Alone
  <2>4. batch # <<>> => Sent(Head(batch), 0)'
    <3> SUFFICES ASSUME batch # <<>> PROVE Sent(Head(batch), 0)'
      OBVIOUS
    <3>1. PICK h \in DOMAIN read : h = Head(batch)
      BY AtHand
    <3>2. Sent(h, 0)'
      BY <1>2, <1>4, <2>2, <2>3, <3>1, SentKept
    <3> QED BY <2>2, <3>1, <3>2 DEF Sent, Carries
  <2>5. ASSUME NEW d \in Slot
        PROVE  /\ conn'[d].srv = "first" => d \in {flush'.c, kill'.c}
               /\ conn'[d].srv \in {"greet", "screen", "relay"} => conn'[d].session \in running
    <3>1. d # None
      BY SlotAssumption DEF None
    <3>2. CASE d = c
      BY <2>2, <2>3, <3>2
    <3>3. CASE d # c
      BY <1>2, <1>4, <2>2, <2>3, <3>1, <3>3
    <3> QED BY <3>2, <3>3
  <2> QED BY <1>5, <1>8, <2>2, <2>3, <2>4, <2>5
<1>11. CASE SendInput
  <2>1. /\ batch' = batch /\ flush.at = "send" /\ flush' = [flush EXCEPT !.at = "detach"]
        /\ flush.c \in Slot /\ batch # <<>> /\ conn[flush.c].srv \in {"screen", "relay"}
        /\ conn'[flush.c] = [conn[flush.c] EXCEPT !.sent = <<Head(batch)>>]
        /\ \A d \in Slot \ {flush.c} : conn'[d] = conn[d]
    BY <1>11, FlushSends
  <2>2. /\ flush'.c = flush.c /\ flush'.at = "detach" /\ flush.c # None
    BY <1>11, <2>1, FlushSends DEF TypeOK
  <2>3. conn[flush.c] \in Connection
    BY <2>1 DEF TypeOK
  <2>4. /\ conn'[flush.c].srv = conn[flush.c].srv /\ conn'[flush.c].session = conn[flush.c].session
        /\ conn'[flush.c].evicted = conn[flush.c].evicted
    BY <2>1, <2>3 DEF Connection
  <2>5. PICK h \in DOMAIN read : h = Head(batch) /\ h \in Nat \ {0}
    BY <2>1, AtHand
  <2>6. conn'[flush.c].sent = <<h>> /\ Head(<<h>>) = h
    BY <2>1, <2>3, <2>5, Words DEF Connection
  <2>7. ASSUME NEW k \in DOMAIN read PROVE Sent(k, 1)'
    <3>1. read[k] \in Nat /\ k \in Nat
      BY BoundsAssumption DEF TypeOK
    <3>2. CASE k = h
      <4>1. Sent(k, 0)
        BY <1>4, <2>1, <2>5, <3>2
      <4> QED BY <1>2, <3>1, <4>1 DEF Sent
    <3>3. CASE k # h
      <4>1. \A c \in Slot : Carries(c, k)' => Carries(c, k)
        BY <2>1, <2>6, <3>3 DEF Carries
      <4> QED BY <1>2, <1>4, <4>1 DEF Sent
    <3> QED BY <3>2, <3>3
  <2>8. ASSUME NEW d \in Slot
        PROVE  /\ conn'[d].srv = "first" => d \in {flush'.c, kill'.c}
               /\ conn'[d].srv \in {"greet", "screen", "relay"} => conn'[d].session \in running
    <3>1. conn'[d].srv = conn[d].srv /\ conn'[d].session = conn[d].session
      BY <2>1, <2>4
    <3> QED BY <1>2, <1>4, <2>2, <3>1
  <2>9. ~conn'[flush'.c].evicted /\ conn'[flush'.c].srv \in {"screen", "relay"}
    BY <1>4, <2>1, <2>2, <2>4
  <2> QED BY <1>5, <2>2, <2>7, <2>8, <2>9
<1>12. CASE FlushEnds
  <2>1. /\ flush.c \in Slot /\ flush.c # None /\ Closing(flush.c) /\ NoneNew
        /\ flush'.c = None /\ flush'.at # "detach"
    BY <1>12, FlushHangsUp DEF Closing, Alone
  <2>2. conn[flush.c].srv # "first"
    BY <1>4, <1>12, <2>1 DEF FlushEnds, SendDetach, SendFails, Listed, Created, EnsureFails, Captured,
       Connected, Refused, Writable, ConnInv
  <2>3. \A c \in Slot :
          /\ conn'[c].srv = "first" => c \in {flush'.c, kill'.c}
          /\ conn'[c].srv \in {"greet", "screen", "relay"} => conn'[c].session \in running
    BY <1>2, <1>4, <2>1, <2>2 DEF Closing, Alone
  <2>4. ASSUME batch' # <<>> PROVE Sent(Head(batch), 0)'
    <3>1. CASE flush'.why = "send"
      BY <1>6, <2>1, <2>4, <3>1 DEF CountInv
    <3>2. CASE flush'.why # "send"
      <4>1. batch' = batch /\ flush.at # "detach"
        BY <1>4, <1>6, <1>12, <2>4, <3>2 DEF FlushEnds, SendDetach, SendFails, Listed, Created, EnsureFails,
           Captured, Waiting, Ensured, Go, Writable, FlushInv
      <4>2. batch # <<>>
        BY <2>4, <4>1
      <4>3. PICK h \in DOMAIN read : h = Head(batch)
        BY <4>2, AtHand
      <4>4. Sent(h, 0)'
        BY <1>2, <1>4, <2>1, <4>1, <4>2, <4>3, SentKept
      <4> QED BY <4>1, <4>3, <4>4 DEF Sent, Carries
    <3> QED BY <3>1, <3>2
  <2> QED BY <1>5, <1>8, <2>1, <2>3, <2>4
<1> QED BY <1>9, <1>10, <1>11, <1>12, FlushCases

-----------------------------------------------------------------------------
(* The end of the pane and `retach open`.                                  *)

OtherAction ==
  \/ Close \/ KillDial \/ KillEnds
  \/ StrangerStarts \/ OpenDial \/ OpenEnds \/ HangUp

(* They leave the daemon and the flush alone, but for connections of their *)
(* own.                                                                    *)
LEMMA OtherFrame ==
  ASSUME TypeOK, ConnInv, TaskInv, OtherAction
  PROVE  /\ UNCHANGED <<daemonVars, flushVars, faults, read, renamed, live>>
         /\ \/ conn' = conn /\ UNCHANGED <<kill, opener>>
            \/ conn' = conn /\ kill' = [kill EXCEPT !.at = "call"] /\ opener' = opener
            \/ conn' = conn /\ kill' = kill /\ opener' = [opener EXCEPT !.at = "start"]
            \/ conn' = conn /\ kill' = kill /\ opener' = [at |-> "ended", c |-> None]
            \/ \E c \in Slot : /\ Opening(c, "kill") /\ kill.c = None
                               /\ kill' = [kill EXCEPT !.c = c] /\ opener' = opener
            \/ /\ kill.c \in Slot /\ kill.c # None /\ Closing(kill.c) /\ ~Writable(kill.c)
               /\ kill' = [at |-> "done", c |-> None] /\ opener' = opener
            \/ \E c \in Slot : /\ Opening(c, "open") /\ kill' = kill
                               /\ opener' = [at |-> "open", c |-> c]
            \/ /\ opener.c \in Slot /\ opener.c # None /\ Closing(opener.c)
               /\ opener' = [at |-> "ended", c |-> None] /\ kill' = kill
         /\ closed' \in BOOLEAN /\ final' \in BOOLEAN /\ meddled' \in BOOLEAN
         /\ opener'.at = "none" => opener.at = "none" /\ meddled' = meddled
<1>1. /\ kill.c \in Slot \cup {None} /\ opener.c \in Slot \cup {None}
      /\ closed \in BOOLEAN /\ final \in BOOLEAN /\ meddled \in BOOLEAN
      /\ kill \in [at : {"none", "call", "done"}, c : Slot \cup {None}]
      /\ opener \in [at : {"none", "start", "open", "ended"}, c : Slot \cup {None}]
  BY DEF TypeOK
<1>2. "payload" \in Name /\ Hashed \in Name /\ KillName \in Name
  BY DEF Name, Hashed, NameOf, KillName
<1>3. CASE Close
  <2>1. /\ UNCHANGED <<daemonVars, conn, renamed, live, flushVars, opener, historyVars>>
        /\ kill' = [kill EXCEPT !.at = "call"] /\ closed' = TRUE
    BY <1>3 DEF Close
  <2> QED BY <1>1, <2>1 DEF historyVars
<1>4. CASE KillDial
  <2>1. UNCHANGED killFrame /\ kill.c = None
    BY <1>4 DEF KillDial
  <2>2. PICK c \in Slot : Dialed(c, "kill", KillName) /\ kill' = [kill EXCEPT !.c = c]
    BY <1>4 DEF KillDial
  <2>3. typed' = typed
    BY <2>1 DEF killFrame, flushVars
  <2>4. Opening(c, "kill")
    BY <1>2, <2>2, <2>3, Dials
  <2> QED BY <1>1, <2>1, <2>2, <2>4 DEF killFrame, paneVars, historyVars
<1>5. CASE KillEnds
  <2>1. /\ UNCHANGED killFrame /\ kill.c # None /\ ~Writable(kill.c) /\ conn' = HungUp(kill.c)
        /\ kill' = [at |-> "done", c |-> None]
    BY <1>5 DEF KillEnds
  <2>2. typed' = typed
    BY <2>1 DEF killFrame, flushVars
  <2>3. Closing(kill.c)
    BY <1>1, <2>1, <2>2, HangsUp
  <2> QED BY <1>1, <2>1, <2>3 DEF killFrame, paneVars, historyVars
<1>6. CASE StrangerStarts
  <2>1. /\ UNCHANGED <<openFrame, conn>> /\ opener' = [opener EXCEPT !.at = "start"]
        /\ meddled' \in BOOLEAN
    BY <1>6 DEF StrangerStarts
  <2>2. opener'.at = "start"
    BY <1>1, <2>1
  <2> QED BY <1>1, <2>1, <2>2 DEF openFrame, paneVars
<1>7. CASE OpenDial
  <2>1. UNCHANGED <<openFrame, meddled>>
    BY <1>7 DEF OpenDial
  <2>2. PICK c \in Slot : Dialed(c, "open", Hashed) /\ opener' = [at |-> "open", c |-> c]
    BY <1>7 DEF OpenDial
  <2>3. typed' = typed
    BY <2>1 DEF openFrame, flushVars
  <2>4. Opening(c, "open")
    BY <1>2, <2>2, <2>3, Dials
  <2> QED BY <1>1, <2>1, <2>2, <2>4 DEF openFrame, paneVars
<1>8. CASE OpenEnds
  <2>1. /\ UNCHANGED <<openFrame, meddled>> /\ opener.c # None /\ conn' = HungUp(opener.c)
        /\ opener' = [at |-> "ended", c |-> None]
    BY <1>8 DEF OpenEnds, Ended, TaskInv
  <2>2. typed' = typed
    BY <2>1 DEF openFrame, flushVars
  <2>3. Closing(opener.c)
    BY <1>1, <2>1, <2>2, HangsUp
  <2> QED BY <1>1, <2>1, <2>3 DEF openFrame, paneVars
<1>9. CASE HangUp
  <2>1. /\ UNCHANGED <<openFrame, meddled>> /\ opener' = [at |-> "ended", c |-> None]
        /\ conn' = IF opener.c = None THEN conn ELSE HungUp(opener.c)
    BY <1>9 DEF HangUp, Ended
  <2>2. typed' = typed
    BY <2>1 DEF openFrame, flushVars
  <2>3. opener.c # None => Closing(opener.c)
    BY <1>1, <2>1, <2>2, HangsUp
  <2> QED BY <1>1, <2>1, <2>3 DEF openFrame, paneVars
<1> QED BY <1>3, <1>4, <1>5, <1>6, <1>7, <1>8, <1>9 DEF OtherAction

(* They keep every invariant.                                              *)
LEMMA OtherKeeps ==
  ASSUME TypeOK, ConnInv, TaskInv, FlushInv, QueueInv, CountInv, CalmInv, OtherAction
  PROVE  /\ TypeOK' /\ ConnInv' /\ TaskInv' /\ FlushInv' /\ QueueInv' /\ CountInv' /\ CalmInv'
<1>1. /\ UNCHANGED <<sessionOf, running, doomed, flush, pending, batch, typed, faults, read, renamed, live>>
      /\ closed' \in BOOLEAN /\ final' \in BOOLEAN /\ meddled' \in BOOLEAN
      /\ opener'.at = "none" => opener.at = "none" /\ meddled' = meddled
  BY OtherFrame DEF daemonVars, flushVars
<1>2. /\ kill \in [at : {"none", "call", "done"}, c : Slot \cup {None}]
      /\ opener \in [at : {"none", "start", "open", "ended"}, c : Slot \cup {None}]
      /\ flush.c \in Slot \cup {None} /\ conn \in [Slot -> Connection]
      /\ \A task \in {flush, kill, opener} : task.c # None => conn[task.c].open
  BY DEF TypeOK
<1>3. FlushInv' /\ QueueInv' /\ Behind' = Behind
  BY <1>1 DEF FlushInv, QueueInv, Behind
\* What is left to show of each step.
<1> DEFINE Goal ==
      /\ conn' \in [Slot -> Connection] /\ ConnInv' /\ NoneNew
      /\ kill' \in [at : {"none", "call", "done"}, c : Slot \cup {None}]
      /\ opener' \in [at : {"none", "start", "open", "ended"}, c : Slot \cup {None}]
      /\ \A task \in {flush', kill', opener'} : task.c # None => conn'[task.c].open
      /\ TaskInv'
      /\ Undisturbed' =>
           /\ flush.c # None => conn'[flush.c] = conn[flush.c]
           /\ \A c \in Slot :
                /\ conn'[c].srv = "first" => c \in {flush.c, kill'.c}
                /\ conn'[c].srv \in {"greet", "screen", "relay"} => conn'[c].session \in running
<1>4. ASSUME Goal
      PROVE  TypeOK' /\ ConnInv' /\ TaskInv' /\ CountInv' /\ CalmInv'
  <2>1. TypeOK'
    BY <1>1, <1>4 DEF TypeOK
  <2>2. CountInv'
    BY <1>1, <1>3, <1>4, CountKept
  <2>3. ASSUME Undisturbed' PROVE CalmInv'
    <3>1. Undisturbed
      BY <1>1, <2>3 DEF Undisturbed
    <3>2. \A k \in DOMAIN read, n \in Nat : Sent(k, n) => Sent(k, n)'
      BY <1>1, <1>4, SentKept
    <3>3. batch # <<>> /\ flush.at # "detach" => Sent(Head(batch), 0)'
      <4> SUFFICES ASSUME batch # <<>>, flush.at # "detach" PROVE Sent(Head(batch), 0)'
        OBVIOUS
      <4>1. PICK h \in DOMAIN read : h = Head(batch)
        BY AtHand
      <4>2. Sent(h, 0)'
        BY <3>1, <3>2, <4>1 DEF CalmInv
      <4> QED BY <1>1, <4>1, <4>2 DEF Sent, Carries
    <3>4. flush.at = "detach" => flush.c # None
      BY DEF TaskInv
    <3>5. /\ flush.c # None => ~conn'[flush.c].evicted
          /\ flush.at = "detach" => conn'[flush.c].srv \in {"screen", "relay"}
      BY <1>4, <2>3, <3>1, <3>4 DEF CalmInv
    <3>6. /\ doomed' = {} /\ \A n \in Name : sessionOf'[n] \in running' \cup {None}
          /\ \A k \in DOMAIN read' : Sent(k, 1)'
      BY <1>1, <3>1, <3>2 DEF CalmInv
    <3> QED BY <1>1, <1>4, <2>3, <3>3, <3>5, <3>6 DEF CalmInv
  <2>4. CalmInv'
    BY <2>3 DEF CalmInv
  <2> QED BY <1>4, <2>1, <2>2, <2>4
<1>5. CASE conn' = conn /\ kill' \in {kill, [kill EXCEPT !.at = "call"]}
           /\ opener' \in {opener, [opener EXCEPT !.at = "start"], [at |-> "ended", c |-> None]}
  <2>1. /\ NoneNew /\ ConnInv'
    BY <1>1, <1>5 DEF NoneNew, Carries, ConnInv
  <2>2. /\ kill' \in [at : {"none", "call", "done"}, c : Slot \cup {None}] /\ kill'.c = kill.c
        /\ opener' \in [at : {"none", "start", "open", "ended"}, c : Slot \cup {None}]
        /\ opener'.c \in {opener.c, None}
        /\ opener'.at = "open" => opener' = opener
    BY <1>2, <1>5
  <2>3. TaskInv'
    BY <1>1, <1>5, <2>2 DEF TaskInv
  <2>4. Undisturbed' => Undisturbed
    BY <1>1 DEF Undisturbed
  <2>5. Goal
    BY <1>1, <1>2, <1>5, <2>1, <2>2, <2>3, <2>4 DEF CalmInv
  <2> QED BY <1>3, <1>4, <2>5
<1>6. ASSUME NEW c \in Slot, Opening(c, "kill"), kill.c = None,
             kill' = [kill EXCEPT !.c = c], opener' = opener
      PROVE  Goal
  <2>1. kill' \in [at : {"none", "call", "done"}, c : Slot \cup {None}] /\ kill'.c = c
    BY <1>2, <1>6
  <2>2. /\ flush.c # None => flush.c \in Slot \ {c} /\ conn'[flush.c] = conn[flush.c]
        /\ opener.c # None => opener.c \in Slot \ {c} /\ conn'[opener.c] = conn[opener.c]
        /\ c # None
    BY <1>2, <1>6, SlotAssumption DEF Opening, Alone, None
  <2>3. TaskInv'
    BY <1>1, <1>6, <2>1, <2>2 DEF TaskInv, Opening
  <2>4. ASSUME Undisturbed', NEW d \in Slot
        PROVE  /\ conn'[d].srv = "first" => d \in {flush.c, kill'.c}
               /\ conn'[d].srv \in {"greet", "screen", "relay"} => conn'[d].session \in running
    <3>1. Undisturbed /\ d # None
      BY <1>1, <2>4, SlotAssumption DEF Undisturbed, None
    <3>2. CASE d = c
      BY <1>6, <2>1, <3>2 DEF Opening
    <3>3. CASE d # c
      BY <1>6, <2>1, <3>1, <3>3 DEF Opening, Alone, CalmInv
    <3> QED BY <3>2, <3>3
  <2> QED BY <1>1, <1>2, <1>6, <2>1, <2>2, <2>3, <2>4 DEF Opening, Alone
<1>7. ASSUME kill.c \in Slot, kill.c # None, Closing(kill.c), ~Writable(kill.c),
             kill' = [at |-> "done", c |-> None], opener' = opener
      PROVE  Goal
  <2>1. /\ flush.c # None => flush.c \in Slot \ {kill.c} /\ conn'[flush.c] = conn[flush.c]
        /\ opener.c # None => opener.c \in Slot \ {kill.c} /\ conn'[opener.c] = conn[opener.c]
    BY <1>2, <1>7 DEF TaskInv, Closing, Alone
  <2>2. TaskInv'
    BY <1>1, <1>7, <2>1 DEF TaskInv
  <2>3. Undisturbed' => Undisturbed
    BY <1>1 DEF Undisturbed
  <2>4. conn'[kill.c].srv = "closed"
    BY <1>7 DEF Closing, Writable
  <2> QED BY <1>1, <1>2, <1>7, <2>1, <2>2, <2>3, <2>4 DEF Closing, Alone, CalmInv
<1>8. ASSUME NEW c \in Slot, Opening(c, "open"), kill' = kill, opener' = [at |-> "open", c |-> c]
      PROVE  Goal
  <2>1. /\ flush.c # None => flush.c \in Slot \ {c} /\ conn'[flush.c] = conn[flush.c]
        /\ kill.c # None => kill.c \in Slot \ {c} /\ conn'[kill.c] = conn[kill.c]
        /\ c # None
    BY <1>2, <1>8, SlotAssumption DEF Opening, Alone, None
  <2>2. TaskInv'
    BY <1>1, <1>8, <2>1 DEF TaskInv
  <2>3. ~Undisturbed'
    BY <1>8 DEF Undisturbed
  <2> QED BY <1>1, <1>2, <1>8, <2>1, <2>2, <2>3 DEF Opening, Alone
<1>9. ASSUME opener.c \in Slot, opener.c # None, Closing(opener.c),
             opener' = [at |-> "ended", c |-> None], kill' = kill
      PROVE  Goal
  <2>1. /\ flush.c # None => flush.c \in Slot \ {opener.c} /\ conn'[flush.c] = conn[flush.c]
        /\ kill.c # None => kill.c \in Slot \ {opener.c} /\ conn'[kill.c] = conn[kill.c]
    BY <1>2, <1>9 DEF TaskInv, Closing, Alone
  <2>2. TaskInv'
    BY <1>1, <1>9, <2>1 DEF TaskInv
  <2>3. ~Undisturbed'
    BY <1>9 DEF Undisturbed
  <2> QED BY <1>1, <1>2, <1>9, <2>1, <2>2, <2>3 DEF Closing, Alone
<1> QED BY <1>3, <1>4, <1>5, <1>6, <1>7, <1>8, <1>9, OtherFrame

-----------------------------------------------------------------------------
(* The induction.                                                          *)

LEMMA InitKeeps ==
  Init => TypeOK /\ InputInv
<1> SUFFICES ASSUME Init PROVE TypeOK /\ InputInv
  OBVIOUS
<1>1. /\ renamed \in BOOLEAN /\ live \in BOOLEAN /\ closed \in BOOLEAN /\ final \in BOOLEAN
      /\ sessionOf \in [Name -> {None, 1}] /\ sessionOf["hashed"] = None
      /\ running = {sessionOf["payload"]} \ {None} /\ doomed = {}
      /\ conn = [c \in Slot |-> NoConn]
      /\ pending = <<>> /\ batch = <<>> /\ typed = 0
      /\ flush = [at |-> "idle", why |-> "send", c |-> None]
      /\ kill = [at |-> "none", c |-> None]
      /\ opener = [at |-> IF live THEN "start" ELSE "none", c |-> None]
      /\ faults = 0 /\ meddled = FALSE /\ read = [k \in 1..MaxInputs |-> 0]
  BY DEF Init
<1>2. NoConn \in Connection /\ NoConn.sent = <<>> /\ NoConn.srv = "closed" /\ NoConn.reply = "none"
  <2>1. <<>> \in Seq(Nat)
    OBVIOUS
  <2> QED BY <2>1 DEF NoConn, Connection, Name
<1>3. TypeOK
  <2>1. sessionOf \in [Name -> Session \cup {None}] /\ running \subseteq Session
    BY <1>1, SessionAssumption DEF Name
  <2>2. pending \in Seq(1..typed) /\ batch \in Seq(1..typed)
    BY <1>1
  <2>3. conn \in [Slot -> Connection]
    BY <1>1, <1>2
  <2>4. flush \in [at : {"idle", "take", "detach"} \cup DOMAIN Request,
                   why : {"send", "again", "capture"}, c : Slot \cup {None}]
    BY <1>1
  <2>5. /\ kill \in [at : {"none", "call", "done"}, c : Slot \cup {None}]
        /\ opener \in [at : {"none", "start", "open", "ended"}, c : Slot \cup {None}]
    BY <1>1
  <2>6. typed \in 0..MaxInputs /\ faults \in 0..MaxFaults
    BY <1>1, BoundsAssumption
  <2>7. read \in [1..MaxInputs -> Nat] /\ meddled \in BOOLEAN
    BY <1>1
  <2>8. \A task \in {flush, kill, opener} : task.c = None
    BY <1>1
  <2> QED BY <1>1, <2>1, <2>2, <2>3, <2>4, <2>5, <2>6, <2>7, <2>8 DEF TypeOK
<1>4. \A c \in Slot : conn[c] = NoConn
  BY <1>1
<1>5. ConnInv
  BY <1>2, <1>4 DEF ConnInv
<1>6. TaskInv /\ FlushInv
  BY <1>1 DEF TaskInv, FlushInv
<1>7. QueueInv
  BY <1>1 DEF QueueInv, Behind
<1>8. \A c \in Slot : \A k : ~Carries(c, k)
  BY <1>2, <1>4 DEF Carries
<1>9. CountInv
  BY <1>1, <1>8 DEF CountInv, Sent
<1>10. CalmInv
  BY <1>1, <1>2, <1>4, <1>8 DEF CalmInv, Sent, Name
<1> QED BY <1>3, <1>5, <1>6, <1>7, <1>9, <1>10 DEF InputInv

(* The daemon keeps the invariants.                                        *)
LEMMA DaemonStepKeeps ==
  ASSUME TypeOK, InputInv, DaemonStep
  PROVE  TypeOK' /\ InputInv'
<1>1. /\ UNCHANGED serveFrame /\ ConnInv' /\ Kept
  BY DaemonFrame DEF InputInv
<1>2. TypeOK' /\ TaskInv'
  BY <1>1, DaemonType, DaemonTask DEF InputInv
<1>3. UNCHANGED <<flush, batch, pending, typed>>
  BY <1>1 DEF serveFrame, flushVars
<1>4. FlushInv' /\ QueueInv' /\ Behind' = Behind
  BY <1>3 DEF InputInv, FlushInv, QueueInv, Behind
<1>5. CountInv'
  <2>1. NoneNew
    BY <1>1 DEF Kept, NoneNew
  <2>2. CASE read' = read
    BY <1>3, <1>4, <2>1, <2>2, CountKept DEF InputInv
  <2>3. CASE read' # read
    <3>1. PICK c \in Slot : ReadInput(c)
      BY <2>3 DEF DaemonStep, ServeStep, Serve, List, KillRead, KillAnswer, NotFound, Create,
         Attach, Fault, Greet, SendScreen, ReadEof, Leave, OutputFails, Dropped, ProgramEnds,
         Sweep, DaemonEnds, historyVars
    <3> QED BY <1>1, <2>3, <3>1, CountRead DEF InputInv
  <2> QED BY <2>2, <2>3
<1>6. CalmInv'
  BY DaemonCalm DEF InputInv
<1> QED BY <1>1, <1>2, <1>4, <1>5, <1>6 DEF InputInv

LEMMA StepKeeps ==
  ASSUME TypeOK, InputInv, [Next]_vars
  PROVE  TypeOK' /\ InputInv'
<1>1. CASE DaemonStep
  BY <1>1, DaemonStepKeeps
<1>2. CASE FlushAction
  BY <1>2, FlushTypeTask, FlushQueue, FlushCount, FlushCalm DEF InputInv
<1>3. CASE OtherAction
  BY <1>3, OtherKeeps DEF InputInv
<1>4. CASE UNCHANGED vars
  <2>1. /\ UNCHANGED <<sessionOf, running, doomed, conn, renamed, live, closed, final>>
        /\ UNCHANGED <<pending, flush, batch, typed, kill, opener, faults, read, meddled>>
    BY <1>4 DEF vars, daemonVars, paneVars, flushVars, historyVars
  <2>2. TypeOK'
    BY <2>1 DEF TypeOK
  <2>3. ConnInv' /\ TaskInv' /\ FlushInv' /\ QueueInv'
    BY <2>1 DEF InputInv, ConnInv, TaskInv, FlushInv, QueueInv, Behind
  <2>4. NoneNew /\ Behind' = Behind
    BY <2>1 DEF NoneNew, Carries, Behind
  <2>5. CountInv'
    BY <2>1, <2>4, CountKept DEF InputInv
  <2>6. CalmInv'
    BY <2>1 DEF InputInv, CalmInv, Undisturbed, Sent, Carries
  <2> QED BY <2>2, <2>3, <2>5, <2>6 DEF InputInv
<1>5. DaemonStep \/ FlushAction \/ OtherAction \/ UNCHANGED vars
  BY DEF Next, DaemonStep, ServeStep, FlushAction, OtherAction
<1> QED BY <1>1, <1>2, <1>3, <1>4, <1>5

(* Every reachable state has its types: the connections, the map and the   *)
(* queue, and each call reads from a connection that it holds open.        *)
THEOREM TypeCorrect == Spec => []TypeOK
<1>1. Init => TypeOK /\ InputInv
  BY InitKeeps
<1>2. TypeOK /\ InputInv /\ [Next]_vars => (TypeOK /\ InputInv)'
  BY StepKeeps
<1> QED BY <1>1, <1>2, PTL DEF Spec

(* The induction that InputOnce rests on.                                  *)
THEOREM InputCorrect == Spec => []InputInv
<1>1. Init => TypeOK /\ InputInv
  BY InitKeeps
<1>2. TypeOK /\ InputInv /\ [Next]_vars => (TypeOK /\ InputInv)'
  BY StepKeeps
<1> QED BY <1>1, <1>2, PTL DEF Spec

(* An input is read once, for any number of connections, sessions, inputs  *)
(* and failures (flush_terminal_inputs).                                   *)
THEOREM InputReadOnce == Spec => []InputOnce
<1>1. TypeOK /\ InputInv => InputOnce
  <2> SUFFICES ASSUME TypeOK, InputInv, NEW k \in DOMAIN read
               PROVE  read[k] <= 2 /\ (~meddled /\ opener.at = "none" => read[k] <= 1)
    BY DEF InputOnce
  <2>1. Sent(k, 2) /\ (Undisturbed => Sent(k, 1))
    BY DEF InputInv, CountInv, CalmInv
  <2> QED BY <2>1 DEF Sent, Undisturbed
<1> QED BY <1>1, TypeCorrect, InputCorrect, PTL

-----------------------------------------------------------------------------
(* What an alarm needs.  A stranger is a client of somebody else that has  *)
(* not been served yet.                                                    *)

Stray(c) == conn[c].srv = "first" /\ c \notin {flush.c, kill.c}
Coming == opener.at = "start" \/ \E c \in Slot : Stray(c)

\* There is one stranger at most; the flush has the call its place says; and
\* a pane with a live terminal has none.
StrangerInv ==
  /\ \A c, d \in Slot : Stray(c) /\ Stray(d) => c = d
  /\ opener.at \in {"none", "start"} => ~\E c \in Slot : Stray(c)
  /\ flush.c # None /\ conn[flush.c].srv = "first" =>
       /\ flush.at \in DOMAIN Request /\ conn[flush.c].req = Request[flush.at]
       /\ conn[flush.c].name = IF flush.why = "send" THEN "payload" ELSE Hashed
  /\ flush.at \in {"send", "detach"} => flush.why # "capture"
  /\ live => flush.at = "idle"

\* The sessions, until something ends one.
KeptInv ==
  /\ doomed = {} /\ \A n \in Name : sessionOf[n] \in running \cup {None}
  /\ \A c \in Slot :
       /\ conn[c].srv # "dropping"
       /\ conn[c].srv \in {"greet", "screen", "relay"} => conn[c].session \in running
       /\ conn[c].reply = "error" => conn[c].srv = "closed"
  /\ ~live /\ opener.at # "none" => sessionOf["payload"] # None

\* When the connection of a first attempt is evicted or closed, no stranger is
\* still to come; if none came at all, it closed for want of the session.
FirstInv ==
  flush.why = "send" /\ flush.c # None =>
    /\ conn[flush.c].evicted \/ conn[flush.c].srv = "closed" => ~Coming
    /\ conn[flush.c].srv = "closed" /\ opener.at = "none" => sessionOf["payload"] = None

\* The second meets no stranger, and finds or creates the session.
SecondInv ==
  flush.why = "again" =>
    /\ ~Coming
    /\ flush.at \in {"send", "detach"} => sessionOf[Hashed] # None
    /\ flush.c # None =>
         /\ ~conn[flush.c].evicted
         /\ flush.at \in {"create", "send", "detach"} => conn[flush.c].srv # "closed"
         /\ flush.at = "create" /\ conn[flush.c].srv # "first" => sessionOf[Hashed] # None
         /\ flush.at = "list" =>
              /\ conn[flush.c].srv \in {"first", "closed"}
              /\ conn[flush.c].srv = "closed" =>
                   /\ conn[flush.c].reply \in {"yes", "no"}
                   /\ conn[flush.c].reply = "yes" => sessionOf[Hashed] # None

AlarmInv == StrangerInv /\ (~meddled => KeptInv /\ FirstInv /\ SecondInv)

(* No stranger comes from the daemon.                                      *)
LEMMA StrangerServed ==
  ASSUME TypeOK, ConnInv, StrangerInv, DaemonStep
  PROVE  StrangerInv'
<1>1. UNCHANGED serveFrame /\ DaemonMoves
  BY DaemonFrame
<1>2. UNCHANGED <<flush, kill, opener, live, renamed>>
  BY <1>1 DEF serveFrame, flushVars, paneVars
<1>3. ASSUME NEW d \in Slot, conn'[d].srv = "first"
      PROVE  conn[d].srv = "first" /\ conn'[d].req = conn[d].req /\ conn'[d].name = conn[d].name
  BY <1>1, <1>3 DEF DaemonMoves, Same, MovedOn
<1>4. \A d \in Slot : Stray(d)' => Stray(d)
  BY <1>2, <1>3 DEF Stray
<1>5. flush.c \in Slot \cup {None}
  BY DEF TypeOK
<1>6. Hashed' = Hashed
  BY <1>2 DEF Hashed, NameOf
<1> QED BY <1>2, <1>3, <1>4, <1>5, <1>6 DEF StrangerInv

\* The daemon serves connection c, of which nobody has ended the session.
Turn(c) ==
  /\ conn' \in [Slot -> Connection]
  /\ conn[c].srv # "closed" /\ conn'[c].srv \in {"greet", "screen", "relay", "closed"}
  /\ conn'[c].reply = "error" => conn'[c].srv = "closed"
  /\ \A d \in Slot \ {c} : Same(d)
  /\ conn[c].srv # "first" \/ conn[c].req \notin {"open", "attach"} =>
       \A d \in Slot \ {c} : conn'[d].evicted = conn[d].evicted
  /\ doomed' = {} /\ running \subseteq running'
  /\ \A n \in Name : /\ sessionOf'[n] \in running' \cup {None}
                     /\ sessionOf[n] # None => sessionOf'[n] # None
  /\ conn[c].srv # "first" \/ conn[c].req # "open" => sessionOf' = sessionOf
  /\ conn'[c].srv # "closed" => conn'[c].session \in running'

\* What becomes of a call that is waiting.
Reached(c) ==
  LET n == conn[c].name
  IN /\ conn'[c].evicted => conn[c].evicted
     /\ conn[c].srv = "first" /\ conn[c].req = "list" =>
          /\ conn'[c].srv = "closed" /\ conn'[c].reply \in {"yes", "no"}
          /\ conn'[c].reply = "yes" => sessionOf'[n] # None
     /\ conn[c].srv = "first" /\ conn[c].req = "attach" =>
          conn'[c].srv # "closed" \/ (sessionOf[n] = None /\ sessionOf' = sessionOf)
     /\ conn[c].srv = "first" /\ conn[c].req = "open" =>
          conn'[c].srv # "closed" /\ sessionOf'[n] # None
     /\ conn[c].srv # "first" =>
          /\ conn'[c].srv # "closed" \/ conn[c].evicted \/ (conn[c].sent # <<>> /\ Head(conn[c].sent) = Detach)
          /\ sessionOf' = sessionOf

LEMMA ServedFields ==
  ASSUME TypeOK, NEW c \in Slot, NEW r \in Connection, Served(c, r)
  PROVE  /\ conn' \in [Slot -> Connection] /\ \A d \in Slot \ {c} : Same(d) /\ conn'[d] = conn[d]
         /\ conn'[c].srv = r.srv /\ conn'[c].session = IF r.srv = "closed" THEN None ELSE r.session
         /\ conn'[c].evicted = (r.evicted /\ r.srv # "closed")
         /\ conn'[c].reply = IF r.open THEN r.reply ELSE "none"
<1>1. conn' = [conn EXCEPT ![c] = Tidy(r)] /\ conn \in [Slot -> Connection]
  BY DEF Served, TypeOK
<1>2. conn' \in [Slot -> Connection] /\ conn'[c] = Tidy(r) /\ \A d \in Slot \ {c} : conn'[d] = conn[d]
  BY <1>1, TidyFields
<1> QED BY <1>2, TidyFields DEF Same

(* A task of the daemon takes one turn, without a session that comes or goes. *)
LEMMA QuietTurn ==
  ASSUME TypeOK, ConnInv, KeptInv, NEW c \in Slot, NEW r \in Connection, Served(c, r),
         conn[c].srv # "closed", r.srv \in {"greet", "screen", "relay", "closed"},
         r.reply = "error" => r.srv = "closed",
         r.srv # "closed" => r.session \in running,
         UNCHANGED <<sessionOf, running, doomed>>
  PROVE  Turn(c)
<1>1. /\ conn' \in [Slot -> Connection] /\ \A d \in Slot \ {c} : Same(d) /\ conn'[d] = conn[d]
      /\ conn'[c].srv = r.srv /\ conn'[c].session = IF r.srv = "closed" THEN None ELSE r.session
      /\ conn'[c].reply = IF r.open THEN r.reply ELSE "none"
  BY ServedFields
<1> QED BY <1>1 DEF Turn, KeptInv

LEMMA DaemonTurns ==
  ASSUME TypeOK, ConnInv, KeptInv, ~meddled', DaemonStep
  PROVE  ~meddled /\ \E c \in Slot : Turn(c) /\ (conn[c].open => Reached(c))
<1>0. /\ meddled \in BOOLEAN /\ conn \in [Slot -> Connection]
      /\ \A c \in Slot : conn[c] \in Connection /\ conn[c].name \in Name
      /\ \A n \in Name : sessionOf[n] \in Session \cup {None}
  BY DEF TypeOK, Connection
<1>1. ~meddled
  BY <1>0 DEF DaemonStep, ServeStep, Serve, List, KillRead, KillAnswer, NotFound, Create, Attach,
     Fault, Greet, SendScreen, ReadInput, ReadEof, Leave, OutputFails, Dropped, ProgramEnds,
     Sweep, DaemonEnds, historyVars
<1>2. PICK c \in Slot : ServeStep(c) /\ ~Fault(c)
  <2>1. ~\E s \in Session : Dropped(s) \/ ProgramEnds(s)
    BY DEF Dropped, ProgramEnds, KeptInv
  <2>2. ~Sweep
    BY DEF Sweep, KeptInv
  <2>3. ~DaemonEnds /\ \A c \in Slot : ~Fault(c)
    BY DEF DaemonEnds, Fault
  <2> QED BY <2>1, <2>2, <2>3 DEF DaemonStep
<1> DEFINE n == conn[c].name
           s == sessionOf[n]
<1>3. ASSUME NEW at \in Ats
      PROVE  /\ At(c, at) \in Connection /\ At(c, at).srv = at
             /\ At(c, at).open = conn[c].open /\ At(c, at).reply = conn[c].reply
             /\ At(c, at).session = conn[c].session /\ At(c, at).evicted = conn[c].evicted
             /\ \A reply \in Replies :
                  /\ Answered(c, at, reply) \in Connection /\ Answered(c, at, reply).srv = at
                  /\ Answered(c, at, reply).open = conn[c].open
                  /\ Answered(c, at, reply).reply = reply
                  /\ Answered(c, at, reply).session = conn[c].session
                  /\ Answered(c, at, reply).evicted = conn[c].evicted
  BY <1>0, AtFields
<1>4. conn[c].srv = "first" => conn[c].reply = "none" /\ ~conn[c].evicted
  BY DEF ConnInv
<1>5. conn[c].srv \in {"greet", "screen", "relay"} => conn[c].session \in running /\ conn[c].reply # "error"
  BY DEF KeptInv
<1>6. n \in Name /\ s \in running \cup {None} /\ None \notin Session /\ running \subseteq Session
  BY <1>0, SessionAssumption DEF KeptInv, TypeOK, None
<1>7. CASE List(c)
  <2> DEFINE reply == IF s = None THEN "no" ELSE "yes"
             r == Answered(c, "closed", reply)
  <2>1. /\ conn[c].srv = "first" /\ conn[c].req = "list" /\ Served(c, r)
        /\ UNCHANGED <<sessionOf, running, doomed>>
    BY <1>7 DEF List, daemonVars
  <2>2. r \in Connection /\ r.srv = "closed" /\ r.reply = reply /\ r.open = conn[c].open /\ ~r.evicted
    BY <1>3, <1>4, <2>1 DEF Ats, Replies
  <2> HIDE DEF r
  <2>3. Turn(c)
    BY <2>1, <2>2, QuietTurn
  <2>4. /\ conn'[c].srv = "closed" /\ (conn[c].open => conn'[c].reply = reply) /\ ~conn'[c].evicted
    BY <2>1, <2>2, ServedFields
  <2> QED BY <1>1, <2>1, <2>3, <2>4 DEF Reached
<1>8. CASE KillRead(c)
  <2>1. /\ conn[c].srv = "first" /\ conn[c].req = "kill" /\ s = None
        /\ Served(c, Answered(c, "closed", "error")) /\ doomed' = doomed /\ running' = running
        /\ sessionOf' = [sessionOf EXCEPT ![n] = None]
    BY <1>8 DEF KillRead
  <2>2. sessionOf' = sessionOf
    BY <1>6, <2>1 DEF TypeOK
  <2> DEFINE r == Answered(c, "closed", "error")
  <2>3. r \in Connection /\ r.srv = "closed" /\ r.reply = "error" /\ r.open = conn[c].open /\ ~r.evicted
    BY <1>3, <1>4, <2>1 DEF Ats, Replies
  <2>4. Served(c, r)
    BY <2>1
  <2> HIDE DEF r
  <2>5. Turn(c)
    BY <2>1, <2>2, <2>3, <2>4, QuietTurn
  <2>6. ~conn'[c].evicted
    BY <2>3, <2>4, ServedFields
  <2> QED BY <1>1, <2>1, <2>5, <2>6 DEF Reached
<1>9. CASE KillAnswer(c)
  BY <1>9 DEF KillAnswer, KeptInv
<1>10. CASE NotFound(c)
  <2> DEFINE r == Answered(c, "closed", "error")
  <2>1. /\ conn[c].srv = "first" /\ conn[c].req = "attach" /\ s = None /\ Served(c, r)
        /\ UNCHANGED <<sessionOf, running, doomed>>
    BY <1>10 DEF NotFound, daemonVars
  <2>2. r \in Connection /\ r.srv = "closed" /\ r.reply = "error" /\ r.open = conn[c].open /\ ~r.evicted
    BY <1>3, <1>4, <2>1 DEF Ats, Replies
  <2> HIDE DEF r
  <2>3. Turn(c)
    BY <2>1, <2>2, QuietTurn
  <2>4. ~conn'[c].evicted
    BY <2>1, <2>2, ServedFields
  <2> QED BY <1>1, <2>1, <2>3, <2>4 DEF Reached
<1>11. CASE Create(c)
  <2>1. PICK t \in Session : /\ sessionOf' = [sessionOf EXCEPT ![n] = t]
                             /\ running' = running \cup {t}
                             /\ Served(c, [At(c, "greet") EXCEPT !.session = t])
    BY <1>11 DEF Create
  <2> DEFINE r == [At(c, "greet") EXCEPT !.session = t]
  <2>2. conn[c].srv = "first" /\ conn[c].req = "open" /\ s = None /\ doomed' = doomed
    BY <1>11 DEF Create
  <2>3. /\ r \in Connection /\ r.srv = "greet" /\ r.reply = "none" /\ ~r.evicted /\ r.session = t
    BY <1>0, <1>4, <2>2 DEF At, Connection
  <2>4. Served(c, r)
    BY <2>1
  <2> HIDE DEF r
  <2>5. /\ conn' \in [Slot -> Connection] /\ \A d \in Slot \ {c} : Same(d) /\ conn'[d] = conn[d]
        /\ conn'[c].srv = "greet" /\ conn'[c].session = t /\ ~conn'[c].evicted /\ conn'[c].reply = "none"
    BY <2>3, <2>4, ServedFields
  <2>6. /\ \A m \in Name : sessionOf'[m] = IF m = n THEN t ELSE sessionOf[m]
        /\ t # None
    BY <1>6, <2>1 DEF TypeOK
  <2>7. \A m \in Name : sessionOf'[m] \in running' \cup {None} /\ (sessionOf[m] # None => sessionOf'[m] # None)
    BY <2>1, <2>6 DEF KeptInv
  <2>8. doomed' = {} /\ running \subseteq running' /\ conn'[c].session \in running'
    BY <2>1, <2>2, <2>5 DEF KeptInv
  <2>9. Turn(c)
    BY <2>2, <2>5, <2>7, <2>8 DEF Turn
  <2> QED BY <1>1, <1>6, <2>2, <2>5, <2>6, <2>9 DEF Reached
<1>12. CASE Attach(c)
  <2> DEFINE r == [At(c, "greet") EXCEPT !.session = s]
  <2>1. /\ conn[c].srv = "first" /\ conn[c].req \in {"open", "attach"} /\ s # None
        /\ conn' = [Evicting(conn, {s}) EXCEPT ![c] = Tidy(r)]
        /\ UNCHANGED <<sessionOf, running, doomed>>
    BY <1>12 DEF Attach, daemonVars
  <2>2. /\ r \in Connection /\ r.srv = "greet" /\ r.reply = "none" /\ ~r.evicted /\ r.session = s
    BY <1>0, <1>4, <2>1 DEF At, Connection
  <2> HIDE DEF r
  <2>3. /\ conn' \in [Slot -> Connection] /\ conn'[c] = Tidy(r)
        /\ \A d \in Slot \ {c} : conn'[d] = Evicting(conn, {s})[d]
    <3>1. Evicting(conn, {s}) \in [Slot -> Connection] /\ Tidy(r) \in Connection
      BY <1>0, <2>2, EvictingType, TidyFields
    <3> QED BY <2>1, <3>1
  <2>4. /\ conn'[c].srv = "greet" /\ conn'[c].session = s /\ ~conn'[c].evicted /\ conn'[c].reply # "error"
    <3>1. /\ Tidy(r).srv = "greet" /\ Tidy(r).session = s /\ ~Tidy(r).evicted
          /\ Tidy(r).reply \in {"none", r.reply}
      BY <2>2, TidyFields
    <3> QED BY <2>2, <2>3, <3>1
  <2>5. ASSUME NEW d \in Slot \ {c} PROVE Same(d)
    <3>1. /\ conn'[d].open = conn[d].open /\ conn'[d].srv = conn[d].srv
          /\ conn'[d].req = conn[d].req /\ conn'[d].name = conn[d].name
          /\ conn'[d].sent = conn[d].sent
          /\ conn'[d].session = conn[d].session /\ conn'[d].reply = conn[d].reply
          /\ conn'[d].evicted = (conn[d].evicted \/ conn[d].session \in {s})
      BY <1>0, <2>3, EvictingFields
    <3> QED BY <2>1, <3>1 DEF Same
  <2>6. Turn(c)
    BY <1>6, <2>1, <2>3, <2>4, <2>5 DEF Turn, KeptInv
  <2> QED BY <1>1, <2>1, <2>4, <2>6 DEF Reached
<1>13. CASE Greet(c) \/ SendScreen(c)
  <2>1. PICK r \in Connection :
          /\ Served(c, r) /\ r.srv \in {"screen", "relay", "closed"} /\ r.reply # "error"
          /\ r.session = conn[c].session /\ r.evicted = conn[c].evicted
          /\ conn[c].open => r.srv # "closed"
    <3>1. CASE Greet(c) /\ conn[c].open
      BY <1>3, <3>1 DEF Greet, Ats, Replies
    <3>2. CASE SendScreen(c) /\ conn[c].open
      BY <1>3, <1>5, <3>2 DEF SendScreen, Ats
    <3>3. CASE ~conn[c].open
      BY <1>3, <1>5, <1>13, <3>3 DEF Greet, SendScreen, Ats
    <3> QED BY <1>13, <3>1, <3>2, <3>3
  <2>2. conn[c].srv \in {"greet", "screen"} /\ UNCHANGED <<sessionOf, running, doomed>>
    BY <1>13 DEF Greet, SendScreen, daemonVars
  <2>3. Turn(c)
    BY <1>5, <2>1, <2>2, QuietTurn
  <2>4. /\ conn'[c].evicted => conn[c].evicted
        /\ conn'[c].srv = r.srv
    BY <2>1, ServedFields
  <2> QED BY <1>1, <2>1, <2>2, <2>3, <2>4 DEF Reached
<1>14. CASE (ReadInput(c) /\ Head(conn[c].sent) = Detach) \/ ReadEof(c) \/ Leave(c) \/ OutputFails(c)
  <2>1. /\ conn[c].srv = "relay" /\ UNCHANGED <<sessionOf, running, doomed>> /\ Served(c, At(c, "closed"))
        /\ ~conn[c].open \/ conn[c].evicted \/ (conn[c].sent # <<>> /\ Head(conn[c].sent) = Detach)
    BY <1>5, <1>14 DEF ReadInput, ReadEof, Leave, OutputFails, daemonVars
  <2> DEFINE r == At(c, "closed")
  <2>2. r \in Connection /\ r.srv = "closed"
    BY <1>3 DEF Ats
  <2>3. Served(c, r)
    BY <2>1
  <2> HIDE DEF r
  <2>4. Turn(c)
    BY <2>1, <2>2, <2>3, QuietTurn
  <2>5. ~conn'[c].evicted
    BY <2>2, <2>3, ServedFields
  <2> QED BY <1>1, <2>1, <2>4, <2>5 DEF Reached
<1>15. CASE ReadInput(c) /\ Head(conn[c].sent) # Detach
  <2>1. /\ conn[c].srv = "relay" /\ conn' = [conn EXCEPT ![c].sent = Tail(@)]
        /\ UNCHANGED <<sessionOf, running, doomed>>
    BY <1>15 DEF ReadInput, daemonVars
  <2>2. /\ conn' \in [Slot -> Connection]
    BY <1>2, DaemonConn DEF DaemonMoves
  <2>3. /\ \A d \in Slot \ {c} : conn'[d] = conn[d]
        /\ conn'[c].srv = conn[c].srv /\ conn'[c].reply = conn[c].reply
        /\ conn'[c].session = conn[c].session /\ conn'[c].evicted = conn[c].evicted
    BY <1>0, <2>1 DEF Connection
  <2>4. Turn(c)
    BY <1>5, <1>6, <2>1, <2>2, <2>3 DEF Turn, Same, KeptInv
  <2> QED BY <1>1, <2>1, <2>3, <2>4 DEF Reached
<1> QED BY <1>1, <1>2, <1>7, <1>8, <1>9, <1>10, <1>11, <1>12, <1>13, <1>14, <1>15 DEF ServeStep, Serve

(* The flush does not detach before it hangs up.                           *)
LEMMA NoDetach ==
  ASSUME TypeOK, TaskInv, FlushInv, flush.c # None, conn[flush.c].sent # <<>>
  PROVE  Head(conn[flush.c].sent) # Detach
<1>1. batch # <<>> /\ conn[flush.c].sent = <<Head(batch)>>
  BY DEF TaskInv, FlushInv
<1>2. batch \in Seq(1..typed) /\ typed \in Nat
  BY BoundsAssumption DEF TypeOK
<1>3. PICK h \in 1..typed : h = Head(batch)
  BY <1>1, <1>2, NextInput
<1>4. Head(<<h>>) = h /\ h # 0
  BY <1>2, <1>3, Words
<1> QED BY <1>1, <1>3, <1>4 DEF Detach

(* What the daemon does with the calls of the flush, while nothing ends a  *)
(* session.                                                                *)
LEMMA DaemonAlarm ==
  ASSUME TypeOK, ConnInv, TaskInv, FlushInv, CalmInv, StrangerInv, KeptInv, FirstInv, SecondInv,
         ~meddled', DaemonStep
  PROVE  KeptInv' /\ FirstInv' /\ SecondInv'
<1>1. ~meddled
  BY DaemonTurns
<1>2. PICK c \in Slot : Turn(c) /\ (conn[c].open => Reached(c))
  BY DaemonTurns
<1>3. UNCHANGED serveFrame
  BY DaemonFrame
<1>4. /\ UNCHANGED <<flush, kill, opener, live, renamed>> /\ Hashed' = Hashed
      /\ Hashed \in Name /\ "payload" \in Name
  BY <1>3 DEF serveFrame, flushVars, paneVars, Hashed, NameOf, Name
<1>5. /\ flush.c \in Slot \cup {None}
      /\ flush.c # None => conn[flush.c].open
      /\ conn[c] \in Connection
  BY DEF TypeOK
<1>6. ASSUME NEW d \in Slot, conn'[d].srv = "first" PROVE d # c /\ conn[d].srv = "first"
  BY <1>2, <1>6 DEF Turn, Same
<1>7. Coming' => Coming
  BY <1>4, <1>6 DEF Coming, Stray
<1>8. Stray(c) => ~Coming'
  BY <1>4, <1>6 DEF Coming, Stray, StrangerInv
<1>9. \A n \in Name : sessionOf[n] # None => sessionOf'[n] # None
  BY <1>2 DEF Turn
<1>10. KeptInv'
  <2>1. doomed' = {} /\ (\A n \in Name : sessionOf'[n] \in running' \cup {None})
        /\ (~live' /\ opener'.at # "none" => sessionOf'["payload"] # None)
    BY <1>2, <1>4, <1>9 DEF Turn, KeptInv
  <2>2. ASSUME NEW d \in Slot
        PROVE  /\ conn'[d].srv # "dropping"
               /\ conn'[d].srv \in {"greet", "screen", "relay"} => conn'[d].session \in running'
               /\ conn'[d].reply = "error" => conn'[d].srv = "closed"
    <3>1. CASE d = c
      BY <1>2, <3>1 DEF Turn
    <3>2. CASE d # c
      BY <1>2, <3>2 DEF Turn, Same, KeptInv
    <3> QED BY <3>1, <3>2
  <2> QED BY <2>1, <2>2 DEF KeptInv
\* Somebody else's turn.
<1>11. ASSUME flush.c \in Slot \ {c}
       PROVE  /\ conn'[flush.c].srv = conn[flush.c].srv /\ conn'[flush.c].reply = conn[flush.c].reply
              /\ (conn'[flush.c].evicted <=> conn[flush.c].evicted) \/ (Coming /\ ~Coming')
              /\ opener.at = "none" => sessionOf' = sessionOf
  <2>1. conn[c].srv = "first" => Stray(c) \/ conn[c].req = "kill"
    BY <1>11, SlotAssumption DEF Stray, TaskInv, None
  <2>2. opener.at = "none" => ~Stray(c)
    BY DEF StrangerInv
  <2>3. Stray(c) => Coming
    BY DEF Coming
  <2>4. /\ conn'[flush.c].srv = conn[flush.c].srv /\ conn'[flush.c].reply = conn[flush.c].reply
    BY <1>2, <1>11 DEF Turn, Same
  <2>5. CASE Stray(c)
    BY <1>8, <2>2, <2>3, <2>4, <2>5
  <2>6. CASE ~Stray(c)
    <3>1. conn'[flush.c].evicted = conn[flush.c].evicted /\ sessionOf' = sessionOf
      BY <1>2, <1>11, <2>1, <2>6 DEF Turn
    <3> QED BY <2>4, <3>1
  <2> QED BY <2>5, <2>6
\* The turn of the flush's call.
<1>12. ASSUME flush.c = c
       PROVE  /\ Reached(c)
              /\ conn[c].srv # "first" /\ conn'[c].srv = "closed" => conn[c].evicted
              /\ conn[c].srv = "first" => /\ flush.at \in DOMAIN Request /\ conn[c].req = Request[flush.at]
                                          /\ conn[c].name = IF flush.why = "send" THEN "payload" ELSE Hashed
              /\ flush.c # None
  <2>1. flush.c # None
    BY <1>12, SlotAssumption DEF None
  <2>2. Reached(c)
    BY <1>2, <1>5, <1>12, <2>1
  <2>3. conn[c].sent # <<>> => Head(conn[c].sent) # Detach
    BY <1>12, <2>1, NoDetach
  <2> QED BY <1>12, <2>1, <2>2, <2>3 DEF Reached, StrangerInv
<1>13. FirstInv'
  <2> SUFFICES ASSUME flush.why = "send", flush.c # None, conn'[flush.c].evicted \/ conn'[flush.c].srv = "closed"
               PROVE  /\ ~Coming'
                      /\ conn'[flush.c].srv = "closed" /\ opener.at = "none" => sessionOf'["payload"] = None
    BY <1>4 DEF FirstInv
  <2>1. /\ conn[flush.c].evicted \/ conn[flush.c].srv = "closed" => ~Coming
        /\ conn[flush.c].srv = "closed" /\ opener.at = "none" => sessionOf["payload"] = None
    BY DEF FirstInv
  <2>2. opener.at = "none" => ~conn[flush.c].evicted
    BY <1>1 DEF CalmInv, Undisturbed
  <2>3. CASE flush.c # c
    <3>1. flush.c \in Slot \ {c}
      BY <1>5, <2>3
    <3>2. /\ conn'[flush.c].srv = conn[flush.c].srv
          /\ (conn'[flush.c].evicted <=> conn[flush.c].evicted) \/ (Coming /\ ~Coming')
          /\ opener.at = "none" => sessionOf' = sessionOf
      BY <1>11, <3>1
    <3> QED BY <1>7, <2>1, <2>2, <3>2
  <2>4. CASE flush.c = c
    <3>1. CASE conn[c].srv # "first"
      <4>1. conn[c].evicted
        BY <1>12, <2>4, <3>1 DEF Reached
      <4> QED BY <1>7, <2>1, <2>2, <2>4, <4>1
    <3>2. CASE conn[c].srv = "first"
      <4>1. ~conn[c].evicted
        BY <3>2 DEF ConnInv
      <4>2. flush.at = "send" /\ conn[c].req = "attach" /\ conn[c].name = "payload"
        BY <1>12, <2>4, <3>2 DEF FlushInv, Request
      <4>3. sessionOf["payload"] = None /\ sessionOf' = sessionOf
        BY <1>12, <2>4, <3>2, <4>1, <4>2 DEF Reached
      <4>4. ~live
        BY <4>2 DEF StrangerInv
      <4>5. opener.at = "none"
        BY <4>3, <4>4 DEF KeptInv
      <4>6. ~Coming
        BY <4>5 DEF Coming, StrangerInv
      <4> QED BY <1>7, <4>3, <4>6
    <3> QED BY <3>1, <3>2
  <2> QED BY <2>3, <2>4
<1>14. SecondInv'
  <2> SUFFICES ASSUME flush.why = "again" PROVE SecondInv'
    BY <1>4 DEF SecondInv
  <2>1. /\ ~Coming /\ ~Coming'
        /\ flush.at \in {"send", "detach"} => sessionOf[Hashed] # None /\ sessionOf'[Hashed] # None
    BY <1>4, <1>7, <1>9 DEF SecondInv
  <2>2. ASSUME flush.c # None
        PROVE  /\ ~conn'[flush.c].evicted
               /\ flush.at \in {"create", "send", "detach"} => conn'[flush.c].srv # "closed"
               /\ flush.at = "create" /\ conn'[flush.c].srv # "first" => sessionOf'[Hashed] # None
               /\ flush.at = "list" =>
                    /\ conn'[flush.c].srv \in {"first", "closed"}
                    /\ conn'[flush.c].srv = "closed" =>
                         /\ conn'[flush.c].reply \in {"yes", "no"}
                         /\ conn'[flush.c].reply = "yes" => sessionOf'[Hashed] # None
    <3>1. /\ ~conn[flush.c].evicted
          /\ flush.at \in {"create", "send", "detach"} => conn[flush.c].srv # "closed"
          /\ flush.at = "create" /\ conn[flush.c].srv # "first" => sessionOf[Hashed] # None
          /\ flush.at = "list" =>
               /\ conn[flush.c].srv \in {"first", "closed"}
               /\ conn[flush.c].srv = "closed" =>
                    /\ conn[flush.c].reply \in {"yes", "no"}
                    /\ conn[flush.c].reply = "yes" => sessionOf[Hashed] # None
      BY <2>2 DEF SecondInv
    <3>2. CASE flush.c # c
      <4>1. flush.c \in Slot \ {c}
        BY <1>5, <2>2, <3>2
      <4>2. /\ conn'[flush.c].srv = conn[flush.c].srv /\ conn'[flush.c].reply = conn[flush.c].reply
            /\ conn'[flush.c].evicted <=> conn[flush.c].evicted
        BY <1>11, <2>1, <4>1
      <4> QED BY <1>4, <1>9, <3>1, <4>2
    <3>3. CASE flush.c = c
      <4>1. ~conn'[c].evicted
        BY <1>12, <3>1, <3>3 DEF Reached
      <4>2. CASE conn[c].srv # "first"
        <5>1. conn'[c].srv \notin {"closed", "first"} /\ flush.at # "list"
          BY <1>2, <1>12, <3>1, <3>3, <4>2 DEF Turn
        <5> QED BY <1>4, <1>9, <3>1, <3>3, <4>1, <4>2, <5>1
      <4>3. CASE conn[c].srv = "first"
        <5>1. conn[c].name = Hashed /\ flush.at \in {"send", "list", "create", "capture"}
          BY <1>12, <3>3, <4>3 DEF Request
        <5>2. CASE flush.at = "list"
          <6>1. conn[c].req = "list"
            BY <1>12, <3>3, <4>3, <5>2 DEF Request
          <6> QED BY <1>12, <3>3, <4>1, <4>3, <5>1, <5>2, <6>1 DEF Reached
        <5>3. CASE flush.at = "create"
          <6>1. conn[c].req = "open"
            BY <1>12, <3>3, <4>3, <5>3 DEF Request
          <6> QED BY <1>12, <3>3, <4>1, <4>3, <5>1, <5>3, <6>1 DEF Reached
        <5>4. CASE flush.at = "send"
          <6>1. conn[c].req = "attach" /\ sessionOf[Hashed] # None
            BY <1>12, <2>1, <3>3, <4>3, <5>4 DEF Request
          <6> QED BY <1>12, <3>3, <4>1, <4>3, <5>1, <5>4, <6>1 DEF Reached
        <5>5. CASE flush.at = "capture"
          BY <3>3, <4>1, <5>5
        <5> QED BY <5>1, <5>2, <5>3, <5>4, <5>5
      <4> QED BY <4>2, <4>3
    <3> QED BY <3>2, <3>3
  <2> QED BY <1>4, <2>1, <2>2 DEF SecondInv
<1> QED BY <1>10, <1>13, <1>14

(* A call of the flush ends after it was read, and only for a first attempt *)
(* that failed, or for a session that is there, does it try again.         *)
LEMMA FlushNext ==
  ASSUME TypeOK, ConnInv, TaskInv, FlushInv, StrangerInv, FlushEnds
  PROVE  /\ conn[flush.c].srv # "first"
         /\ flush'.at \in {"send", "detach"} => flush'.why # "capture"
         /\ flush'.why = "again" =>
              \/ flush.why = "send" /\ flush'.at = "list" /\ (conn[flush.c].reply = "error" \/ conn[flush.c].srv = "closed")
              \/ flush.why = "again" /\ flush'.at # "send"
              \/ flush.why = "again" /\ flush.at = "list" /\ conn[flush.c].reply = "yes"
              \/ flush.why = "again" /\ flush.at = "create" /\ conn[flush.c].reply = "connected"
<1>0. flush.c \in Slot
  BY FlushHangsUp
<1>1. CASE SendDetach
  <2>1. flush' \in {[at |-> "list", why |-> "capture", c |-> None], [at |-> "send", why |-> "send", c |-> None]}
        /\ flush.at = "detach"
    BY <1>1 DEF SendDetach, Go
  <2>2. flush'.why # "again" /\ (flush'.at = "send" => flush'.why = "send") /\ flush'.at # "detach"
    BY <2>1
  <2>3. conn[flush.c].srv # "first"
    BY <2>1 DEF StrangerInv, TaskInv, Request
  <2> QED BY <2>1, <2>2, <2>3
<1>2. CASE SendFails
  <2>1. /\ conn[flush.c].reply = "error" \/ conn[flush.c].srv = "closed"
        /\ flush.at \in {"send", "detach"}
        /\ IF flush.why = "send" THEN flush' = [at |-> "list", why |-> "again", c |-> None]
                                 ELSE flush' = [at |-> "take", why |-> "send", c |-> None]
    BY <1>2 DEF SendFails, Go, Refused, Writable, Waiting
  <2>2. conn[flush.c].srv # "first"
    BY <1>0, <2>1 DEF ConnInv
  <2> QED BY <2>1, <2>2
<1>3. CASE Listed
  <2>1. /\ conn[flush.c].reply \in {"yes", "no"} /\ flush.at = "list"
        /\ flush' = IF conn[flush.c].reply = "yes"
                    THEN [at |-> IF flush.why = "again" THEN "send" ELSE "capture", why |-> flush.why, c |-> None]
                    ELSE [at |-> "create", why |-> flush.why, c |-> None]
    BY <1>3 DEF Listed, Ensured, Go, Waiting
  <2>2. conn[flush.c].srv # "first"
    BY <1>0, <2>1 DEF ConnInv
  <2> QED BY <2>1, <2>2
<1>4. CASE Created
  <2>1. /\ conn[flush.c].reply = "connected" /\ flush.at = "create"
        /\ flush' = [at |-> IF flush.why = "again" THEN "send" ELSE "capture", why |-> flush.why, c |-> None]
    BY <1>4 DEF Created, Connected, Ensured, Go, Waiting
  <2>2. conn[flush.c].srv # "first"
    BY <1>0, <2>1 DEF ConnInv
  <2> QED BY <2>1, <2>2
<1>5. CASE EnsureFails \/ Captured
  <2>1. /\ flush' = [at |-> "take", why |-> "send", c |-> None]
        /\ conn[flush.c].reply \in {"error", "connected"} \/ conn[flush.c].srv = "closed"
    BY <1>5 DEF EnsureFails, Captured, Connected, Refused, Writable, Go
  <2>2. conn[flush.c].srv # "first"
    BY <1>0, <2>1 DEF ConnInv
  <2> QED BY <2>1, <2>2
<1> QED BY <1>1, <1>2, <1>3, <1>4, <1>5 DEF FlushEnds

(* The flush moves on.                                                     *)
LEMMA StrangerFlush ==
  ASSUME TypeOK, ConnInv, TaskInv, FlushInv, StrangerInv, FlushAction
  PROVE  StrangerInv' /\ (Coming' => Coming)
<1>1. UNCHANGED <<kill, opener, live, renamed>>
  BY DEF FlushAction, FlushStep, Type, FlushTake, FlushDial, SendInput, SendDetach, SendFails,
     Listed, Created, EnsureFails, Captured, flushFrame, historyVars, paneVars
<1>2. Hashed' = Hashed /\ ~live
  BY <1>1 DEF Hashed, NameOf, FlushAction, FlushStep, Type, FlushTake, FlushDial, SendInput, SendDetach,
     SendFails, Listed, Created, EnsureFails, Captured, Waiting, StrangerInv, Request
<1>3. flush.c \in Slot \cup {None} /\ kill.c \in Slot \cup {None} /\ None \notin Slot
  BY SlotAssumption DEF TypeOK, None
\* What is left to show of each step.
<1>4. ASSUME \A d \in Slot : Stray(d)' => Stray(d),
             flush'.at \in {"send", "detach"} => flush'.why # "capture",
             flush'.c # None /\ conn'[flush'.c].srv = "first" =>
               /\ flush'.at \in DOMAIN Request /\ conn'[flush'.c].req = Request[flush'.at]
               /\ conn'[flush'.c].name = IF flush'.why = "send" THEN "payload" ELSE Hashed
      PROVE  StrangerInv' /\ (Coming' => Coming)
  BY <1>1, <1>2, <1>4 DEF StrangerInv, Coming
<1>5. CASE Type
  <2>1. conn' = conn /\ flush' = IF flush.at = "idle" THEN [flush EXCEPT !.at = "take"] ELSE flush
    BY <1>5 DEF Type
  <2>2. flush'.c = flush.c /\ (flush' = flush \/ (flush'.at = "take" /\ flush.c = None))
    BY <2>1 DEF TypeOK, FlushInv
  <2>3. \A d \in Slot : Stray(d)' => Stray(d)
    BY <1>1, <2>1, <2>2 DEF Stray
  <2>4. /\ flush'.at \in {"send", "detach"} => flush'.why # "capture"
        /\ flush'.c # None /\ conn'[flush'.c].srv = "first" =>
               /\ flush'.at \in DOMAIN Request /\ conn'[flush'.c].req = Request[flush'.at]
               /\ conn'[flush'.c].name = IF flush'.why = "send" THEN "payload" ELSE Hashed
    BY <2>1, <2>2 DEF StrangerInv
  <2> QED BY <1>4, <2>3, <2>4
<1>6. CASE FlushTake
  <2>1. /\ conn' = conn /\ flush.c = None /\ flush'.c = None /\ flush'.why = "send"
    BY <1>6 DEF FlushTake, FlushInv
  <2>2. \A d \in Slot : Stray(d)' => Stray(d)
    BY <1>1, <2>1 DEF Stray
  <2> QED BY <1>4, <2>1, <2>2
<1>7. CASE FlushDial
  <2>1. flush.c = None /\ flush.at \in {"send", "list", "create", "capture"}
    BY <1>7, FlushOpens
  <2>2. PICK c \in Slot :
          /\ Dialed(c, Request[flush.at], IF flush.why = "send" THEN "payload" ELSE Hashed)
          /\ flush' = [flush EXCEPT !.c = c]
    BY <1>7 DEF FlushDial
  <2>3. flush'.c = c /\ flush'.at = flush.at /\ flush'.why = flush.why
    BY <2>2 DEF TypeOK
  <2>4. /\ \A d \in Slot \ {c} : conn'[d] = conn[d]
        /\ conn'[c].req = Request[flush.at]
        /\ conn'[c].name = IF flush.why = "send" THEN "payload" ELSE Hashed
    BY <2>2 DEF Dialed, NoConn, TypeOK
  <2>5. \A d \in Slot : Stray(d)' => Stray(d)
    BY <1>1, <1>3, <2>1, <2>3, <2>4 DEF Stray
  <2>6. flush.at \in DOMAIN Request
    BY <2>1 DEF Request
  <2> QED BY <1>4, <2>1, <2>3, <2>4, <2>5, <2>6 DEF StrangerInv
<1>8. CASE SendInput
  <2>1. /\ flush.at = "send" /\ flush' = [flush EXCEPT !.at = "detach"]
        /\ flush.c \in Slot /\ conn[flush.c].srv \in {"screen", "relay"}
        /\ conn'[flush.c] = [conn[flush.c] EXCEPT !.sent = <<Head(batch)>>]
        /\ \A d \in Slot \ {flush.c} : conn'[d] = conn[d]
    BY <1>8, FlushSends
  <2>2. /\ flush'.c = flush.c /\ flush'.why = flush.why
        /\ conn'[flush.c].srv = conn[flush.c].srv
    BY <2>1 DEF TypeOK, Connection
  <2>3. \A d \in Slot : Stray(d)' => Stray(d)
    BY <1>1, <2>1, <2>2 DEF Stray
  <2> QED BY <1>4, <2>1, <2>2, <2>3 DEF StrangerInv
<1>9. CASE FlushEnds
  <2>1. flush.c \in Slot /\ Closing(flush.c) /\ flush'.c = None
    BY <1>9, FlushHangsUp
  <2>2. conn[flush.c].srv # "first" /\ (flush'.at \in {"send", "detach"} => flush'.why # "capture")
    BY <1>9, FlushNext
  <2>3. \A d \in Slot : Stray(d)' => Stray(d)
    BY <1>1, <1>3, <2>1, <2>2 DEF Stray, Closing, Alone
  <2> QED BY <1>4, <2>1, <2>2, <2>3
<1> QED BY <1>5, <1>6, <1>7, <1>8, <1>9, FlushCases

\* The connections after a step of the application: one may be new, and one
\* may be hung up.
Dialing ==
  \A d \in Slot :
    \/ conn'[d].srv = "first"
    \/ /\ conn'[d].srv = conn[d].srv /\ conn'[d].reply \in {conn[d].reply, "none"}
       /\ conn[d].srv # "closed" => conn'[d].session = conn[d].session

LEMMA KeptDialing ==
  ASSUME TypeOK, ConnInv', KeptInv, Dialing, UNCHANGED <<sessionOf, running, doomed, live>>,
         opener'.at # "none" /\ ~live => sessionOf["payload"] # None
  PROVE  KeptInv'
<1>1. ASSUME NEW d \in Slot
      PROVE  /\ conn'[d].srv # "dropping"
             /\ conn'[d].srv \in {"greet", "screen", "relay"} => conn'[d].session \in running
             /\ conn'[d].reply = "error" => conn'[d].srv = "closed"
  BY DEF Dialing, KeptInv, ConnInv
<1> QED BY <1>1 DEF KeptInv

LEMMA FlushAlarm ==
  ASSUME TypeOK, ConnInv, TaskInv, FlushInv, StrangerInv, KeptInv, FirstInv, SecondInv, FlushAction
  PROVE  KeptInv' /\ FirstInv' /\ SecondInv'
<1>1. UNCHANGED <<sessionOf, running, doomed, kill, opener, live, renamed>>
  BY DEF FlushAction, FlushStep, Type, FlushTake, FlushDial, SendInput, SendDetach, SendFails,
     Listed, Created, EnsureFails, Captured, flushFrame, historyVars, paneVars, daemonVars
<1>2. Hashed' = Hashed
  BY <1>1 DEF Hashed, NameOf
<1>3. (Coming' => Coming) /\ ConnInv'
  BY StrangerFlush, FlushTypeTask
<1>4. flush.c \in Slot \cup {None}
  BY DEF TypeOK
<1>5. Dialing => KeptInv'
  BY <1>1, <1>3, KeptDialing DEF KeptInv
<1>6. CASE Type
  <2>1. conn' = conn /\ flush' = IF flush.at = "idle" THEN [flush EXCEPT !.at = "take"] ELSE flush
    BY <1>6 DEF Type
  <2>2. flush' = flush \/ (flush'.c = None /\ flush'.why = "send")
    BY <2>1 DEF TypeOK, FlushInv
  <2>3. Dialing
    BY <2>1 DEF Dialing
  <2>4. FirstInv' /\ SecondInv'
    BY <1>1, <1>2, <1>3, <2>1, <2>2 DEF FirstInv, SecondInv
  <2> QED BY <1>5, <2>3, <2>4
<1>7. CASE FlushTake
  <2>1. /\ conn' = conn /\ flush'.c = None /\ flush'.why = "send"
    BY <1>7 DEF FlushTake
  <2> QED BY <1>5, <2>1 DEF Dialing, FirstInv, SecondInv
<1>8. CASE FlushDial
  <2>1. flush.c = None
    BY <1>8, FlushOpens
  <2>2. PICK c \in Slot : Opening(c, Request[flush.at]) /\ flush' = [flush EXCEPT !.c = c]
    BY <1>8, FlushOpens
  <2>3. flush'.c = c /\ flush'.at = flush.at /\ flush'.why = flush.why
    BY <2>2 DEF TypeOK
  <2>4. conn'[c].srv = "first" /\ ~conn'[c].evicted /\ \A d \in Slot \ {c} : conn'[d] = conn[d]
    BY <2>2 DEF Opening, Alone
  <2>5. Dialing
    BY <2>4 DEF Dialing
  <2>6. FirstInv'
    BY <2>3, <2>4 DEF FirstInv
  <2>7. SecondInv'
    BY <1>1, <1>2, <1>3, <2>3, <2>4 DEF SecondInv
  <2> QED BY <1>5, <2>5, <2>6, <2>7
<1>9. CASE SendInput
  <2>1. /\ flush.at = "send" /\ flush' = [flush EXCEPT !.at = "detach"]
        /\ flush.c \in Slot /\ conn[flush.c].srv \in {"screen", "relay"}
        /\ conn'[flush.c] = [conn[flush.c] EXCEPT !.sent = <<Head(batch)>>]
        /\ \A d \in Slot \ {flush.c} : conn'[d] = conn[d]
    BY <1>9, FlushSends
  <2>2. /\ flush'.c = flush.c /\ flush'.why = flush.why /\ flush'.at = "detach"
        /\ conn'[flush.c].srv = conn[flush.c].srv /\ conn'[flush.c].evicted = conn[flush.c].evicted
        /\ conn'[flush.c].session = conn[flush.c].session /\ conn'[flush.c].reply = conn[flush.c].reply
    BY <2>1 DEF TypeOK, Connection
  <2>3. Dialing
    BY <2>1, <2>2 DEF Dialing
  <2>4. FirstInv'
    BY <1>1, <1>3, <2>1, <2>2 DEF FirstInv
  <2>5. SecondInv'
    BY <1>1, <1>2, <1>3, <2>1, <2>2 DEF SecondInv
  <2> QED BY <1>5, <2>3, <2>4, <2>5
<1>10. CASE FlushEnds
  <2>1. flush.c \in Slot /\ flush.c # None /\ Closing(flush.c) /\ flush'.c = None
        /\ flush'.at \in {"send", "list", "create", "capture", "take"}
    BY <1>10, FlushHangsUp
  <2>2. Dialing
    BY <2>1 DEF Dialing, Closing, Alone
  <2>3. FirstInv'
    BY <2>1 DEF FirstInv
  <2>4. ASSUME flush'.why = "again"
        PROVE  ~Coming /\ (flush'.at = "send" => sessionOf[Hashed] # None)
    <3>1. conn[flush.c].srv # "first"
      BY <1>10, FlushNext
    <3>2. CASE flush.why = "send" /\ flush'.at = "list"
               /\ (conn[flush.c].reply = "error" \/ conn[flush.c].srv = "closed")
      BY <2>1, <3>2 DEF KeptInv, FirstInv
    <3>3. CASE flush.why = "again" /\ flush'.at # "send"
      BY <3>3 DEF SecondInv
    <3>4. CASE flush.why = "again" /\ flush.at = "list" /\ conn[flush.c].reply = "yes"
      BY <2>1, <3>1, <3>4 DEF SecondInv
    <3>5. CASE flush.why = "again" /\ flush.at = "create" /\ conn[flush.c].reply = "connected"
      BY <2>1, <3>1, <3>5 DEF SecondInv
    <3> QED BY <1>10, <2>4, <3>2, <3>3, <3>4, <3>5, FlushNext
  <2>5. SecondInv'
    BY <1>1, <1>2, <1>3, <2>1, <2>4 DEF SecondInv
  <2> QED BY <1>5, <2>2, <2>3, <2>5
<1> QED BY <1>6, <1>7, <1>8, <1>9, <1>10, FlushCases

(* The end of the pane and the stranger.                                   *)

\* A step that brings no stranger and leaves the flush and its call alone.
LEMMA AlarmStays ==
  ASSUME TypeOK, ConnInv', StrangerInv, KeptInv, FirstInv, SecondInv,
         UNCHANGED <<sessionOf, running, doomed, flush, live, renamed>>,
         flush.c # None => conn'[flush.c] = conn[flush.c], Dialing,
         Coming' => Coming, opener'.at = "none" <=> opener.at = "none"
  PROVE  KeptInv' /\ FirstInv' /\ SecondInv'
<1>1. Hashed' = Hashed
  BY DEF Hashed, NameOf
<1>2. KeptInv'
  BY KeptDialing DEF KeptInv
<1>3. FirstInv'
  BY DEF FirstInv
<1>4. SecondInv'
  BY <1>1 DEF SecondInv
<1> QED BY <1>2, <1>3, <1>4

LEMMA OtherAlarm ==
  ASSUME TypeOK, InputInv, AlarmInv, OtherAction
  PROVE  AlarmInv'
<1>1. ConnInv /\ TaskInv /\ FlushInv /\ CalmInv /\ StrangerInv
      /\ (~meddled => KeptInv /\ FirstInv /\ SecondInv)
  BY DEF InputInv, AlarmInv
<1>2. ConnInv'
  BY OtherKeeps DEF InputInv
<1>3. UNCHANGED <<sessionOf, running, doomed, flush, live, renamed>> /\ Hashed' = Hashed
  BY <1>1, OtherFrame DEF daemonVars, flushVars, Hashed, NameOf
<1>4. /\ flush.c \in Slot \cup {None} /\ kill.c \in Slot \cup {None} /\ opener.c \in Slot \cup {None}
      /\ \A task \in {flush, kill, opener} : task.c # None => conn[task.c].open
      /\ None \notin Slot
  BY SlotAssumption DEF TypeOK, None
\* What is left to show of a step.
<1>5. ASSUME flush.c # None => conn'[flush.c] = conn[flush.c], Dialing,
             \A d \in Slot : Stray(d)' => Stray(d),
             opener'.at \in {"none", "start"} => opener' = opener,
             opener'.at = "none" <=> opener.at = "none", meddled' = meddled
      PROVE  AlarmInv'
  <2>1. StrangerInv'
    BY <1>1, <1>3, <1>5 DEF StrangerInv
  <2>2. Coming' => Coming
    BY <1>5 DEF Coming
  <2>3. ~meddled' => KeptInv' /\ FirstInv' /\ SecondInv'
    BY <1>1, <1>2, <1>3, <1>5, <2>2, AlarmStays
  <2> QED BY <2>1, <2>3 DEF AlarmInv
<1>6. CASE Close
  <2>1. conn' = conn /\ kill'.c = kill.c /\ opener' = opener /\ meddled' = meddled
    BY <1>6 DEF Close, historyVars, TypeOK
  <2>2. Dialing /\ (\A d \in Slot : Stray(d)' => Stray(d))
    BY <1>3, <2>1 DEF Dialing, Stray
  <2> QED BY <1>5, <2>1, <2>2
<1>7. CASE KillDial
  <2>1. /\ kill.c = None /\ opener' = opener /\ meddled' = meddled /\ typed' = typed
    BY <1>7 DEF KillDial, killFrame, flushVars, historyVars
  <2>2. PICK c \in Slot : Dialed(c, "kill", KillName) /\ kill' = [kill EXCEPT !.c = c]
    BY <1>7 DEF KillDial
  <2>3. KillName \in Name
    BY DEF KillName, Hashed, NameOf, Name
  <2>4. Opening(c, "kill") /\ kill'.c = c
    BY <1>1, <2>1, <2>2, <2>3, Dials DEF TypeOK
  <2>5. Dialing /\ (\A d \in Slot : Stray(d)' => Stray(d))
    BY <1>3, <1>4, <2>1, <2>4 DEF Dialing, Stray, Opening, Alone
  <2>6. flush.c # None => conn'[flush.c] = conn[flush.c]
    BY <1>4, <2>4 DEF Opening, Alone
  <2> QED BY <1>5, <2>1, <2>5, <2>6
<1>8. CASE KillEnds
  <2>1. /\ kill.c \in Slot /\ opener' = opener /\ meddled' = meddled /\ typed' = typed
        /\ conn' = HungUp(kill.c) /\ conn[kill.c].srv = "closed" /\ kill'.c = None
    BY <1>4, <1>8 DEF KillEnds, killFrame, flushVars, historyVars, Writable
  <2>2. Closing(kill.c)
    BY <1>1, <2>1, HangsUp
  <2>3. Dialing /\ (\A d \in Slot : Stray(d)' => Stray(d))
    BY <1>3, <1>4, <2>1, <2>2 DEF Dialing, Stray, Closing, Alone
  <2>4. flush.c # None => conn'[flush.c] = conn[flush.c]
    BY <1>1, <1>4, <2>1, <2>2 DEF Closing, Alone, TaskInv
  <2> QED BY <1>5, <2>1, <2>3, <2>4
<1>9. CASE StrangerStarts
  <2>1. /\ conn' = conn /\ kill' = kill /\ opener.at = "none" /\ opener'.at = "start"
        /\ meddled' = (meddled \/ sessionOf["payload"] = None \/ flush.why = "again")
    BY <1>9 DEF StrangerStarts, openFrame, TypeOK
  <2>2. StrangerInv'
    BY <1>1, <1>3, <2>1 DEF StrangerInv, Stray
  <2>3. ASSUME ~meddled' PROVE KeptInv' /\ FirstInv' /\ SecondInv'
    <3>1. ~meddled /\ sessionOf["payload"] # None /\ flush.why # "again"
      BY <2>1, <2>3
    <3>2. KeptInv'
      BY <1>1, <1>3, <2>1, <3>1 DEF KeptInv
    <3>3. flush.c # None /\ flush.why = "send" => ~conn[flush.c].evicted /\ conn[flush.c].srv # "closed"
      BY <1>1, <2>1, <3>1 DEF CalmInv, Undisturbed, FirstInv
    <3>4. FirstInv'
      BY <1>3, <2>1, <3>3 DEF FirstInv
    <3>5. SecondInv'
      BY <1>3, <3>1 DEF SecondInv
    <3> QED BY <3>2, <3>4, <3>5
  <2> QED BY <2>2, <2>3 DEF AlarmInv
<1>10. CASE OpenDial
  <2>1. opener.at = "start" /\ UNCHANGED <<kill, meddled, typed>>
    BY <1>10 DEF OpenDial, openFrame, flushVars
  <2>2. PICK c \in Slot : Dialed(c, "open", Hashed) /\ opener' = [at |-> "open", c |-> c]
    BY <1>10 DEF OpenDial
  <2>3. Hashed \in Name
    BY DEF Hashed, NameOf, Name
  <2>4. Opening(c, "open") /\ opener'.at = "open"
    BY <1>1, <2>1, <2>2, <2>3, Dials
  <2>5. flush.c # None => flush.c # c /\ conn'[flush.c] = conn[flush.c]
    BY <1>4, <2>4 DEF Opening, Alone
  <2>6. \A d \in Slot : Stray(d)' => d = c
    BY <1>1, <1>3, <2>1, <2>4 DEF Stray, StrangerInv, Opening, Alone
  <2>7. StrangerInv'
    BY <1>1, <1>3, <2>4, <2>5, <2>6 DEF StrangerInv
  <2>8. Dialing
    BY <2>4 DEF Dialing, Opening, Alone
  <2>9. Coming
    BY <2>1 DEF Coming
  <2>10. ~meddled' => KeptInv' /\ FirstInv' /\ SecondInv'
    BY <1>1, <1>2, <1>3, <2>1, <2>4, <2>5, <2>8, <2>9, AlarmStays
  <2> QED BY <2>7, <2>10 DEF AlarmInv
<1>11. CASE OpenEnds \/ HangUp
  <2>1. /\ opener.at \in {"start", "open"} /\ UNCHANGED <<kill, meddled, typed>>
        /\ opener' = [at |-> "ended", c |-> None]
    BY <1>11 DEF OpenEnds, HangUp, Ended, openFrame, flushVars
  <2>2. conn' = conn \/ (opener.c \in Slot /\ opener.c # None /\ conn' = HungUp(opener.c))
    BY <1>1, <1>4, <1>11 DEF OpenEnds, HangUp, TaskInv
  <2>3. conn' = conn \/ (opener.c \in Slot /\ opener.c # None /\ Closing(opener.c))
    BY <1>1, <2>1, <2>2, HangsUp
  <2>4. Dialing /\ (\A d \in Slot : Stray(d)' => Stray(d))
    BY <1>3, <2>1, <2>3 DEF Dialing, Stray, Closing, Alone
  <2>5. flush.c # None => conn'[flush.c] = conn[flush.c]
    BY <1>1, <1>4, <2>3 DEF Closing, Alone, TaskInv
  <2> QED BY <1>5, <2>1, <2>4, <2>5
<1> QED BY <1>6, <1>7, <1>8, <1>9, <1>10, <1>11 DEF OtherAction

(* The induction.                                                          *)

LEMMA AlarmStep ==
  ASSUME TypeOK, InputInv, AlarmInv, [Next]_vars
  PROVE  AlarmInv'
<1>1. ConnInv /\ TaskInv /\ FlushInv /\ CalmInv /\ StrangerInv
      /\ (~meddled => KeptInv /\ FirstInv /\ SecondInv)
  BY DEF InputInv, AlarmInv
<1>2. CASE DaemonStep
  <2>1. ~meddled' => ~meddled
    BY <1>2 DEF DaemonStep, ServeStep, Serve, List, KillRead, KillAnswer, NotFound, Create, Attach,
       Fault, Greet, SendScreen, ReadInput, ReadEof, Leave, OutputFails, Dropped, ProgramEnds,
       Sweep, DaemonEnds, historyVars
  <2>2. StrangerInv'
    BY <1>1, <1>2, StrangerServed
  <2>3. ~meddled' => KeptInv' /\ FirstInv' /\ SecondInv'
    BY <1>1, <1>2, <2>1, DaemonAlarm
  <2> QED BY <2>2, <2>3 DEF AlarmInv
<1>3. CASE FlushAction
  <2>1. meddled' = meddled
    BY <1>3 DEF FlushAction, FlushStep, Type, FlushTake, FlushDial, SendInput, SendDetach, SendFails,
       Listed, Created, EnsureFails, Captured, flushFrame, historyVars
  <2>2. StrangerInv'
    BY <1>1, <1>3, StrangerFlush
  <2>3. ~meddled' => KeptInv' /\ FirstInv' /\ SecondInv'
    BY <1>1, <1>3, <2>1, FlushAlarm
  <2> QED BY <2>2, <2>3 DEF AlarmInv
<1>4. CASE OtherAction
  BY <1>4, OtherAlarm
<1>5. CASE UNCHANGED vars
  <2>1. UNCHANGED <<sessionOf, running, doomed, conn, renamed, live, flush, kill, opener, meddled>>
    BY <1>5 DEF vars, daemonVars, paneVars, flushVars, historyVars
  <2>2. Hashed' = Hashed /\ (Coming' <=> Coming) /\ \A d \in Slot : Stray(d)' <=> Stray(d)
    BY <2>1 DEF Hashed, NameOf, Coming, Stray
  <2>3. StrangerInv' /\ (KeptInv => KeptInv') /\ (FirstInv => FirstInv') /\ (SecondInv => SecondInv')
    BY <1>1, <2>1, <2>2 DEF StrangerInv, KeptInv, FirstInv, SecondInv
  <2> QED BY <1>1, <2>1, <2>3 DEF AlarmInv
<1> QED BY <1>2, <1>3, <1>4, <1>5 DEF Next, DaemonStep, ServeStep, FlushAction, OtherAction

LEMMA AlarmInit ==
  Init => AlarmInv
<1> SUFFICES ASSUME Init PROVE AlarmInv
  OBVIOUS
<1>1. /\ sessionOf \in [Name -> {None, 1}] /\ sessionOf["hashed"] = None /\ doomed = {}
      /\ running = {sessionOf["payload"]} \ {None}
      /\ \A c \in Slot : conn[c].srv = "closed" /\ conn[c].reply = "none"
      /\ flush = [at |-> "idle", why |-> "send", c |-> None]
      /\ opener.at = IF live THEN "start" ELSE "none"
  BY DEF Init, NoConn
<1>2. StrangerInv
  BY <1>1 DEF StrangerInv, Stray
<1>3. KeptInv
  BY <1>1 DEF KeptInv, Name
<1>4. FirstInv /\ SecondInv
  BY <1>1 DEF FirstInv, SecondInv
<1> QED BY <1>2, <1>3, <1>4 DEF AlarmInv

\* The invariant that NoFalseAlarm rests on.
THEOREM AlarmCorrect == Spec => []AlarmInv
<1>1. Init => AlarmInv
  BY AlarmInit
<1>2. TypeOK /\ InputInv /\ AlarmInv /\ [Next]_vars => AlarmInv'
  BY AlarmStep
<1> QED BY <1>1, <1>2, TypeCorrect, InputCorrect, PTL DEF Spec

\* The inputs are given up, with an error on the screen, only after a kill, a
\* failure, or more trouble than one retry makes up for: an attempt to send or
\* to ensure the session fails otherwise at most once (ensure_retach_session,
\* flush_terminal_inputs).
THEOREM AlarmsAreTrue == Spec => NoFalseAlarm
<1>1. TypeOK /\ InputInv /\ AlarmInv /\ [Next]_vars
      => [batch # <<>> /\ batch' = <<>> /\ flush'.at = "take" => meddled]_vars
  <2> SUFFICES ASSUME TypeOK, InputInv, AlarmInv, Next, batch # <<>>, batch' = <<>>, flush'.at = "take",
                      ~meddled
               PROVE  FALSE
    BY DEF vars
  <2>1. ConnInv /\ TaskInv /\ FlushInv /\ CalmInv /\ StrangerInv /\ KeptInv /\ FirstInv /\ SecondInv
    BY DEF InputInv, AlarmInv
  <2>2. FlushAction
    <3>1. ~DaemonStep
      BY DaemonFrame, <2>1 DEF serveFrame, flushVars
    <3>2. ~OtherAction
      BY OtherFrame, <2>1 DEF flushVars
    <3> QED BY <3>1, <3>2 DEF Next, DaemonStep, ServeStep, FlushAction, OtherAction
  <2>3. SendFails \/ EnsureFails
    <3>1. ~Type /\ ~FlushDial /\ ~SendInput /\ ~Listed /\ ~Created /\ ~Captured
      BY DEF Type, FlushDial, SendInput, Listed, Created, Captured
    <3>2. ~FlushTake
      BY <2>1 DEF FlushTake, FlushInv
    <3>3. ~SendDetach
      BY DEF SendDetach, Go
    <3> QED BY <2>2, <3>1, <3>2, <3>3 DEF FlushAction, FlushStep
  <2>4. flush.c \in Slot /\ flush.c # None
    BY <2>1, <2>3, FlushHangsUp DEF FlushEnds
  <2>5. conn[flush.c].reply = "error" => conn[flush.c].srv = "closed"
    BY <2>1, <2>4 DEF KeptInv
  <2>6. CASE SendFails
    <3>1. flush.at \in {"send", "detach"} /\ conn[flush.c].srv = "closed" /\ flush.why # "send"
      BY <2>5, <2>6 DEF SendFails, Go, Refused, Writable, Waiting
    <3>2. flush.why = "again"
      BY <2>1, <3>1 DEF StrangerInv, TypeOK
    <3> QED BY <2>1, <2>4, <3>1, <3>2 DEF SecondInv
  <2>7. CASE EnsureFails
    <3>1. /\ flush.at \in {"list", "create"} /\ conn[flush.c].srv = "closed"
          /\ conn[flush.c].reply \in {"error", "none"}
      BY <2>5, <2>7 DEF EnsureFails, Refused, Writable, Waiting
    <3>2. flush.why = "again"
      BY <2>1, <3>1 DEF FlushInv
    <3> QED BY <2>1, <2>4, <3>1, <3>2 DEF SecondInv
  <2> QED BY <2>3, <2>6, <2>7
<1> QED BY <1>1, AlarmCorrect, TypeCorrect, InputCorrect, PTL DEF Spec, NoFalseAlarm

-----------------------------------------------------------------------------
(* Launchers and daemons                                                   *)

USE DaemonStartAssumption

ServerMoves(s) == RunServer(s) \/ Terminate(s) \/ Crash(s)
LauncherGoes(l) == GiveUpEarly(l) \/ LaunchFails(l) \/ LauncherKilled(l)
LauncherStates == {"new", "lock", "again", "spawn", "poll", "wait", "ok", "failed", "killed"}
DaemonStates == {"new", "up", "gone"} \cup Starting \cup Stopping

\* What a launcher's steps have in common, but for Spawn: it moves, and of the
\* daemons nothing changes.
LauncherMoves(l) ==
  /\ DaemonsStay
  /\ launcher[l] \in {"new", "lock", "again", "spawn", "poll", "wait"}
  /\ \E at \in LauncherStates \ {"new", "poll"} : Enters(l, at)
  /\ mishaps' = mishaps \/ (Mishap)
  /\ loose => loose'

LEMMA LauncherFrame ==
  ASSUME LaunchTypeOK, NEW l \in Launchers, LauncherStep(l) \/ LauncherGoes(l)
  PROVE  Spawn(l) \/ LauncherMoves(l)
<1> USE DEF LauncherMoves, LauncherStates, Calm, LaunchTypeOK
<1>1. CASE FirstConnect(l) \/ TakeLock(l) \/ LockHeld(l) \/ DoubleCheck(l)
  BY <1>1 DEF FirstConnect, TakeLock, LockHeld, DoubleCheck
<1>2. CASE PollConnects(l)
  BY <1>2 DEF PollConnects
<1>3. CASE GiveUp(l)
  BY <1>3 DEF GiveUp, LetsGo
<1>4. CASE GiveUpEarly(l) \/ LaunchFails(l) \/ LauncherKilled(l)
  BY <1>4 DEF GiveUpEarly, LaunchFails, LauncherKilled, LetsGo
<1> QED BY <1>1, <1>2, <1>3, <1>4 DEF LauncherStep, LauncherGoes

LEMMA SpawnFrame ==
  ASSUME LaunchTypeOK, NEW l \in Launchers, Spawn(l)
  PROVE  \E s \in Daemons :
           /\ daemon[s] = "new" /\ daemon'[s] = "check"
           /\ daemon' = [daemon EXCEPT ![s] = "check"]
           /\ \A t \in Daemons : t # s => daemon'[t] = daemon[t]
  BY DEF Spawn, LaunchTypeOK

LEMMA ServerMovesFrame ==
  ASSUME LaunchTypeOK, NEW s \in Daemons, ServerMoves(s)
  PROVE  /\ LaunchersStay
         /\ \E at \in DaemonStates \ {"new", "check"} : Becomes(s, at)
         /\ \A t \in Daemons : t # s => daemon'[t] = daemon[t]
<1>1. LaunchersStay /\ \E at \in DaemonStates \ {"new", "check"} : Becomes(s, at)
  BY DEF ServerMoves, RunServer, CheckPath, Probe, RemoveStale, Bind, Listen, GuardRemoves,
     CloseListener, Terminate, Crash, DaemonStates, Starting, Stopping
<1>2. \A t \in Daemons : t # s => daemon'[t] = daemon[t]
  BY <1>1 DEF Becomes, LaunchTypeOK
<1> QED BY <1>1, <1>2

LEMMA LaunchTypeStep ==
  LaunchTypeOK /\ [LaunchNext]_launchVars => LaunchTypeOK'
<1> SUFFICES ASSUME LaunchTypeOK, [LaunchNext]_launchVars PROVE LaunchTypeOK'
  OBVIOUS
<1>1. CASE UNCHANGED launchVars
  BY <1>1 DEF launchVars, LaunchTypeOK
<1>2. ASSUME NEW l \in Launchers, LauncherMoves(l), lock' \in Locking \cup {Nothing}, loose' \in BOOLEAN,
             launcher'[l] \in {"lock", "again", "wait"} => l \in Locking
      PROVE  LaunchTypeOK'
  <2>1. /\ launcher' \in [Launchers -> LauncherStates]
        /\ \A k \in Launchers : k # l => launcher'[k] = launcher[k]
    BY <1>2 DEF LauncherMoves, LauncherStates, Enters, LaunchTypeOK
  <2>2. mishaps' \in 0..MaxMishaps
    BY <1>2 DEF LauncherMoves, Mishap, LaunchTypeOK
  <2> QED BY <1>2, <2>1, <2>2 DEF LauncherMoves, LauncherStates, DaemonsStay, LaunchTypeOK
<1>3. ASSUME NEW l \in Launchers, LauncherStep(l) \/ LauncherGoes(l), ~Spawn(l)
      PROVE  LaunchTypeOK'
  <2>1. LauncherMoves(l)
    BY <1>3, LauncherFrame
  <2>2. lock' \in Locking \cup {Nothing} /\ loose' \in BOOLEAN
    <3>1. CASE FirstConnect(l) \/ LockHeld(l) \/ DoubleCheck(l) \/ PollConnects(l)
      BY <3>1 DEF FirstConnect, LockHeld, DoubleCheck, PollConnects, Unlocks, Calm, LaunchTypeOK
    <3>2. CASE TakeLock(l)
      <4>1. lock' = l /\ loose' = loose /\ launcher[l] = "lock"
        BY <3>2 DEF TakeLock, Calm
      <4>2. l \in Locking
        BY <4>1 DEF LaunchTypeOK
      <4> QED BY <4>1, <4>2 DEF LaunchTypeOK
    <3>3. CASE GiveUp(l) \/ GiveUpEarly(l) \/ LaunchFails(l) \/ LauncherKilled(l)
      BY <3>3 DEF GiveUp, GiveUpEarly, LaunchFails, LauncherKilled, LetsGo, Unlocks, LaunchTypeOK
    <3> QED BY <1>3, <3>1, <3>2, <3>3 DEF LauncherStep, LauncherGoes
  <2>3. launcher'[l] \in {"lock", "again", "wait"} => l \in Locking
    <3>1. CASE FirstConnect(l)
      BY <3>1 DEF FirstConnect, Enters, LaunchTypeOK
    <3>2. CASE TakeLock(l) \/ LockHeld(l)
      BY <3>2 DEF TakeLock, LockHeld, LaunchTypeOK
    <3>3. CASE DoubleCheck(l) \/ PollConnects(l)
      BY <3>3 DEF DoubleCheck, PollConnects, Enters, LaunchTypeOK
    <3>4. CASE GiveUp(l) \/ GiveUpEarly(l) \/ LaunchFails(l) \/ LauncherKilled(l)
      BY <3>4 DEF GiveUp, GiveUpEarly, LaunchFails, LauncherKilled, Enters, LaunchTypeOK
    <3> QED BY <1>3, <3>1, <3>2, <3>3, <3>4 DEF LauncherStep, LauncherGoes
  <2> QED BY <1>2, <2>1, <2>2, <2>3
<1>4. ASSUME NEW l \in Launchers, Spawn(l)
      PROVE  LaunchTypeOK'
  <2>1. daemon' \in [Daemons -> DaemonStates]
    BY <1>4, SpawnFrame DEF LaunchTypeOK, DaemonStates, Starting
  <2>2. /\ launcher' = [launcher EXCEPT ![l] = "poll"] /\ UNCHANGED <<file, lock, mishaps>>
        /\ loose' \in BOOLEAN /\ raced' \in BOOLEAN
    BY <1>4 DEF Spawn, Enters, LaunchTypeOK
  <2>3. launcher' \in [Launchers -> LauncherStates]
        /\ \A k \in Launchers : k # l => launcher'[k] = launcher[k]
    BY <2>2 DEF LaunchTypeOK, LauncherStates
  <2>4. launcher'[l] = "poll"
    BY <2>2 DEF LaunchTypeOK
  <2> QED BY <2>1, <2>2, <2>3, <2>4 DEF LaunchTypeOK, DaemonStates, LauncherStates
<1>5. ASSUME NEW s \in Daemons, ServerMoves(s)
      PROVE  LaunchTypeOK'
  <2>1. daemon' \in [Daemons -> DaemonStates] /\ LaunchersStay
    BY <1>5, ServerMovesFrame DEF Becomes, LaunchTypeOK, DaemonStates
  <2>2. file' \in Daemons \cup {Nothing} /\ mishaps' \in 0..MaxMishaps
    BY <1>5 DEF ServerMoves, RunServer, CheckPath, Probe, RemoveStale, Bind, Listen, GuardRemoves,
       CloseListener, Terminate, Crash, Mishap, LaunchTypeOK
  <2> QED BY <2>1, <2>2 DEF LaunchersStay, history, LaunchTypeOK, DaemonStates
<1> QED BY <1>1, <1>3, <1>4, <1>5 DEF LaunchNext, LauncherGoes, ServerMoves

LEMMA LaunchTypeCorrect == LaunchSpec => []LaunchTypeOK
<1>1. ASSUME LaunchInit
      PROVE  LaunchTypeOK
  <2>1. daemon \in [Daemons -> DaemonStates]
    BY <1>1 DEF LaunchInit, DaemonStates
  <2>2. launcher \in [Launchers -> LauncherStates]
        /\ \A l \in Launchers : launcher[l] \notin {"lock", "again", "wait"}
    BY <1>1 DEF LaunchInit, LauncherStates
  <2>3. mishaps \in 0..MaxMishaps
    BY <1>1 DEF LaunchInit
  <2> QED BY <1>1, <2>1, <2>2, <2>3 DEF LaunchInit, LaunchTypeOK, DaemonStates, LauncherStates
<1> QED BY <1>1, LaunchTypeStep, PTL DEF LaunchSpec

\* Only a daemon that starts alone, or that owns the file, removes it.
StartsAlone == raced \/ StartInv

LEMMA NothingMoves ==
  ASSUME UNCHANGED <<file, daemon, raced>>
  PROVE  /\ Connects' = Connects /\ DaemonStarts' = DaemonStarts /\ NoneServes' = NoneServes
         /\ StartsAlone' = StartsAlone
BY DEF Connects, Listening, DaemonStarts, NoneServes, StartsAlone, StartInv

LEMMA StartAlone ==
  ASSUME LaunchTypeOK, StartInv, NEW s \in Daemons, ServerMoves(s), ~raced
  PROVE  StartInv'
<1>1. /\ \A t \in Daemons : t # s => daemon'[t] = daemon[t]
      /\ file \in Daemons \cup {Nothing} /\ Nothing \notin Daemons
      /\ daemon \in [Daemons -> DaemonStates]
  BY ServerMovesFrame DEF LaunchTypeOK, DaemonStates
<1>2. ASSUME NEW at, Becomes(s, at)
      PROVE  daemon'[s] = at
  BY <1>1, <1>2 DEF Becomes
<1> USE DEF StartInv, Starting, Stopping
<1>3. CASE CheckPath(s)
  <2>1. /\ daemon[s] = "check" /\ file' = file
        /\ daemon'[s] = IF file = Nothing THEN "bind" ELSE "probe"
    BY <1>2, <1>3 DEF CheckPath
  <2>2. file = Nothing => \A t \in Daemons : daemon[t] \notin {"up", "drain"}
    BY <1>1
  <2> QED BY <1>1, <2>1, <2>2
<1>4. CASE Probe(s)
  <2>1. /\ daemon[s] = "probe" /\ file' = file
        /\ daemon'[s] = IF Connects THEN "gone" ELSE "remove"
    BY <1>2, <1>4 DEF Probe
  <2>2. ~Connects => \A t \in Daemons : daemon[t] \notin {"up", "drain"}
    BY <1>1 DEF Connects, Listening
  <2> QED BY <1>1, <2>1, <2>2
<1>5. CASE RemoveStale(s)
  <2>1. daemon[s] = "remove" /\ file' = Nothing /\ daemon'[s] = "bind"
    BY <1>2, <1>5 DEF RemoveStale
  <2> QED BY <1>1, <2>1
<1>6. CASE Bind(s)
  <2>1. daemon[s] = "bind" /\ file' = s /\ daemon'[s] = "listen"
    BY <1>2, <1>6 DEF Bind
  <2> QED BY <1>1, <2>1
<1>7. CASE Listen(s)
  <2>1. daemon[s] = "listen" /\ file' = file /\ daemon'[s] = "up"
    BY <1>2, <1>7 DEF Listen
  <2> QED BY <1>1, <2>1
<1>8. CASE GuardRemoves(s)
  <2>1. daemon[s] = "drain" /\ file' = Nothing /\ daemon'[s] = "close"
    BY <1>2, <1>8 DEF GuardRemoves
  <2> QED BY <1>1, <2>1
<1>9. CASE Terminate(s)
  <2>1. daemon[s] = "up" /\ file' = file /\ daemon'[s] = "drain"
    BY <1>2, <1>9 DEF Terminate
  <2> QED BY <1>1, <2>1
<1>10. CASE CloseListener(s) \/ Crash(s)
  <2>1. file' = file /\ daemon'[s] = "gone"
    BY <1>2, <1>10 DEF CloseListener, Crash
  <2> QED BY <1>1, <2>1
<1> QED BY <1>3, <1>4, <1>5, <1>6, <1>7, <1>8, <1>9, <1>10 DEF ServerMoves, RunServer

LEMMA StartsAloneStep ==
  LaunchTypeOK /\ StartsAlone /\ [LaunchNext]_launchVars => StartsAlone'
<1> SUFFICES ASSUME LaunchTypeOK, StartsAlone, [LaunchNext]_launchVars PROVE StartsAlone'
  OBVIOUS
<1>1. CASE UNCHANGED launchVars
  BY <1>1, NothingMoves DEF launchVars
<1>2. ASSUME NEW l \in Launchers, LauncherMoves(l)
      PROVE  StartsAlone'
  BY <1>2, NothingMoves DEF LauncherMoves, DaemonsStay
<1>3. ASSUME NEW l \in Launchers, Spawn(l)
      PROVE  StartsAlone'
  <2>1. PICK s \in Daemons : /\ daemon[s] = "new" /\ daemon'[s] = "check"
                             /\ \A t \in Daemons : t # s => daemon'[t] = daemon[t]
    BY <1>3, SpawnFrame
  <2>2. raced' = (raced \/ DaemonStarts) /\ file' = file
    BY <1>3 DEF Spawn
  <2>3. CASE raced \/ DaemonStarts
    BY <2>2, <2>3 DEF StartsAlone
  <2>4. CASE ~raced /\ ~DaemonStarts
    BY <2>1, <2>2, <2>4 DEF StartsAlone, StartInv, DaemonStarts, Starting
  <2> QED BY <2>3, <2>4
<1>4. ASSUME NEW s \in Daemons, ServerMoves(s)
      PROVE  StartsAlone'
  <2>1. raced' = raced
    BY <1>4, ServerMovesFrame DEF LaunchersStay, history
  <2> QED BY <1>4, <2>1, StartAlone DEF StartsAlone
<1> QED BY <1>1, <1>2, <1>3, <1>4, LauncherFrame DEF LaunchNext, LauncherGoes, ServerMoves

LEMMA StartsAloneCorrect == LaunchSpec => []StartsAlone
<1>1. LaunchInit => StartsAlone
  BY DEF LaunchInit, StartsAlone, StartInv, Starting
<1> QED BY <1>1, StartsAloneStep, LaunchTypeCorrect, PTL DEF LaunchSpec

\* A daemon that serves keeps the file at the path, whatever starts, ends or
\* crashes around it (run_server, SocketGuard), for launchers that lock or not, as
\* long as no two daemons start together.
THEOREM ReachableEver == LaunchSpec => []Reachable
<1>1. StartsAlone => Reachable
  BY DEF StartsAlone, StartInv, Reachable
<1> QED BY <1>1, StartsAloneCorrect, PTL

\* So at most one daemon serves.
THEOREM OneDaemonEver == LaunchSpec => []OneDaemon
<1>1. StartsAlone => OneDaemon
  BY DEF StartsAlone, StartInv, OneDaemon
<1> QED BY <1>1, StartsAloneCorrect, PTL

-----------------------------------------------------------------------------
(* The lock                                                                *)

\* If none accepts a connection, none serves or drains; a socket that accepts
\* connections belongs to one that does.
LEMMA RefusedNone ==
  ASSUME LaunchTypeOK, StartInv
  PROVE  Connects <=> ~NoneServes
BY DEF LaunchTypeOK, StartInv, Connects, Listening, NoneServes, Stopping

LEMMA LockStep ==
  LaunchTypeOK /\ StartsAlone /\ LockInv /\ [LaunchNext]_launchVars => LockInv'
<1> SUFFICES ASSUME LaunchTypeOK, StartsAlone, LockInv, [LaunchNext]_launchVars PROVE LockInv'
  OBVIOUS
<1>1. CASE UNCHANGED launchVars
  BY <1>1, NothingMoves DEF launchVars, LockInv, Holds
<1>2. ASSUME NEW l \in Launchers, Spawn(l)
      PROVE  LockInv'
  <2>1. PICK s \in Daemons : /\ daemon[s] = "new" /\ daemon'[s] = "check"
                             /\ \A t \in Daemons : t # s => daemon'[t] = daemon[t]
    BY <1>2, SpawnFrame
  <2>2. /\ raced' = (raced \/ DaemonStarts) /\ loose' = (loose \/ l \notin Locking)
        /\ UNCHANGED lock /\ launcher[l] = "spawn"
        /\ launcher'[l] = "poll" /\ \A k \in Launchers : k # l => launcher'[k] = launcher[k]
    BY <1>2 DEF Spawn, Enters, LaunchTypeOK
  <2>3. \A k \in Locking : launcher'[k] \in {"again", "spawn", "poll"} <=> lock' = k
    BY <2>2 DEF LockInv, LaunchTypeOK
  <2>4. CASE ~loose'
    <3>1. ~loose /\ l \in Locking /\ lock = l
      BY <2>2, <2>4 DEF LockInv
    <3>2. l # Nothing
      OBVIOUS
    <3>3. Holds("spawn") /\ ~Holds("poll")
      BY <2>2, <3>1, <3>2 DEF Holds
    <3>4. ~raced /\ ~DaemonStarts /\ NoneServes
      BY <3>1, <3>3 DEF LockInv
    <3>5. NoneServes'
      BY <2>1, <3>4 DEF NoneServes
    <3>6. Holds("poll")'
      BY <2>2, <3>1, <3>2 DEF Holds
    <3> QED BY <2>2, <2>3, <3>4, <3>5, <3>6 DEF LockInv
  <2> QED BY <2>3, <2>4 DEF LockInv
<1>3. ASSUME NEW l \in Launchers, LauncherStep(l) \/ LauncherGoes(l), ~Spawn(l)
      PROVE  LockInv'
  <2>1. LauncherMoves(l)
    BY <1>3, LauncherFrame
  <2>2. /\ UNCHANGED <<file, daemon, raced>>
        /\ loose => loose'
        /\ \A k \in Launchers : k # l => launcher'[k] = launcher[k]
        /\ launcher'[l] # "poll"
    BY <2>1 DEF LauncherMoves, DaemonsStay, Enters, LaunchTypeOK, LauncherStates
  <2>3. l # Nothing /\ Nothing \notin Launchers
    OBVIOUS
  <2>4. ASSUME l \in Locking
        PROVE  /\ launcher'[l] \in {"again", "spawn"} <=> lock' = l
               /\ lock' # lock => (lock = l /\ lock' = Nothing) \/ (lock = Nothing /\ lock' = l)
    <3>1. CASE FirstConnect(l) \/ LockHeld(l)
      BY <2>3, <2>4, <3>1 DEF FirstConnect, LockHeld, Enters, LaunchTypeOK, LockInv
    <3>2. CASE TakeLock(l)
      BY <2>3, <3>2 DEF TakeLock, Enters, LaunchTypeOK
    <3>3. CASE DoubleCheck(l)
      BY <2>3, <2>4, <3>3 DEF DoubleCheck, Enters, Unlocks, LaunchTypeOK, LockInv
    <3>4. CASE PollConnects(l) \/ GiveUp(l) \/ GiveUpEarly(l) \/ LaunchFails(l) \/ LauncherKilled(l)
      <4>1. launcher'[l] \in {"ok", "failed", "killed"} /\ Unlocks(l)
        BY <3>4 DEF PollConnects, GiveUp, GiveUpEarly, LaunchFails, LauncherKilled, LetsGo, Enters,
           LaunchTypeOK
      <4> QED BY <2>3, <4>1 DEF Unlocks
    <3> QED BY <1>3, <3>1, <3>2, <3>3, <3>4 DEF LauncherStep, LauncherGoes
  <2>5. ASSUME l \notin Locking
        PROVE  lock' = lock
    <3>1. lock # l
      BY <2>3, <2>5 DEF LaunchTypeOK
    <3> QED BY <1>3, <2>5, <3>1 DEF LauncherStep, LauncherGoes, FirstConnect, TakeLock, LockHeld, DoubleCheck,
         PollConnects, GiveUp, GiveUpEarly, LaunchFails, LauncherKilled, LetsGo, Unlocks, LaunchTypeOK
  <2>6. \A k \in Locking : launcher'[k] \in {"again", "spawn", "poll"} <=> lock' = k
    <3> SUFFICES ASSUME NEW k \in Locking
                 PROVE  launcher'[k] \in {"again", "spawn", "poll"} <=> lock' = k
      OBVIOUS
    <3>1. k \in Launchers /\ k # Nothing /\ (launcher[k] \in {"again", "spawn", "poll"} <=> lock = k)
      BY DEF LockInv
    <3>2. CASE k = l
      BY <2>2, <2>4, <3>2
    <3>3. CASE k # l
      BY <2>2, <2>4, <2>5, <3>1, <3>3
    <3> QED BY <3>2, <3>3
  <2>7. CASE ~loose'
    <3>1. ~loose /\ ~raced /\ StartInv
      BY <2>2, <2>7 DEF LockInv, StartsAlone
    <3>2. DaemonStarts' = DaemonStarts /\ NoneServes' = NoneServes
      BY <2>2, NothingMoves
    <3>3. ASSUME DaemonStarts
          PROVE  Holds("poll")' /\ NoneServes
      <4>1. Holds("poll") /\ NoneServes /\ ~Connects
        BY <3>1, <3>3, RefusedNone DEF LockInv
      <4>2. lock # l
        <5> SUFFICES ASSUME lock = l PROVE FALSE
          OBVIOUS
        <5>1. launcher[l] = "poll"
          BY <4>1 DEF Holds
        <5>2. LetsGo(l)
          BY <1>3, <4>1, <5>1, <3>3 DEF LauncherStep, LauncherGoes, FirstConnect, TakeLock, LockHeld,
             DoubleCheck, PollConnects, GiveUp, GiveUpEarly, LaunchFails, LauncherKilled
        <5> QED BY <2>7, <3>3, <5>1, <5>2 DEF LetsGo
      <4>3. lock' = lock
        BY <2>4, <2>5, <4>1, <4>2 DEF Holds
      <4>4. lock \in Launchers
        BY <4>1 DEF Holds, LaunchTypeOK
      <4> QED BY <2>2, <4>1, <4>2, <4>3, <4>4 DEF Holds
    <3>4. ASSUME Holds("spawn")', ~DaemonStarts
          PROVE  NoneServes
      <4>1. lock' \in Launchers /\ launcher'[lock'] = "spawn"
        <5>1. LaunchTypeOK'
          BY LaunchTypeStep
        <5> QED BY <3>4, <5>1 DEF Holds, LaunchTypeOK
      <4>2. CASE lock' # l
        <5>1. lock' = lock
          BY <2>4, <2>5, <3>4, <4>2 DEF Holds
        <5>2. Holds("spawn")
          BY <2>2, <3>4, <4>1, <4>2, <5>1 DEF Holds
        <5> QED BY <3>1, <5>2 DEF LockInv
      <4>3. CASE lock' = l
        <5>1. l \in Locking
          <6>1. LaunchTypeOK'
            BY LaunchTypeStep
          <6> QED BY <2>3, <4>3, <6>1 DEF LaunchTypeOK
        <5>2. CASE FirstConnect(l)
          BY <4>1, <4>3, <5>1, <5>2 DEF FirstConnect, Enters, LaunchTypeOK
        <5>3. CASE DoubleCheck(l)
          <6>1. ~Connects
            BY <4>1, <4>3, <5>3 DEF DoubleCheck, Enters, LaunchTypeOK
          <6> QED BY <3>1, <6>1, RefusedNone
        <5>4. CASE ~FirstConnect(l) /\ ~DoubleCheck(l)
          <6>1. launcher'[l] \in {"again", "wait", "ok", "failed", "killed"}
            BY <1>3, <5>4 DEF LauncherStep, LauncherGoes, TakeLock, LockHeld, PollConnects, GiveUp,
               GiveUpEarly, LaunchFails, LauncherKilled, Enters, LaunchTypeOK
          <6> QED BY <4>1, <4>3, <6>1
        <5> QED BY <5>2, <5>3, <5>4
      <4> QED BY <4>2, <4>3
    <3> QED BY <2>2, <2>6, <3>1, <3>2, <3>3, <3>4 DEF LockInv
  <2> QED BY <2>6, <2>7 DEF LockInv
<1>4. ASSUME NEW s \in Daemons, ServerMoves(s)
      PROVE  LockInv'
  <2>1. UNCHANGED <<launcher, lock, loose, raced>>
    BY <1>4, ServerMovesFrame DEF LaunchersStay, history
  <2>2. \A t \in Daemons : t # s => daemon'[t] = daemon[t]
    BY <1>4, ServerMovesFrame
  <2>3. ASSUME ~loose
        PROVE  /\ DaemonStarts' => DaemonStarts
               /\ (DaemonStarts' \/ Holds("spawn")) => NoneServes'
    <3>1. CASE daemon[s] \in Starting
      <4>1. NoneServes /\ DaemonStarts /\ Holds("poll") /\ ~Holds("spawn")
        BY <2>3, <3>1 DEF LockInv, DaemonStarts, Holds
      <4>2. CASE Listen(s)
        <5>1. daemon'[s] = "up" /\ daemon[s] = "listen"
          BY <4>2 DEF Listen, Becomes, LaunchTypeOK
        <5>2. \A t \in Daemons : t # s => daemon[t] \notin Starting
          BY <2>3, <3>1 DEF LockInv, StartsAlone, StartInv
        <5>3. ~DaemonStarts'
          BY <2>2, <5>1, <5>2 DEF DaemonStarts, Starting
        <5> QED BY <4>1, <5>3
      <4>3. CASE ~Listen(s)
        <5>1. daemon'[s] \notin {"up", "drain"}
          BY <1>4, <3>1, <4>3 DEF ServerMoves, RunServer, CheckPath, Probe, RemoveStale, Bind,
             GuardRemoves, CloseListener, Terminate, Crash, Becomes, LaunchTypeOK, Starting
        <5>2. NoneServes'
          BY <2>2, <4>1, <5>1 DEF NoneServes
        <5> QED BY <4>1, <5>2
      <4> QED BY <4>2, <4>3
    <3>2. CASE daemon[s] \notin Starting
      <4>1. daemon'[s] \notin Starting /\ (daemon'[s] \in {"up", "drain"} => daemon[s] \in {"up", "drain"})
        BY <1>4, <3>2 DEF ServerMoves, RunServer, CheckPath, Probe, RemoveStale, Bind, Listen,
           GuardRemoves, CloseListener, Terminate, Crash, Becomes, LaunchTypeOK, Starting
      <4>2. (DaemonStarts' => DaemonStarts) /\ (NoneServes => NoneServes')
        BY <2>2, <4>1 DEF DaemonStarts, NoneServes
      <4> QED BY <2>3, <4>2 DEF LockInv
    <3> QED BY <3>1, <3>2
  <2> QED BY <2>1, <2>3 DEF LockInv, Holds
<1> QED BY <1>1, <1>2, <1>3, <1>4 DEF LaunchNext, LauncherGoes, ServerMoves

LEMMA LockCorrect == LaunchSpec => []LockInv
<1>1. ASSUME LaunchInit
      PROVE  LockInv
  <2>1. ~DaemonStarts /\ ~Holds("spawn")
    BY <1>1 DEF LaunchInit, DaemonStarts, Starting, Holds
  <2> QED BY <1>1, <2>1 DEF LaunchInit, LockInv
<1> QED BY <1>1, LockStep, LaunchTypeCorrect, StartsAloneCorrect, PTL DEF LaunchSpec

\* Two daemons start together only after a launch without the lock, or after the
\* lock was let go of while the daemon started: of any number of launchers
\* that lock, wait, fail, are killed or give up (ensure_server_running).
THEOREM Locked == LaunchSpec => []StartsApart
<1>1. LockInv => StartsApart
  BY DEF LockInv, StartsApart
<1> QED BY <1>1, LockCorrect, PTL

-----------------------------------------------------------------------------
(* Launching implements OneServer.                                         *)

\* As long as nothing went wrong, the daemon that was spawned comes up, and those
\* who wait for it find it there when the lock is free.
UpInv ==
  \/ raced
  \/ /\ \A s \in Daemons : daemon[s] \in Stopping => mishaps > 0
     /\ \A l \in Launchers : launcher[l] = "poll" => mishaps > 0 \/ Connects \/ DaemonStarts
     /\ \A l \in Launchers : launcher[l] = "wait" => mishaps > 0 \/ Connects \/ lock # Nothing

\* Who gives up, with nobody on the way, does so after a mishap.
LEMMA GiveUpAfter ==
  ASSUME LaunchTypeOK, LockInv, UpInv, ~raced, NEW l \in Launchers, GiveUp(l)
  PROVE  mishaps > 0
<1>1. /\ launcher[l] \in {"poll", "wait"} /\ ~Connects /\ ~DaemonStarts
      /\ \A k \in Launchers : launcher[k] \notin {"again", "spawn"}
  BY DEF GiveUp, UnderWay
<1>2. CASE launcher[l] = "poll"
  BY <1>1, <1>2 DEF UpInv
<1>3. CASE launcher[l] = "wait" /\ lock # Nothing
  <2>1. lock \in Locking /\ lock \in Launchers
    BY <1>3 DEF LaunchTypeOK
  <2>2. launcher[lock] = "poll"
    BY <1>1, <2>1 DEF LockInv
  <2> QED BY <1>1, <2>1, <2>2 DEF UpInv
<1>4. CASE launcher[l] = "wait" /\ lock = Nothing
  BY <1>1, <1>4 DEF UpInv
<1> QED BY <1>1, <1>2, <1>3, <1>4

LEMMA UpStep ==
  LaunchTypeOK /\ StartsAlone /\ LockInv /\ UpInv /\ [LaunchNext]_launchVars => UpInv'
<1> SUFFICES ASSUME LaunchTypeOK, StartsAlone, LockInv, UpInv, [LaunchNext]_launchVars PROVE UpInv'
  OBVIOUS
<1>1. CASE UNCHANGED launchVars
  BY <1>1, NothingMoves DEF launchVars, UpInv
<1>2. ASSUME NEW l \in Launchers, Spawn(l)
      PROVE  UpInv'
  <2>1. PICK s \in Daemons : /\ daemon[s] = "new" /\ daemon'[s] = "check"
                             /\ \A t \in Daemons : t # s => daemon'[t] = daemon[t]
    BY <1>2, SpawnFrame
  <2>2. /\ raced' = (raced \/ DaemonStarts) /\ UNCHANGED <<file, lock, mishaps>>
        /\ launcher'[l] = "poll" /\ \A k \in Launchers : k # l => launcher'[k] = launcher[k]
    BY <1>2 DEF Spawn, Enters, LaunchTypeOK
  <2>3. DaemonStarts'
    BY <2>1 DEF DaemonStarts, Starting
  <2>4. Connects => Connects'
    BY <2>1, <2>2 DEF Connects, Listening, Stopping, LaunchTypeOK
  <2>5. \A t \in Daemons : daemon'[t] \in Stopping => daemon[t] \in Stopping
    BY <2>1 DEF Stopping
  <2> QED BY <2>2, <2>3, <2>4, <2>5 DEF UpInv
<1>3. ASSUME NEW l \in Launchers, LauncherStep(l) \/ LauncherGoes(l), ~Spawn(l)
      PROVE  UpInv'
  <2>1. LauncherMoves(l)
    BY <1>3, LauncherFrame
  <2>2. /\ UNCHANGED <<file, daemon, raced>>
        /\ \A k \in Launchers : k # l => launcher'[k] = launcher[k]
        /\ launcher'[l] # "poll"
        /\ mishaps' = mishaps \/ (mishaps' = mishaps + 1 /\ mishaps \in Nat)
    BY <2>1 DEF LauncherMoves, DaemonsStay, Enters, LaunchTypeOK, LauncherStates, Mishap
  <2>3. DaemonStarts' = DaemonStarts /\ Connects' = Connects
    BY <2>2, NothingMoves
  <2>4. l # Nothing
    OBVIOUS
  <2>5. mishaps \in Nat /\ (mishaps > 0 => mishaps' > 0)
    BY <2>2 DEF LaunchTypeOK
  <2>6. CASE raced \/ mishaps' > 0
    BY <2>2, <2>6 DEF UpInv
  <2>7. CASE ~raced /\ ~(mishaps' > 0)
    <3>1. ~(mishaps > 0) /\ mishaps' = mishaps
      BY <2>2, <2>5, <2>7
    <3>2. ~GiveUp(l)
      BY <2>7, <3>1, GiveUpAfter
    <3>3. ~LauncherGoes(l)
      BY <3>1, <2>5 DEF LauncherGoes, GiveUpEarly, LaunchFails, LauncherKilled, Mishap
    <3>4. (Connects \/ lock # Nothing) => (Connects \/ lock' # Nothing)
      BY <1>3, <2>4, <3>2, <3>3 DEF LauncherStep, FirstConnect, TakeLock, LockHeld, DoubleCheck, PollConnects
    <3>5. launcher'[l] = "wait" => lock' # Nothing
      BY <1>3, <3>2, <3>3 DEF LauncherStep, FirstConnect, TakeLock, LockHeld, DoubleCheck, PollConnects,
         Enters, LaunchTypeOK
    <3> QED BY <2>2, <2>3, <2>7, <3>1, <3>4, <3>5 DEF UpInv
  <2> QED BY <2>6, <2>7
<1>4. ASSUME NEW s \in Daemons, ServerMoves(s)
      PROVE  UpInv'
  <2>1. /\ UNCHANGED <<launcher, lock, loose, raced>>
        /\ \A t \in Daemons : t # s => daemon'[t] = daemon[t]
    BY <1>4, ServerMovesFrame DEF LaunchersStay, history
  <2>2. CASE raced \/ Terminate(s) \/ Crash(s) \/ mishaps > 0
    <3>1. mishaps \in Nat
      BY DEF LaunchTypeOK
    <3>2. raced' \/ mishaps' > 0
      BY <1>4, <2>1, <2>2, <3>1 DEF ServerMoves, RunServer, CheckPath, Probe, RemoveStale, Bind, Listen,
         GuardRemoves, CloseListener, Terminate, Crash, Mishap
    <3> QED BY <3>2 DEF UpInv
  <2>3. CASE ~raced /\ RunServer(s) /\ ~(mishaps > 0)
    <3>1. /\ daemon[s] \notin Stopping /\ StartInv
          /\ file \in Daemons \cup {Nothing} /\ Nothing \notin Daemons
      BY <2>3 DEF UpInv, StartsAlone, LaunchTypeOK
    <3>2. \A t \in Daemons : daemon[t] \notin Stopping
      BY <2>3 DEF UpInv
    <3>3. mishaps' = mishaps
      BY <2>3 DEF RunServer, CheckPath, Probe, RemoveStale, Bind, Listen, GuardRemoves, CloseListener
    <3>4. /\ Connects => Connects'
          /\ Connects' \/ DaemonStarts'
          /\ daemon'[s] \notin Stopping
      <4>1. CASE CheckPath(s) \/ Probe(s)
        <5>1. /\ file' = file /\ daemon[s] \in {"check", "probe"}
              /\ daemon'[s] \in {"bind", "probe", "remove"} \/ (Connects /\ daemon'[s] = "gone")
          BY <4>1 DEF CheckPath, Probe, Becomes, LaunchTypeOK
        <5>2. Connects => Connects'
          BY <2>1, <3>1, <5>1 DEF Connects, Listening, Stopping
        <5>3. daemon'[s] \in {"bind", "probe", "remove"} => DaemonStarts'
          BY DEF DaemonStarts, Starting
        <5> QED BY <5>1, <5>2, <5>3 DEF Stopping
      <4>2. CASE RemoveStale(s) \/ Bind(s)
        <5>1. daemon[s] \in {"remove", "bind"} /\ daemon'[s] \in {"bind", "listen"}
          BY <3>1, <4>2 DEF RemoveStale, Bind, Becomes, LaunchTypeOK, StartInv
        <5>2. ~Connects
          BY <3>1, <5>1, RefusedNone DEF StartInv, NoneServes
        <5>3. DaemonStarts'
          BY <5>1 DEF DaemonStarts, Starting
        <5> QED BY <5>1, <5>2, <5>3 DEF Stopping
      <4>3. CASE Listen(s)
        <5>1. daemon[s] = "listen" /\ daemon'[s] = "up" /\ file' = file /\ file = s
          BY <3>1, <4>3 DEF Listen, Becomes, LaunchTypeOK, StartInv
        <5>2. Connects'
          BY <3>1, <5>1 DEF Connects, Listening
        <5> QED BY <5>1, <5>2 DEF Stopping
      <4> QED BY <2>3, <3>1, <4>1, <4>2, <4>3 DEF RunServer, GuardRemoves, CloseListener, Stopping
    <3> QED BY <2>1, <2>3, <3>2, <3>3, <3>4 DEF UpInv
  <2> QED BY <1>4, <2>2, <2>3 DEF ServerMoves
<1> QED BY <1>1, <1>2, <1>3, <1>4 DEF LaunchNext, LauncherGoes, ServerMoves

LEMMA UpCorrect == LaunchSpec => []UpInv
<1>1. LaunchInit => UpInv
  BY DEF LaunchInit, UpInv, Stopping
<1> QED BY <1>1, UpStep, LaunchTypeCorrect, StartsAloneCorrect, LockCorrect, PTL DEF LaunchSpec

LEMMA ServiceInit ==
  ASSUME LaunchInit
  PROVE  Service!Init
<1>1. {s \in Daemons : daemon[s] \in {"up", "drain"}} = {}
  BY DEF LaunchInit
<1>2. ~Connects
  BY DEF LaunchInit, Connects, Listening, Stopping
<1>3. [l \in Launchers |-> IF launcher[l] \in {"ok", "failed"} THEN launcher[l] ELSE "nothing"]
        = [l \in Launchers |-> "nothing"]
  BY DEF LaunchInit
<1>4. mishaps = 0 /\ loose = FALSE /\ raced = FALSE
  BY DEF LaunchInit
<1> QED BY <1>1, <1>2, <1>3, <1>4 DEF Service!Init

\* Who serves, whom a connection reaches, and what the launchers were told.
Serving == {s \in Daemons : daemon[s] \in {"up", "drain"}}
Door == IF Connects THEN {file} ELSE {}
Told == [l \in Launchers |-> IF launcher[l] \in {"ok", "failed"} THEN launcher[l] ELSE "nothing"]

\* A connection reaches the daemon that serves.
OneDoor == Door = Serving /\ (Connects <=> Serving # {})

LEMMA DoorServes ==
  ASSUME LaunchTypeOK, StartInv
  PROVE  OneDoor
<1>1. ASSUME NEW s \in Daemons, daemon[s] \in {"up", "drain"}
      PROVE  Connects /\ file = s
  <2>1. file = s
    BY <1>1 DEF StartInv
  <2> QED BY <1>1, <2>1 DEF Connects, Listening, Stopping
<1>2. ASSUME Connects
      PROVE  file \in Daemons /\ daemon[file] \in {"up", "drain"}
  BY <1>2 DEF StartInv, LaunchTypeOK, Connects, Listening, Stopping
<1>3. CASE Connects
  <2>1. Serving = {file}
    BY <1>1, <1>2, <1>3 DEF Serving
  <2> QED BY <1>3, <2>1 DEF Door, OneDoor
<1>4. CASE ~Connects
  <2>1. Serving = {}
    BY <1>1, <1>4 DEF Serving
  <2> QED BY <1>4, <2>1 DEF Door, OneDoor
<1> QED BY <1>3, <1>4

\* A launcher is told something when it ends, once.
LEMMA ToldOf ==
  ASSUME LaunchTypeOK, NEW l \in Launchers, NEW at, launcher[l] \notin {"ok", "failed"}, Enters(l, at)
  PROVE  /\ Told[l] = "nothing"
         /\ at \notin {"ok", "failed"} => Told' = Told
         /\ at \in {"ok", "failed"} => Told' = [Told EXCEPT ![l] = at]
<1>1. /\ launcher' = [launcher EXCEPT ![l] = at] /\ launcher'[l] = at
      /\ \A k \in Launchers : k # l => launcher'[k] = launcher[k]
  BY DEF Enters, LaunchTypeOK
<1>2. Told[l] = "nothing"
  BY DEF Told
<1>3. \A k \in Launchers : k # l => Told'[k] = Told[k]
  BY <1>1 DEF Told
<1>4. Told'[l] = IF at \in {"ok", "failed"} THEN at ELSE "nothing"
  BY <1>1 DEF Told
<1>5. DOMAIN Told = Launchers /\ DOMAIN Told' = Launchers
      /\ Told = [k \in Launchers |-> Told[k]] /\ Told' = [k \in Launchers |-> Told'[k]]
  BY DEF Told
<1> HIDE DEF Told
<1>6. at \notin {"ok", "failed"} => Told' = Told
  BY <1>2, <1>3, <1>4, <1>5
<1>7. at \in {"ok", "failed"} => Told' = [Told EXCEPT ![l] = at]
  BY <1>3, <1>4, <1>5
<1> QED BY <1>2, <1>6, <1>7

\* Each step of a launcher is one of OneServer's, or unseen.
LEMMA ServiceLauncher ==
  ASSUME LaunchTypeOK, LockInv, UpInv, OneDoor, ~raced', ~raced, loose => loose',
         NEW l \in Launchers, LauncherStep(l) \/ LauncherGoes(l)
  PROVE  [Service!Next]_(Service!vars)
<1>1. Door = Serving /\ (Connects <=> Serving # {})
  BY DEF OneDoor
<1>2. CASE Spawn(l)
  <2>1. PICK s \in Daemons : /\ daemon[s] = "new" /\ daemon'[s] = "check"
                             /\ \A t \in Daemons : t # s => daemon'[t] = daemon[t]
    BY <1>2, SpawnFrame
  <2>2. Serving' = Serving
    BY <2>1 DEF Serving
  <2>3. Told' = Told /\ mishaps' = mishaps
    BY <1>2, ToldOf DEF Spawn
  <2>4. Door' = Door
    <3>1. file' = file /\ (file # Nothing => file \in Daemons)
      BY <1>2 DEF Spawn, LaunchTypeOK
    <3>2. Connects' = Connects
      BY <2>1, <3>1 DEF Connects, Listening, Stopping
    <3> QED BY <3>1, <3>2 DEF Door
  <2>5. CASE loose' = loose
    <3>1. raced' = raced
      <4>1. raced \in BOOLEAN /\ raced' \in BOOLEAN
        BY <1>2 DEF Spawn, LaunchTypeOK
      <4> QED BY <4>1
    <3> QED BY <2>2, <2>3, <2>4, <2>5, <3>1 DEF Service!vars, Serving, Door, Told
  <2>6. CASE loose' # loose
    <3>1. ~loose /\ loose'
      <4>1. loose \in BOOLEAN /\ loose' \in BOOLEAN
        BY <1>2 DEF LaunchTypeOK, Spawn
      <4> QED BY <2>6, <4>1
    <3>2. Service!BecomeLax
      BY <2>2, <2>3, <2>4, <3>1 DEF Service!BecomeLax, Serving, Door, Told
    <3> QED BY <3>2 DEF Service!Next, Service!Promised
  <2> QED BY <2>5, <2>6
<1>3. CASE ~Spawn(l)
  <2>1. /\ DaemonsStay /\ launcher[l] \notin {"ok", "failed"}
    BY <1>3, LauncherFrame DEF LauncherMoves
  <2>2. Serving' = Serving /\ Connects' = Connects /\ Door' = Door
    BY <2>1, NothingMoves DEF DaemonsStay, Serving, Door
  <2>3. ASSUME Enters(l, "ok"), Connects, Calm
        PROVE  [Service!Next]_(Service!vars)
    <3>1. Told[l] = "nothing" /\ Told' = [Told EXCEPT ![l] = "ok"]
      BY <2>1, <2>3, ToldOf
    <3>2. Door # {} /\ mishaps' = mishaps
      BY <2>3 DEF Door, Calm
    <3>3. Service!Reach(l)
      BY <2>2, <3>1, <3>2 DEF Service!Reach, Service!Tell, Serving, Door, Told
    <3> QED BY <3>3 DEF Service!Next, Service!Promised
  <2>4. ASSUME NEW at \in {"lock", "again", "spawn", "wait"}, Enters(l, at), Calm
        PROVE  [Service!Next]_(Service!vars)
    <3>1. Told' = Told
      BY <2>1, <2>4, ToldOf
    <3>2. raced' = raced
      BY <2>1 DEF DaemonsStay
    <3> QED BY <2>2, <2>4, <3>1, <3>2 DEF Calm, Service!vars, Serving, Door, Told
  <2>5. CASE FirstConnect(l) \/ DoubleCheck(l)
    BY <2>3, <2>4, <2>5 DEF FirstConnect, DoubleCheck
  <2>6. CASE TakeLock(l) \/ LockHeld(l)
    BY <2>4, <2>6 DEF TakeLock, LockHeld
  <2>7. CASE PollConnects(l)
    BY <2>3, <2>7 DEF PollConnects
  <2>8. CASE GiveUp(l)
    <3>1. mishaps > 0 /\ mishaps' = mishaps /\ ~Connects
      BY <2>8, GiveUpAfter DEF GiveUp
    <3>2. Told[l] = "nothing" /\ Told' = [Told EXCEPT ![l] = "failed"]
      BY <2>1, <2>8, ToldOf DEF GiveUp
    <3>3. Service!Fail(l)
      BY <1>1, <2>2, <3>1, <3>2 DEF Service!Fail, Service!Tell, Serving, Door, Told
    <3> QED BY <3>3 DEF Service!Next, Service!Promised
  <2>9. CASE GiveUpEarly(l) \/ LaunchFails(l)
    <3>1. mishaps' = mishaps + 1 /\ Enters(l, "failed")
      BY <2>9 DEF GiveUpEarly, LaunchFails, Mishap
    <3>2. Told[l] = "nothing" /\ Told' = [Told EXCEPT ![l] = "failed"]
      BY <2>1, <3>1, ToldOf
    <3>3. Service!CutShort(l)
      BY <2>2, <3>1, <3>2 DEF Service!CutShort, Service!Tell, Serving, Door, Told
    <3> QED BY <3>3 DEF Service!Next, Service!Promised
  <2>10. CASE LauncherKilled(l)
    <3>1. mishaps' = mishaps + 1 /\ Enters(l, "killed")
      BY <2>10 DEF LauncherKilled, Mishap
    <3>2. Told' = Told
      BY <2>1, <3>1, ToldOf
    <3>3. Service!End
      BY <1>1, <2>2, <3>1, <3>2 DEF Service!End, Serving, Door, Told
    <3> QED BY <3>3 DEF Service!Next, Service!Promised
  <2> QED BY <1>3, <2>5, <2>6, <2>7, <2>8, <2>9, <2>10 DEF LauncherStep, LauncherGoes
<1> QED BY <1>2, <1>3

\* So is each step of a daemon.
LEMMA ServiceDaemon ==
  ASSUME LaunchTypeOK, StartInv, UpInv, OneDoor, OneDoor', ~raced', ~raced,
         NEW s \in Daemons, ServerMoves(s)
  PROVE  [Service!Next]_(Service!vars)
<1>1. Door = Serving /\ Door' = Serving' /\ (Connects <=> Serving # {})
  BY DEF OneDoor
<1>2. Told' = Told /\ loose' = loose /\ raced' = raced
  BY ServerMovesFrame DEF LaunchersStay, history, Told
<1>3. ASSUME NEW at, Becomes(s, at)
      PROVE  Serving' = (Serving \ {s}) \cup (IF at \in {"up", "drain"} THEN {s} ELSE {})
  <2>1. daemon'[s] = at /\ \A t \in Daemons : t # s => daemon'[t] = daemon[t]
    BY <1>3 DEF Becomes, LaunchTypeOK
  <2> QED BY <2>1 DEF Serving
<1>4. ASSUME s \in Serving
      PROVE  Serving = {s}
  BY <1>1, <1>4 DEF Door
<1>5. CASE CheckPath(s) \/ Probe(s) \/ RemoveStale(s) \/ Bind(s) \/ CloseListener(s)
  <2>1. s \notin Serving /\ mishaps' = mishaps
    BY <1>5 DEF CheckPath, Probe, RemoveStale, Bind, CloseListener, Serving
  <2>2. \E at \in {"bind", "probe", "remove", "listen", "gone"} : Becomes(s, at)
    BY <1>5 DEF CheckPath, Probe, RemoveStale, Bind, CloseListener
  <2>3. Serving' = Serving
    BY <1>3, <2>1, <2>2
  <2>4. Door' = Door
    BY <1>1, <2>3
  <2> QED BY <1>2, <2>1, <2>3, <2>4 DEF Service!vars, Serving, Door, Told
<1>6. CASE Listen(s)
  <2>1. daemon[s] = "listen" /\ Becomes(s, "up") /\ mishaps' = mishaps
    BY <1>6 DEF Listen
  <2>2. Serving = {}
    BY <2>1 DEF Serving, StartInv
  <2>3. Serving' = {s} /\ Door' = {s}
    BY <1>1, <1>3, <2>1, <2>2
  <2>4. Service!Start(s)
    BY <1>2, <2>1, <2>2, <2>3 DEF Service!Start, Serving, Door, Told
  <2> QED BY <1>2, <2>4 DEF Service!Next, Service!Promised
<1>7. CASE Terminate(s) \/ Crash(s)
  <2>1. mishaps' = mishaps + 1
    BY <1>7 DEF Terminate, Crash, Mishap
  <2>2. Serving' = Serving \/ Serving' = {}
    <3>1. CASE Terminate(s)
      <4>1. s \in Serving /\ Becomes(s, "drain")
        BY <3>1 DEF Terminate, Serving
      <4> QED BY <1>3, <4>1
    <3>2. CASE Crash(s)
      <4>1. Serving' = Serving \ {s}
        BY <1>3, <3>2 DEF Crash
      <4> QED BY <1>4, <4>1
    <3> QED BY <1>7, <3>1, <3>2
  <2>3. Service!End
    BY <1>1, <1>2, <2>1, <2>2 DEF Service!End, Serving, Door, Told
  <2> QED BY <1>2, <2>3 DEF Service!Next, Service!Promised
<1>8. CASE GuardRemoves(s)
  <2>1. daemon[s] = "drain" /\ Becomes(s, "close") /\ mishaps' = mishaps
    BY <1>8 DEF GuardRemoves
  <2>2. mishaps > 0
    BY <2>1 DEF UpInv, Stopping
  <2>3. Serving = {s}
    BY <1>4, <2>1 DEF Serving
  <2>4. Serving' = {} /\ Door' = {}
    BY <1>1, <1>3, <2>1, <2>3
  <2>5. Service!Leave
    BY <1>2, <2>1, <2>2, <2>4 DEF Service!Leave, Serving, Door, Told
  <2> QED BY <1>2, <2>5 DEF Service!Next, Service!Promised
<1> QED BY <1>5, <1>6, <1>7, <1>8 DEF ServerMoves, RunServer

LaunchInv == LaunchTypeOK /\ StartsAlone /\ LockInv /\ UpInv

LEMMA ServiceStep ==
  ASSUME LaunchInv, LaunchInv', [LaunchNext]_launchVars
  PROVE  [Service!Next]_(Service!vars)
<1> USE DEF LaunchInv
<1>1. CASE UNCHANGED launchVars
  <2>1. Connects' = Connects
    BY <1>1, NothingMoves DEF launchVars
  <2> QED BY <1>1, <2>1 DEF launchVars, Service!vars
<1>2. (loose => loose') /\ (raced => raced')
  <2>1. ASSUME NEW l \in Launchers, LauncherStep(l) \/ LauncherGoes(l)
        PROVE  (loose => loose') /\ (raced => raced')
    BY <2>1, LauncherFrame DEF LauncherMoves, DaemonsStay, Spawn
  <2>2. ASSUME NEW s \in Daemons, ServerMoves(s)
        PROVE  UNCHANGED <<loose, raced>>
    BY <2>2, ServerMovesFrame DEF LaunchersStay, history
  <2> QED BY <2>1, <2>2 DEF LaunchNext, LauncherGoes, ServerMoves, launchVars
<1>3. CASE raced'
  <2>1. loose'
    BY <1>3 DEF LockInv
  <2> QED BY <1>2, <1>3, <2>1 DEF Service!Next
<1>4. CASE ~raced' /\ LaunchNext
  <2>1. ~raced /\ OneDoor
    BY <1>2, <1>4, DoorServes DEF StartsAlone
  <2>2. LaunchTypeOK' /\ StartInv'
    BY <1>4 DEF StartsAlone
  <2>3. OneDoor'
    BY <2>2, DoorServes, PTL
  <2> QED BY <1>2, <1>4, <2>1, <2>3, ServiceLauncher, ServiceDaemon
          DEF LaunchNext, LauncherGoes, ServerMoves, StartsAlone
<1> QED BY <1>1, <1>3, <1>4

\* Launching implements OneServer: one daemon serves and is reached, and a launch
\* that reports a failure does so because something went wrong, for any number
\* of launchers, with and without the lock, of daemons, terminations, crashes
\* and failing launchers; until two daemons start together, which takes a launch
\* without the lock or one that lets go of it while its daemon starts.
THEOREM ImplementsService == LaunchSpec => ServiceSpec
<1>1. LaunchInit => Service!Init
  BY ServiceInit
<1>2. LaunchInv /\ LaunchInv' /\ [LaunchNext]_launchVars => [Service!Next]_(Service!vars)
  BY ServiceStep
<1>3. LaunchSpec => []LaunchInv
  BY LaunchTypeCorrect, StartsAloneCorrect, LockCorrect, UpCorrect, PTL DEF LaunchInv
<1> QED
  BY <1>1, <1>2, <1>3, PTL DEF LaunchSpec, ServiceSpec, Service!Spec
================================================================================
