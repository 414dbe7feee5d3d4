----------------------------- MODULE DaemonStart -----------------------------
(***************************************************************************)
(* Launching the retach daemon: clients that connect to its socket, take   *)
(* the startup lock and spawn it (client/server_launcher.rs), the app,     *)
(* which spawns it without the lock (octty-term retach.rs), and the        *)
(* daemons, which look for a listener at the path, remove a stale socket,  *)
(* bind, and remove the file when they end (server/mod.rs).                *)
(*                                                                         *)
(* The file at the path is named by the daemon that bound it.  Launchers   *)
(* may be killed, fail, or poll for five seconds in vain while a daemon is *)
(* still starting; these, and daemons that end, are counted as mishaps.    *)
(***************************************************************************)
EXTENDS FiniteSets, Naturals

CONSTANTS
  Launchers,      \* calls of ensure_server_running
  Locking,        \* those of retach's own client, which take the lock
  Daemons,        \* processes that run_server may run in
  Nothing,        \* no file, no holder of the lock
  MaxMishaps      \* bound on mishaps

ASSUME DaemonStartAssumption ==
  /\ Locking \subseteq Launchers
  /\ Nothing \notin Launchers \cup Daemons
  /\ MaxMishaps \in Nat

VARIABLES
  file,      \* the daemon whose socket is at the path, or Nothing
  daemon,    \* where each daemon is in run_server
  launcher,  \* where each launcher is in ensure_server_running
  lock,      \* the holder of the startup lock, or Nothing
  mishaps,   \* daemons that ended, and launchers that were killed, failed or
             \* gave up on a launch under way, so far
  loose,     \* history: a daemon started without its launcher holding the
             \* lock all the while
  raced      \* history: a daemon was spawned while another one started

launchVars == <<file, daemon, launcher, lock, mishaps, loose, raced>>
history == <<loose, raced>>

Starting == {"check", "probe", "remove", "bind", "listen"}
Stopping == {"drain", "close"}

\* The kernel accepts connections from listen() on, even while the daemon
\* drains its sessions and accepts none.
Listening(s) == daemon[s] \in {"up"} \cup Stopping

\* UnixStream::connect(path).
Connects == file # Nothing /\ Listening(file)

LaunchTypeOK ==
  /\ file \in Daemons \cup {Nothing}
  /\ daemon \in [Daemons -> {"new", "up", "gone"} \cup Starting \cup Stopping]
  /\ launcher \in [Launchers -> {"new", "lock", "again", "spawn", "poll", "wait", "ok", "failed", "killed"}]
  /\ \A l \in Launchers : launcher[l] \in {"lock", "again", "wait"} => l \in Locking
  /\ lock \in Locking \cup {Nothing}
  /\ mishaps \in 0..MaxMishaps
  /\ loose \in BOOLEAN /\ raced \in BOOLEAN

\* A daemon that crashed before may have left its socket.
LaunchInit ==
  /\ file \in Daemons \cup {Nothing}
  /\ daemon = [s \in Daemons |-> IF s = file THEN "gone" ELSE "new"]
  /\ launcher = [l \in Launchers |-> "new"]
  /\ lock = Nothing
  /\ mishaps = 0
  /\ loose = FALSE /\ raced = FALSE

-----------------------------------------------------------------------------
(* Launchers.                                                              *)

Enters(l, at) == launcher' = [launcher EXCEPT ![l] = at]
DaemonsStay == UNCHANGED <<file, daemon, raced>>
Calm == UNCHANGED <<mishaps, loose>>
Mishap == mishaps < MaxMishaps /\ mishaps' = mishaps + 1

DaemonStarts == \E s \in Daemons : daemon[s] \in Starting

FirstConnect(l) ==
  /\ launcher[l] = "new"
  /\ Enters(l, IF Connects THEN "ok" ELSE IF l \in Locking THEN "lock" ELSE "spawn")
  /\ UNCHANGED lock /\ DaemonsStay /\ Calm

TakeLock(l) ==
  /\ launcher[l] = "lock" /\ lock = Nothing
  /\ lock' = l
  /\ Enters(l, "again")
  /\ DaemonsStay /\ Calm

\* EWOULDBLOCK: another client spawns the daemon.
LockHeld(l) ==
  /\ launcher[l] = "lock" /\ lock # Nothing
  /\ Enters(l, "wait")
  /\ UNCHANGED lock /\ DaemonsStay /\ Calm

\* The return of ensure_server_running drops the lock; so does its death.
Unlocks(l) == lock' = IF lock = l THEN Nothing ELSE lock

DoubleCheck(l) ==
  /\ launcher[l] = "again"
  /\ IF Connects THEN Enters(l, "ok") /\ Unlocks(l)
                 ELSE Enters(l, "spawn") /\ UNCHANGED lock
  /\ DaemonsStay /\ Calm

\* Slip: the lock goes as soon as the process exists.
SpawnUnlocks(l) ==
  /\ launcher[l] = "spawn"
  /\ \E s \in Daemons :
       /\ daemon[s] = "new"
       /\ daemon' = [daemon EXCEPT ![s] = "check"]
  /\ Enters(l, "poll")
  /\ Unlocks(l)
  /\ loose' = (loose \/ l \notin Locking) /\ raced' = (raced \/ DaemonStarts)
  /\ UNCHANGED <<file, mishaps>>

Spawn(l) ==
  /\ launcher[l] = "spawn"
  /\ \E s \in Daemons :
       /\ daemon[s] = "new"
       /\ daemon' = [daemon EXCEPT ![s] = "check"]
  /\ Enters(l, "poll")
  /\ loose' = (loose \/ l \notin Locking) /\ raced' = (raced \/ DaemonStarts)
  /\ UNCHANGED <<file, lock, mishaps>>

PollConnects(l) ==
  /\ launcher[l] \in {"poll", "wait"} /\ Connects
  /\ Enters(l, "ok")
  /\ Unlocks(l) /\ DaemonsStay /\ Calm

\* A daemon starts, or the holder of the lock has yet to spawn one.
UnderWay == DaemonStarts \/ \E l \in Launchers : launcher[l] \in {"again", "spawn"}

\* A launcher that goes while it polls leaves the daemon it spawned without the lock.
LetsGo(l) ==
  /\ loose' = (loose \/ (launcher[l] = "poll" /\ DaemonStarts))
  /\ Unlocks(l) /\ DaemonsStay

\* Fifty polls failed: nobody starts a daemon any more,
GiveUp(l) ==
  /\ launcher[l] \in {"poll", "wait"} /\ ~Connects
  /\ ~UnderWay
  /\ Enters(l, "failed")
  /\ LetsGo(l) /\ UNCHANGED mishaps

\* or the daemon needs more than the five seconds.
GiveUpEarly(l) ==
  /\ launcher[l] \in {"poll", "wait"} /\ ~Connects
  /\ UnderWay
  /\ Enters(l, "failed")
  /\ LetsGo(l) /\ Mishap

\* The lock file, current_exe(), the log file or spawn() fails.
LaunchFails(l) ==
  /\ launcher[l] \in {"lock", "spawn"}
  /\ Enters(l, "failed")
  /\ LetsGo(l) /\ Mishap

LauncherKilled(l) ==
  /\ launcher[l] \in {"lock", "again", "spawn", "poll", "wait"}
  /\ Enters(l, "killed")
  /\ LetsGo(l) /\ Mishap

-----------------------------------------------------------------------------
(* Daemons.                                                                *)

Becomes(s, at) == daemon' = [daemon EXCEPT ![s] = at]
LaunchersStay == UNCHANGED <<launcher, lock, history>>

CheckPath(s) ==
  /\ daemon[s] = "check"
  /\ Becomes(s, IF file = Nothing THEN "bind" ELSE "probe")
  /\ UNCHANGED <<file, mishaps>> /\ LaunchersStay

Probe(s) ==
  /\ daemon[s] = "probe"
  /\ Becomes(s, IF Connects THEN "gone" ELSE "remove")
  /\ UNCHANGED <<file, mishaps>> /\ LaunchersStay

\* Slip: a stale socket is left for bind to replace.
RemoveStaleNot(s) ==
  /\ daemon[s] = "remove"
  /\ Becomes(s, "bind")
  /\ UNCHANGED <<file, mishaps>> /\ LaunchersStay

\* A failure to remove the file is logged and ignored.
RemoveStale(s) ==
  /\ daemon[s] = "remove"
  /\ file' = Nothing
  /\ Becomes(s, "bind")
  /\ UNCHANGED mishaps /\ LaunchersStay

\* EADDRINUSE when the path is taken.
Bind(s) ==
  /\ daemon[s] = "bind"
  /\ IF file = Nothing THEN file' = s /\ Becomes(s, "listen")
                       ELSE Becomes(s, "gone") /\ UNCHANGED file
  /\ UNCHANGED mishaps /\ LaunchersStay

Listen(s) ==
  /\ daemon[s] = "listen"
  /\ Becomes(s, "up")
  /\ UNCHANGED <<file, mishaps>> /\ LaunchersStay

\* SIGTERM or SIGINT: the loop ends, the sessions are drained, and then the
\* guard removes the file, whoever bound it, before the listener is closed.
Terminate(s) ==
  /\ daemon[s] = "up"
  /\ Becomes(s, "drain")
  /\ Mishap
  /\ UNCHANGED file /\ LaunchersStay

GuardRemoves(s) ==
  /\ daemon[s] = "drain"
  /\ file' = Nothing
  /\ Becomes(s, "close")
  /\ UNCHANGED mishaps /\ LaunchersStay

CloseListener(s) ==
  /\ daemon[s] = "close"
  /\ Becomes(s, "gone")
  /\ UNCHANGED <<file, mishaps>> /\ LaunchersStay

\* SIGKILL or a panic leaves the file behind.
Crash(s) ==
  /\ daemon[s] \in Starting \cup Stopping \cup {"up"}
  /\ Becomes(s, "gone")
  /\ Mishap
  /\ UNCHANGED file /\ LaunchersStay

LauncherStep(l) ==
  \/ FirstConnect(l) \/ TakeLock(l) \/ LockHeld(l) \/ DoubleCheck(l)
  \/ Spawn(l) \/ PollConnects(l) \/ GiveUp(l)

RunServer(s) ==
  \/ CheckPath(s) \/ Probe(s) \/ RemoveStale(s) \/ Bind(s) \/ Listen(s)
  \/ GuardRemoves(s) \/ CloseListener(s)

LaunchNext ==
  \/ \E l \in Launchers :
       LauncherStep(l) \/ GiveUpEarly(l) \/ LaunchFails(l) \/ LauncherKilled(l)
  \/ \E s \in Daemons : RunServer(s) \/ Terminate(s) \/ Crash(s)

LaunchSpec == LaunchInit /\ [][LaunchNext]_launchVars

\* Processes that were started run; nobody has to start or stop any.
FairLaunchSpec ==
  /\ LaunchSpec
  /\ \A l \in Launchers : WF_launchVars(launcher[l] # "new" /\ LauncherStep(l))
  /\ \A s \in Daemons : WF_launchVars(RunServer(s))

-----------------------------------------------------------------------------
(* Properties.                                                             *)

\* At most one daemon serves, so no client can find the sessions of another
\* one missing (server_launcher.rs, "prevent two clients from racing"). It
\* follows from Reachable, and that from ServiceSpec.
OneDaemon ==
  raced \/ \A s, t \in Daemons : daemon[s] = "up" /\ daemon[t] = "up" => s = t

\* A daemon that serves is the one its clients reach: no other daemon removed
\* or replaced its socket, when starting or when ending; for launchers of any
\* kind, unless a daemon was spawned while another one started.
Reachable == raced \/ \A s \in Daemons : daemon[s] \in {"up", "drain"} => file = s

\* Why that holds: a daemon that starts alone and has looked at the path knows
\* that nobody serves.
StartInv ==
  /\ \A s, t \in Daemons :
       daemon[s] \in Starting /\ daemon[t] \in Starting => s = t
  /\ \A s \in Daemons : daemon[s] \in {"remove", "bind", "listen"} =>
       \A t \in Daemons : daemon[t] \notin {"up", "drain"}
  /\ \A s \in Daemons :
       /\ daemon[s] = "bind" => file = Nothing
       /\ daemon[s] \in {"listen", "up", "drain"} => file = s
       /\ daemon[s] = "close" => file # s

\* What the lock is for (server_launcher.rs, "to serialize server spawning across
\* clients"): daemons are spawned one while another starts only if somebody, like
\* the app, spawned one without the lock, or let go of it too early.
StartsApart == raced => loose

\* Why: until then, a daemon that starts has a launcher that holds the lock and
\* polls, so that no other is spawned meanwhile, and no other serves.
Holds(at) == lock # Nothing /\ launcher[lock] = at
NoneServes == \A s \in Daemons : daemon[s] \notin {"up", "drain"}
LockInv ==
  /\ \A l \in Locking :
       launcher[l] \in {"again", "spawn", "poll"} <=> lock = l
  /\ loose \/ ( /\ ~raced
                /\ DaemonStarts => Holds("poll")
                /\ (DaemonStarts \/ Holds("spawn")) => NoneServes)

\* Launching keeps the promises of OneServer: one daemon serves, what a launch
\* reports is true, and the lock keeps starts from overlapping
\* (ensure_server_running, run_server).
Service ==
  INSTANCE OneServer WITH
    Servers <- Daemons,
    serving <- {s \in Daemons : daemon[s] \in {"up", "drain"}},
    door    <- IF Connects THEN {file} ELSE {},
    told    <- [l \in Launchers |->
                  IF launcher[l] \in {"ok", "failed"} THEN launcher[l] ELSE "nothing"],
    trouble <- mishaps,
    lax     <- loose,
    void    <- raced
ServiceSpec == Service!Spec

\* A launch ends well, also over the socket of a crashed daemon and beside
\* launches that do not lock, unless a mishap happened meanwhile.
LaunchSucceeds ==
  \A l \in Launchers : launcher[l] \in {"lock", "spawn"}
                         ~> (launcher[l] = "ok" \/ mishaps > 0)
=============================================================================
