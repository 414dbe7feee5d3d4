--------------------------- MODULE WorkspaceRefresh ---------------------------
(***************************************************************************)
(* The status of a workspace in the sidebar: a watcher of its directory,   *)
(* the debounced timer that each event sets again, and the tasks that read *)
(* the status from JJ, write it to the store and show it (octty-app:       *)
(* app_workspace_status.rs; octty-store: workspaces.rs).                   *)
(*                                                                         *)
(* One working copy, which the application may list under different        *)
(* identifiers as it is renamed.  A status is the number of changes to the *)
(* working copy that it takes into account; 0 is also the status of a      *)
(* workspace that could not be read.  The paths that a watcher ignores are *)
(* no changes here, and a watcher that is asked for is created.            *)
(***************************************************************************)
EXTENDS Identifiers, Naturals

CONSTANT
  Slot  \* bound: refreshes in flight

ASSUME RefreshAssumption == None \notin Nat

VARIABLES
  changes,   \* of the working copy, external
  listed,    \* workspaces: the status that the sidebar shows
  stored,    \* table workspaces: its copy
  watched,   \* workspace_watchers
  events,    \* sent by watchers, not received
  due,       \* workspace_status_refresh_due_at: none, to come or past
  timer,     \* workspace_status_refresh_timer_active
  fresh,     \* timer tasks that were spawned and not polled yet
  asleep,    \* timer tasks that sleep
  suspended, \* workspace_status_refresh_suspended
  refresh,   \* tasks past their timer
  excused    \* history: a change may stay unseen, or an old status won

refreshVars == <<changes, listed, stored, watched, events, due, timer, fresh,
                 asleep, suspended, refresh, excused>>

Listed == {i \in Id : listed[i] # None}
InFlight(i) == \E t \in Slot : refresh[t] # None /\ refresh[t].id = i

RefreshInit(i) ==
  /\ changes = 0
  /\ listed = [j \in Id |-> IF j = i THEN 0 ELSE None]
  /\ stored = listed
  /\ watched = {} /\ events = {} /\ timer = {} /\ suspended = {}
  /\ due = [j \in Id |-> "none"]
  /\ fresh = [j \in Id |-> 0] /\ asleep = fresh
  /\ refresh = [t \in Slot |-> None]
  /\ excused = FALSE

-----------------------------------------------------------------------------
(* Watchers and their events.                                              *)

\* ensure_workspace_watchers, at every frame.
Watch ==
  /\ watched # Listed /\ watched' = Listed
  /\ UNCHANGED <<changes, listed, stored, events, due, timer, fresh, asleep,
                 suspended, refresh, excused>>

\* A file of the working copy changes.
Change ==
  /\ changes' = changes + 1
  /\ events' = events \cup watched
  /\ excused' = (excused \/ ~ Listed \subseteq watched)
  /\ UNCHANGED <<listed, stored, watched, due, timer, fresh, asleep, suspended, refresh>>

\* schedule_workspace_watch_notifications takes all events that have come;
\* schedule_workspace_status_refresh for each workspace.
Receive ==
  LET woken == events \ suspended IN
  /\ events # {} /\ events' = {}
  /\ due' = [i \in Id |-> IF i \in woken THEN "later" ELSE due[i]]
  /\ fresh' = [i \in Id |-> fresh[i] + IF i \in woken \ timer THEN 1 ELSE 0]
  /\ timer' = timer \cup woken
  /\ excused' = (excused \/ woken # events)
  /\ UNCHANGED <<changes, listed, stored, watched, asleep, suspended, refresh>>

-----------------------------------------------------------------------------
(* A timer task.                                                           *)

\* Its first poll: it sleeps until the refresh is due, or ends.
Poll(i) ==
  /\ fresh[i] > 0 /\ fresh' = [fresh EXCEPT ![i] = @ - 1]
  /\ IF due[i] = "none"
     THEN timer' = timer \ {i} /\ UNCHANGED asleep
     ELSE asleep' = [asleep EXCEPT ![i] = @ + 1] /\ UNCHANGED timer
  /\ UNCHANGED <<changes, listed, stored, watched, events, due, suspended, refresh, excused>>

\* The debounce interval is over.
Elapse(i) ==
  /\ due[i] = "later" /\ due' = [due EXCEPT ![i] = "past"]
  /\ UNCHANGED <<changes, listed, stored, watched, events, timer, fresh, asleep,
                 suspended, refresh, excused>>

\* Slip: a workspace that is being renamed is refreshed.
MayRefreshListed(i) == listed[i] # None

MayRefresh(i) == i \notin suspended /\ listed[i] # None

\* Slip: the mark that a timer runs stays.
TimerStays(i) == timer

TimerOver(i) == timer \ {i}

\* It wakes.  If the refresh was put off it sleeps again, which changes
\* nothing; otherwise the refresh starts, if the workspace still wants one.
Wake(i) ==
  /\ asleep[i] > 0 /\ due[i] # "later"
  /\ asleep' = [asleep EXCEPT ![i] = @ - 1]
  /\ due' = [due EXCEPT ![i] = "none"]
  /\ timer' = TimerOver(i)
  /\ IF MayRefresh(i)
     THEN /\ \E t \in Slot :
               /\ refresh[t] = None
               /\ refresh' = [refresh EXCEPT ![t] = [id |-> i, step |-> "read", got |-> 0]]
          /\ UNCHANGED excused
     ELSE excused' = TRUE /\ UNCHANGED refresh
  /\ UNCHANGED <<changes, listed, stored, watched, events, fresh, suspended>>

-----------------------------------------------------------------------------
(* refresh_workspace_status, and what the timer task does with its result. *)

At(t, step) == refresh[t] # None /\ refresh[t].step = step
Goto(t, step) == refresh' = [refresh EXCEPT ![t].step = step]

ReadStatus(t) ==
  /\ At(t, "read")
  /\ refresh' = [refresh EXCEPT ![t].step = "write", ![t].got = changes]
  /\ UNCHANGED <<changes, listed, stored, watched, events, due, timer, fresh, asleep,
                 suspended, excused>>

WriteStatus(t) ==
  /\ At(t, "write") /\ Goto(t, "done")
  /\ stored' = [stored EXCEPT ![refresh[t].id] = refresh[t].got]
  /\ UNCHANGED <<changes, listed, watched, events, due, timer, fresh, asleep,
                 suspended, excused>>

\* JJ or the store fails; the error is only logged.
FailStatus(t) ==
  /\ At(t, "read") \/ At(t, "write")
  /\ refresh' = [refresh EXCEPT ![t] = None]
  /\ excused' = TRUE
  /\ UNCHANGED <<changes, listed, stored, watched, events, due, timer, fresh, asleep, suspended>>

\* Whether what the sidebar shows from now on leaves something unseen.
Excuse(new) ==
  IF \A i \in Id : new[i] \in {None, changes} THEN FALSE
  ELSE excused \/ \E i \in Id : new[i] # None /\ (listed[i] = None \/ new[i] < listed[i])

ShowStatus(t) ==
  LET r == refresh[t] IN
  /\ At(t, "done")
  /\ refresh' = [refresh EXCEPT ![t] = None]
  /\ IF listed[r.id] = None
     THEN UNCHANGED <<listed, excused>>
     ELSE /\ listed' = [listed EXCEPT ![r.id] = r.got]
          /\ excused' = Excuse(listed')
  /\ UNCHANGED <<changes, stored, watched, events, due, timer, fresh, asleep, suspended>>

\* What the application does by itself.
RefreshStep ==
  \/ Watch \/ Receive
  \/ \E i \in Id : Poll(i) \/ Elapse(i) \/ Wake(i)
  \/ \E t \in Slot : ReadStatus(t) \/ WriteStatus(t) \/ ShowStatus(t)

RefreshFails == \E t \in Slot : FailStatus(t)

-----------------------------------------------------------------------------
Refresh == [id : Id, step : {"read", "write", "done"}, got : Nat]

RefreshOK ==
  /\ changes \in Nat
  /\ listed \in [Id -> Nat \cup {None}] /\ stored \in [Id -> Nat \cup {None}]
  /\ watched \subseteq Id /\ events \subseteq Id /\ timer \subseteq Id /\ suspended \subseteq Id
  /\ due \in [Id -> {"none", "later", "past"}]
  /\ fresh \in [Id -> Nat] /\ asleep \in [Id -> Nat]
  /\ refresh \in [Slot -> Refresh \cup {None}]
  /\ excused \in BOOLEAN

\* Every timer that is marked as active, and every refresh that is due, has a
\* task that will see to it (app_workspace_status.rs 78 to 135).
DueIsWatched ==
  \A i \in Id : (i \in timer \/ due[i] # "none") => fresh[i] > 0 \/ asleep[i] > 0
=============================================================================
