---------------------------- MODULE LiveTerminal ----------------------------
(* A live terminal of the app: the handle that the interface holds, the       *)
(* thread that reads the PTY, the thread that runs the terminal               *)
(* (octty-term/src/live_runtime.rs), and the interface, which presents the    *)
(* snapshots and caches the rows that it has painted (octty-app). Output is   *)
(* the row that it writes to, the content of a row is how often it changed.   *)
(* The pane stays in the workspace on the screen.                             *)
EXTENDS Integers, Sequences, FiniteSets

CONSTANTS
  Rows,                            \* rows of the terminal
  MAX_CONTROL_COMMANDS_PER_TICK,
  MAX_PTY_OUTPUT_CHUNKS_PER_TICK,
  MAX_INITIAL_SNAPSHOTS,
  MaxCommands,                     \* bound: commands of the user
  MaxOutput                        \* bound: chunks read from the PTY

ASSUME LiveAssumption ==
  /\ Rows # {} /\ IsFiniteSet(Rows)
  /\ MAX_CONTROL_COMMANDS_PER_TICK \in Nat \ {0}
  /\ MAX_PTY_OUTPUT_CHUNKS_PER_TICK \in Nat \ {0}
  /\ MAX_INITIAL_SNAPSHOTS \in Nat
  /\ MaxCommands \in Nat /\ MaxOutput \in Nat

VARIABLES
  commands,     \* command_rx
  hand,         \* the interface: "free", or "wake" between the two sends
  sent, typed,  \* history: commands sent, "key" commands among them
  closed,       \* the handle was dropped
  output,       \* pty_output_rx
  reader,       \* read_pty_loop: "read", or "wake" between the two sends
  taken,        \* history: chunks read
  exited,       \* the child process
  woken,        \* wake_rx is not empty; kind and number are not looked at
  pc,           \* the run loop
  written,      \* history: "key" commands written to the PTY
  content,      \* the terminal
  changed, force, emitted,  \* terminal_changed, force_snapshot, emitted_snapshots
  elapsed,      \* the wait ended with the snapshot interval
  hashes,       \* previous_row_hashes
  left,         \* history: the commands and chunks that the last drain left behind
  snapshots,    \* snapshot_rx
  exits,        \* exit_rx holds the exit
  noticed,      \* terminal_snapshot_rx holds a notification
  pending, latest,  \* pending_snapshot and latest: <<>> or one snapshot
  timer,        \* terminal_deferred_snapshot_timer_active
  frame,        \* the interface was told to draw
  cache,        \* the rows in the render cache
  lost          \* history: damage that was replaced before it was painted

handle == <<commands, hand, sent, typed, closed>>
pty == <<output, reader, taken, exited>>
runtime == <<pc, written, content, changed, force, emitted, elapsed, hashes, left>>
channels == <<snapshots, exits, noticed>>
view == <<pending, latest, timer, frame, cache, lost>>
vars == <<handle, pty, woken, runtime, channels, view>>

Blank == -1

Init ==
  /\ commands = <<>> /\ hand = "free" /\ sent = 0 /\ typed = 0 /\ closed = FALSE
  /\ output = <<>> /\ reader = "read" /\ taken = 0 /\ exited = FALSE
  /\ woken = FALSE
  /\ pc = "wait" /\ written = 0 /\ content = [r \in Rows |-> 0]
  /\ changed = TRUE /\ force = TRUE /\ emitted = 0 /\ elapsed = FALSE
  /\ hashes = [r \in Rows |-> Blank] /\ left = [commands |-> 0, output |-> 0]
  /\ snapshots = <<>> /\ exits = FALSE /\ noticed = FALSE
  /\ pending = <<>> /\ latest = <<>> /\ timer = FALSE
  /\ frame = FALSE /\ cache = [r \in Rows |-> Blank] /\ lost = {}

Running == pc \notin {"ended", "failed"}
Least(a, b) == IF a <= b THEN a ELSE b
First(s, n) == SubSeq(s, 1, n)
Rest(s, n) == SubSeq(s, n + 1, Len(s))
Count(s, x) == Cardinality({i \in 1 .. Len(s) : s[i] = x})

-----------------------------------------------------------------------------
(* The handle and the child process                                           *)

\* send_key and send_bytes ("key"), resize and scroll ("view"): a command, then
\* a wake. A runtime that has ended has dropped its receivers.
Send(kind) ==
  /\ hand = "free" /\ ~closed /\ Running
  /\ sent < MaxCommands
  /\ commands' = Append(commands, kind)
  /\ sent' = sent + 1
  /\ typed' = typed + (IF kind = "key" THEN 1 ELSE 0)
  /\ hand' = "wake"
  /\ UNCHANGED <<closed, pty, woken, runtime, channels, view>>

\* The pane goes with its handle, its receivers and what it shows; its rows in
\* the render cache are not looked at any more.
Remove ==
  /\ closed' = TRUE
  /\ commands' = Append(commands, "shutdown") /\ hand' = "wake"
  /\ snapshots' = <<>> /\ exits' = FALSE /\ noticed' = FALSE
  /\ pending' = <<>> /\ latest' = <<>> /\ timer' = FALSE
  /\ frame' = FALSE /\ cache' = [r \in Rows |-> Blank] /\ lost' = {}

Drop ==
  /\ hand = "free" /\ ~closed
  /\ Remove
  /\ UNCHANGED <<sent, typed, pty, woken, runtime>>

SendWake ==
  /\ hand = "wake"
  /\ hand' = "free" /\ woken' = TRUE
  /\ UNCHANGED <<commands, sent, typed, closed, pty, runtime, channels, view>>

\* What the child wrote before it ended may be read after it. Neither it nor its
\* output is followed after the pane was closed.
TakeOutput ==
  /\ reader = "read" /\ taken < MaxOutput /\ Running /\ ~closed
  /\ \E r \in Rows : output' = Append(output, r)
  /\ taken' = taken + 1
  /\ reader' = "wake"
  /\ UNCHANGED <<handle, exited, woken, runtime, channels, view>>

WakeForOutput ==
  /\ reader = "wake"
  /\ reader' = "read" /\ woken' = TRUE
  /\ UNCHANGED <<handle, output, taken, exited, runtime, channels, view>>

Exit ==
  /\ ~exited /\ ~closed /\ exited' = TRUE
  /\ UNCHANGED <<handle, output, reader, taken, woken, runtime, channels, view>>
-----------------------------------------------------------------------------
(* The run loop of the terminal's thread                                      *)

Wake ==
  /\ pc = "wait" /\ woken
  /\ woken' = FALSE /\ pc' = "drain"
  /\ UNCHANGED <<handle, pty, written, content, changed, force, emitted, elapsed,
                 hashes, left, channels, view>>

\* The wait is idle, or ends at once or with the interval: a snapshot is due.
TimeOut ==
  /\ pc = "wait" /\ ~woken
  /\ pc' = "drain" /\ elapsed' = changed
  /\ UNCHANGED <<handle, pty, woken, written, content, changed, force, emitted,
                 hashes, left, channels, view>>

\* The commands of a tick and then its output, which the cap on bytes may end
\* after any chunk. What is left waits for a later wake or timeout. Keys, the
\* responses to output and a startup command are written, which may fail once
\* the child has ended: the error ends the thread without a word. A shutdown
\* ends it after the commands before it. The input window may have ended.
Drain ==
  /\ pc = "drain"
  /\ \E n \in 0 .. Least(Len(output), MAX_PTY_OUTPUT_CHUNKS_PER_TICK), inWindow \in BOOLEAN :
       LET k    == Least(Len(commands), MAX_CONTROL_COMMANDS_PER_TICK)
           now  == First(commands, k)
           ends == Count(now, "shutdown") > 0
           keys == Count(now, "key")
           seen == IF ends THEN <<>> ELSE First(output, n)
           views == Count(now, "view")
       IN  /\ n = 0 => output = <<>>
           /\ commands' = Rest(commands, k)
           /\ output' = Rest(output, n)
           /\ left' = [commands |-> Len(commands'), output |-> Len(output')]
           /\ content' = [r \in Rows |-> content[r] + views + Count(seen, r)]
           /\ changed' = (changed \/ views > 0 \/ seen # <<>>)
           /\ inWindow => written + keys > 0
           /\ force' = (force \/ views > 0 \/ (inWindow /\ seen # <<>>))
           /\ \/ pc' = (IF ends THEN "ended" ELSE "show") /\ written' = written + keys
              \/ /\ exited /\ (keys > 0 \/ seen # <<>>)
                 /\ pc' = "failed" /\ UNCHANGED written
  /\ UNCHANGED <<hand, sent, typed, closed, reader, taken, exited, woken, emitted,
                 elapsed, hashes, channels, view>>

\* terminal_snapshot_due, the interval being over also when a wake came late:
\* the rows, and those whose hash changed.
Snapshot(late) ==
  LET due == changed /\ (force \/ emitted < MAX_INITIAL_SNAPSHOTS \/ elapsed \/ late)
  IN  IF due
      THEN /\ snapshots' = IF closed THEN <<>> ELSE Append(snapshots,
                [rows |-> content, damage |-> {r \in Rows : hashes[r] # content[r]}])
           /\ noticed' = ~closed
           /\ hashes' = content
           /\ changed' = FALSE /\ force' = FALSE
           /\ emitted' = Least(emitted + 1, MAX_INITIAL_SNAPSHOTS)
      ELSE /\ noticed' = (~closed /\ (noticed \/ exited))
           /\ UNCHANGED <<snapshots, hashes, changed, force, emitted>>

\* Slip: the wakes are drained at the end of the loop.
FinishAndDrain ==
  /\ pc = "show"
  /\ \E late \in BOOLEAN : Snapshot(late)
  /\ pc' = IF exited THEN "ended" ELSE "wait"
  /\ exits' = (exited /\ ~closed) /\ woken' = FALSE /\ elapsed' = FALSE
  /\ UNCHANGED <<handle, pty, written, content, left, view>>

\* A snapshot and its notification, then try_wait with the exit and another
\* notification. Output that has not been drained is not shown.
Finish ==
  /\ pc = "show"
  /\ \E late \in BOOLEAN : Snapshot(late)
  /\ pc' = IF exited THEN "ended" ELSE "wait"
  /\ exits' = (exited /\ ~closed) /\ elapsed' = FALSE
  /\ UNCHANGED <<handle, pty, woken, written, content, left, view>>

-----------------------------------------------------------------------------
(* The interface                                                              *)

Damage(some) == UNION {some[i].damage : i \in 1 .. Len(some)}

\* Slip: the damage of the last snapshot only.
CoalescedLast(some) == some[Len(some)]

\* coalesce_terminal_snapshots: the last one with the damage of all.
Coalesced(some) == [rows |-> some[Len(some)].rows, damage |-> Damage(some)]

\* Slip: a snapshot that is not presented sets no timer.
KeepForLater(next, active) == pending' = next /\ timer' = active /\ UNCHANGED <<latest, frame>>

\* schedule_deferred_terminal_snapshot for a snapshot that has to wait.
Defer(next, active) ==
  pending' = next /\ timer' = (active \/ next # <<>>) /\ UNCHANGED <<latest, frame>>

\* drain_live_terminal_snapshots after a notification, or after the one that the
\* timer sends: a new snapshot takes the place of the pending one, and is
\* presented when the terminal is selected or the last one is an interval ago
\* (prompt), which it is when the timer has fired.
Present ==
  /\ hand = "free" /\ ~closed /\ ~exits
  /\ \E prompt, fired \in BOOLEAN :
       LET next == IF snapshots = <<>> THEN pending ELSE <<Coalesced(snapshots)>>
           dropped == IF snapshots = <<>> THEN lost ELSE lost \cup Damage(pending)
       IN  /\ fired => timer
           /\ noticed \/ fired
           /\ IF next # <<>> /\ (prompt \/ fired \/ latest = <<>>)
              THEN /\ latest' = next /\ pending' = <<>> /\ frame' = TRUE
                   /\ timer' = (timer /\ ~fired)
                   /\ lost' = (dropped \cup (IF frame THEN Damage(latest) ELSE {})) \ Damage(next)
              ELSE Defer(next, timer /\ ~fired) /\ lost' = dropped
  /\ noticed' = FALSE /\ snapshots' = <<>>
  /\ UNCHANGED <<handle, pty, woken, runtime, exits, cache>>

\* The same after an exit, which closes the pane.
PresentExit ==
  /\ hand = "free" /\ ~closed /\ exits /\ (noticed \/ timer)
  /\ Remove
  /\ UNCHANGED <<sent, typed, pty, woken, runtime>>

\* terminal_paint_input: the rows that are damaged or not yet in the cache.
Paint ==
  /\ frame /\ hand = "free" /\ ~closed
  /\ frame' = FALSE
  /\ LET rebuilt == {r \in Rows : r \in Damage(latest) \/ cache[r] = Blank}
     IN  /\ cache' = [r \in Rows |-> IF r \in rebuilt THEN latest[1].rows[r] ELSE cache[r]]
         /\ lost' = IF pending = <<>> THEN lost \ rebuilt ELSE lost
  /\ UNCHANGED <<handle, pty, woken, runtime, channels, pending, latest, timer>>

-----------------------------------------------------------------------------
Next ==
  \/ (\E kind \in {"key", "view"} : Send(kind)) \/ Drop \/ SendWake
  \/ TakeOutput \/ WakeForOutput \/ Exit
  \/ Wake \/ TimeOut \/ Drain \/ Finish
  \/ Present \/ PresentExit \/ Paint

Spec == Init /\ [][Next]_vars

\* Threads, timers and the interface go on; the user and the child are free.
FairSpec ==
  /\ Spec
  /\ WF_vars(SendWake) /\ WF_vars(WakeForOutput)
  /\ WF_vars(Wake \/ TimeOut) /\ WF_vars(Drain)
  /\ WF_vars(Finish) /\ WF_vars(Present) /\ WF_vars(PresentExit) /\ WF_vars(Paint)

-----------------------------------------------------------------------------
(* Properties                                                                 *)

Over == closed \/ ~Running

\* The loop does not sleep on input: while it waits, whatever came after its last
\* drain has a wake in the channel or about to be sent, although the wakes are
\* drained together and the input only up to the caps (live_runtime.rs 75 to 82).
\* Only what a cap left behind may have none (live_runtime.rs 297 to 327).
NothingSleeps ==
  pc = "wait" =>
    /\ Len(commands) > left.commands => woken \/ hand = "wake"
    /\ Len(output) > left.output => woken \/ reader = "wake"

\* A row of the render cache is behind the presented snapshot only if the next
\* frame will paint it, or if its damage was replaced: that of a pending
\* snapshot by a later drain (app_live_terminals.rs 346), or that of a presented
\* one before the frame. No snapshot that is coalesced loses its damage.
StaleIfReplaced ==
  latest # <<>> =>
    \A r \in Rows : cache[r] # latest[1].rows[r] =>
      r \in lost \/ (frame /\ (r \in Damage(latest) \/ cache[r] = Blank))

\* What the reader has taken, and what the terminal shows, is presented in the
\* end: it is not left with the caps, the snapshot interval, the background
\* interval or a notification that came too early. Keys are written, and a
\* child that ended closes the pane unless a write to it has failed.
Arrives ==
  /\ (output # <<>> \/ latest = <<>> \/ latest[1].rows # content)
       ~> (Over \/ (output = <<>> /\ latest # <<>> /\ latest[1].rows = content))
  /\ \A n \in 1 .. MaxCommands : (typed = n) ~> (Over \/ written >= n)
  /\ exited ~> (closed \/ pc = "failed")
=============================================================================
