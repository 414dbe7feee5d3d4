# Octty, specified

TLA+ specifications of [Octty](../src/README.md), a desktop application that
keeps task spaces of terminals, and of `retach-octty`, the daemon that keeps
those terminals alive. TLC checks the modules on small instances; TLAPS proves
the main results for every value of the constants.

Contents: [the system](#the-system) · [modules](#the-modules) ·
[runs](#the-runs) · [fairness](#fairness) · [proofs](#the-proofs) ·
[disagreements](#where-the-code-and-its-comments-disagree) ·
[observations](#observations) · [abstractions](#what-is-left-out) ·
[plan](#the-plan)

## The system

Paths below are under `src/crates/`.

| Part | State | Operations | Interacts with | Hard behaviours | Must hold |
|---|---|---|---|---|---|
| Session (`retach-octty/src/session.rs`) | PTY, screen, `evict_tx`, `has_client`, `reader_alive`, `screen_notify` | `connect`, `disconnect`, reader loop, `Drop`, `ClientGuard::drop` | relay tasks through the screen mutex, the `Notify` and the eviction channel | the reader is a thread, clients are tasks, each store and send is a step of its own | the owner can be evicted; output for an attached client is not dropped; a removed session tells its client |
| Session bridge and relay (`server/session_bridge.rs`, `session_relay.rs`, `session_setup.rs`) | `render_cache`, `pending_render`, `throttle_sleep`, `refresh_notify` | snapshot, stale drain, kick, render, refresh, evict, final render | shares the screen and its `Notify` with the relay of the replaced client | lost or misdirected wake-ups; a write fails after the drain; lines scroll between two lock holds | order, no repetition, the picture catches up, the client leaves |
| Session manager and server (`session.rs`, `server/mod.rs`, `client_handler.rs`) | map of sessions behind a lock | create / attach modes, list, kill, 30 s sweep, shutdown | drops sessions on blocking threads, with a 5 s limit | kill against attach and against late creations | no client on a session that is in no map; a killed session stays away |
| Launcher and socket (`client/server_launcher.rs`, `server/mod.rs`, `server/socket.rs`, `octty-term/src/retach.rs` 452) | socket file, startup lock | connect, lock, spawn, poll; check, remove, bind, listen, remove at the end | the file system and the kernel | several launches at once; a socket left by a crash; a daemon that ends while another starts | one daemon, and clients reach it |
| PTY responses (`session.rs` 255–292, `session_relay.rs` 112–170) | `deferred_responses`, writer lock | defer, flush, drop the oldest; input of clients | `client_to_pty` holds the writer in a blocking write | the three-way wait of program, reader and writer | messages stay whole, responses in order, input arrives |
| Screen (`screen/grid.rs`, `performer.rs`, `mod.rs`) | grid, scrollback, pending lines, region, saved screen | process, resize, alternate screen | the reader writes, relays take | lines move between grid, scrollback and pending lines | every line is in one place, each is sent once |
| Cells, styles and rendering (`screen/cell.rs`, `style.rs`, `render.rs`) | rows of cells, style table, row hashes | print, erase, insert, delete, intern, compact, render | the client's picture | halves of wide characters; style identifiers are reused | no orphaned halves; cells keep their style; a skipped row is current |
| Protocol (`protocol/`) | frame buffer | `fill_from`, `decode_next` | sockets | partial frames, the size limit | the decoded frames are the sent ones |
| Client (`client/`) | raw mode, input filter | attach loop, detach key | socket | a detach key split over reads | input is forwarded unchanged |
| Control client (`octty-term/src/retach.rs`) | none between calls | ensure, capture, send, resize, kill | attaches like a client, so it evicts and is evicted | check-then-attach; writes that nobody answers; two names after a rename | input is typed once; the retry makes up for a missing session; calls end |
| Live runtime (`octty-term/src/live_*.rs`) | emulator, pending input, dirty flags, deadlines | commands, output, wakes, snapshots | the application by channels | caps on drains; deferred snapshots | input order; the last output is eventually in a snapshot |
| Layout (`octty-core/src/layout.rs`) | panes, columns, active pane | add, remove, resize, move | every pane operation | long sequences of edits | columns and panes agree, fractions match |
| Store (`octty-store`) | tables of workspaces, snapshots, activity | save, rename, delete | tasks of the application | multi-statement deletes; last writer wins | no partial workspace |
| Task space (`octty-app`: `app_core.rs`, `app_panes.rs`, `bootstrap.rs`) | workspaces, active snapshot | open, add, select, save, rename, forget, bootstrap | store, jj, terminals, by asynchronous tasks | results applied to a state that has moved on; unordered saves | a pane the user added is not lost; the last state is the saved one |
| Live terminals (`app_live_terminals.rs`, `terminal_lifecycle.rs`) | runtimes, snapshots, render cache, flush queue, discovery | start, exit, present, paint, flush and retry, discover | live runtime, store | late answers for closed panes; retries; damage of snapshots that are not painted | flushes converge; answers go to the pane that asked; the picture is current |
| Status and activity (`app_workspace_status.rs`, `app_activity.rs`) | timers, activity maps | refresh, suspend, reconcile, delete | jj, store | timers against running refreshes; a rename or a reload under them; persistence after deletion | the last change is shown; a renamed workspace and a closed pane stay gone; marks come to rest |
| Rendering of the window, input, menu, CLI, jj | — | pure functions and I/O | — | — | not modelled |

`PROJECT.json` lists the hazards line by line with the property that covers
each of them, or why none does.

## The modules

| Module | What it is |
|---|---|
| `OutputFeed` | What the daemon promises a client about output: lines in order and never twice, a picture that only moves forward, nothing after the notice that ends the connection, and a final picture for a client that is told that the output ended. |
| `SessionAttach` | One session: reader thread, connections, relays, kill and sweep. It implements `OutputFeed`. |
| `RelayThrottle` | The sleep of `screen_to_client`, in ticks. |
| `ProgramInput` | What the program is promised about its input: whole messages, those of a client once and in the order of typing, and answers once and in the order of the queries, of which only old ones may be passed over. |
| `PtyResponses` | Who writes to the PTY: program, reader thread, clients and the writer's mutex. It implements `ProgramInput`. |
| `Screen` | The lines of a terminal screen: grid, scrollback, pending lines, regions, alternate screen, resizes. |
| `Paint` | The cells of a window with a scroll region and one line of scrollback: wide characters, style table, row hashes. |
| `OneServer` | What those who launch a daemon are promised: one serves at most, a connection reaches it, and a launch that fails does so while none serves and after a mishap, or is the mishap; until two start together. |
| `DaemonStart` | Launchers, daemons and the socket file. It implements `OneServer`. |
| `Sessions` | The daemon's sessions by name and the connections to them: a pane's client, the flush of typed input with its retry, the capture and the kill. |
| `LiveTerminal` | A pane's terminal in the app: handle, reader thread, run loop, presentation, render cache. |
| `Layout` | The layout of a task space: its panes, one per column, and the focus, with the pure operations of `layout.rs`. |
| `TaskSpace` | The application: sidebar, layout on the screen, live terminals, the store, and the tasks between them. It extends `Layout`. |
| `Identifiers` | The identifiers of workspaces, for the next three. |
| `WorkspaceRefresh` | The status of workspaces: watchers, debounced timers, refreshes. |
| `PaneActivity` | The marks of panes: in memory, in the store, and the tasks between them. |
| `Background` | The two composed with the operations of the sidebar that reload or rename the workspace under both. |
| `MCSessionAttach`, `MCDaemonStart`, `MCPaint`, `MCSessions`, `MCTaskSpace`, `MCBackground` | Values, or bounds, of constants for TLC. |
| `Subsequences` | What a filter keeps of a sequence, by positions: the proofs cannot follow `SelectSeq`, which is recursive. |
| `SessionAttach_proofs`, `Daemon_proofs` (of `DaemonStart`, `RelayThrottle` and `Sessions`), `Terminal_proofs` (of `Screen` and `PtyResponses`), `Paint_proofs`, `LiveTerminal_proofs`, `TaskSpace_proofs`, `Background_proofs`, `Subsequences_proofs` | The theorems. |

In the daemon, output flows from `PtyResponses` (the reader's input) through
`Screen` and `Paint` (what the reader does with it under the screen mutex) to
`SessionAttach` and `RelayThrottle` (how it reaches clients). The modules meet in
few points: `Screen`'s `TakePending` is the drain of `SessionAttach`, where the
contents of the screen are a counter; `Paint`'s `Render` is what a relay sends.
`Sessions` is the side of the daemon that `TaskSpace` calls: one `FlushSend` there is the
conversation of connections here, and one connection that is attached here is a
whole `conn[c]` with its relay in `SessionAttach`. In the app, `TaskSpace` starts and ends what `LiveTerminal` runs, and `Background`
is what goes on beside it: its rename and its reload are those of `TaskSpace`, seen
from the status and the marks.

A few operators are named as a *slip*: an action or a helper as a plausible bug
would have it. They are in no `Next` and only serve to show that each property
depends on the code.

### SessionAttach

A step is what one thread or task does between two points where another one can
observe it: a hold of the screen mutex, an atomic load or store, an operation on
the eviction channel, a socket write. `conn[c]` is the program counter of
`handle_session` and its guard, `relay[c]` that of the spawned relay:

    new -mark-> mark -switch-> setup -snapshot-> send -write-> drain -> kick -> bridge -> guard -> clear -> gone
                                                                       relay: start -> poll <-> wait, write -> done

| State | Code |
|---|---|
| `inMap`, `mgr` | the entry in `SessionManager::sessions` and the holder of its tokio mutex |
| `evictTx`, `evict[c]` | `Session::evict_tx` names the connection whose `watch` channel it is; the channel carries `true` ("live"), `false` ("evicted") or is closed |
| `hasClient`, `readerAlive` | the two atomics |
| `version` | contents of the visible rows, as a counter |
| `scrolled`, `taken` | lines pushed off the top; `pending_scrollback` holds `taken+1 .. scrolled` |
| `noted`, `notes` | OSC notifications and `queued_notifications` |
| `permit`, `waiters`, `woken` | tokio's `Notify`: one stored permit or a FIFO queue of waiters; a woken waiter that is dropped passes the wake-up on |
| `out[c]` | the message that is being written |
| `upto`, `lines`, `shown`, `got`, `told` | what the client received; `shown` is also what `render_cache` stands for |
| `contested` | history: connections that were present together with another one |

The actions follow the functions: `ConnectMark`/`ConnectSwitch` (`connect` under
the manager lock), `SetupFail`, `Snapshot`/`SendInitial`/`SendFail`/`DrainStale`
(`send_initial_state`), `Kick`, `Detach`, `RelayFinished` (`handle_session`),
`GuardCheck`/`GuardClear` (`ClientGuard::drop`: the read and the store are two
steps), the branches of the relay's `select!`, `RelayAbort`, and for the end of
the session `KillRemove`, `KillDisconnect`, `Sweep`, `DropKill`, `DropEvict`.
`PROJECT.json` maps each of them to its lines.

### RelayThrottle

`SessionAttach` may take the throttled branch at any time after a notification.
`RelayThrottle` gives the sleep its length. It contains the reader's
notifications, also its last one (`ReaderEnds`, `LastNotify`), the client's
`RequestRefresh`, `Evict`, the branches of the relay's `select!` (`Wake`, `WakeDead`,
`Render`, `Refresh`, and `RelayLeaves` for the eviction and for a failed write) and a
tick. A refresh and the final render paint at once; they leave `pendingRender` and the
sleep as they are.

### Layout and TaskSpace

GPUI runs every handler of `OcttyApp` on the main thread, so each handler is one
action, with all it calls: `add_pane_state` is `AddPane` with the sessions it
assigns, the terminals it starts and the save it spawns. What a handler spawns
runs on tokio: a statement of the store, a call of `jj` or of the daemon is one
step, and the steps of different tasks interleave. The result comes back in
another step of the main thread, when the state may have moved on.

| State | Code |
|---|---|
| `listed`, `active`, `shown` | `workspaces`, the workspace under `active_workspace_index`, `active_snapshot` |
| `live`, `failed` | `live_terminals` and `failed_live_terminals`, by workspace and pane (`live_terminal_key`) |
| `pending`, `flushing` | `pending_terminal_inputs`, `terminal_flush_active` |
| `task[k]` | one spawned task: `load` (`open_workspace`), `save` (`save_workspace_snapshot`), `exit` (`close_exited_stored_terminal_pane`), `flush` (`schedule_terminal_flush`), `reload` (`run_navigation_operation`, the rename and forget operations, the bootstrap) |
| `kills` | `kill_terminal_session` in flight |
| `jj`, `rows`, `disk` | what `jj workspace list` says; the tables `workspaces` and `workspace_snapshots` |
| `shells` | the daemon's sessions, by the workspace and pane their name was hashed from |
| `closed`, `strays`, `disturbed`, `faulty` | history: panes that were closed, panes that were clicked on when the layout on the screen had not got them, whether operations on one workspace overlapped or a write failed, workspaces whose load failed |

| Task | Steps |
|---|---|
| load | `LoadRead` - (`LoadCreate`) - `LoadApply`, or `LoadFail` |
| save | `SaveRun` or `SaveFail` |
| exit | `ExitRead` - `ExitWrite`, or `ExitFail` |
| flush | `FlushTake` - `FlushSend` - `FlushSave` for each terminal - `FlushApply`, and again; `FlushFail` |
| reload | *create:* `CreateInJJ`; *forget:* `ForgetInJJ` - `DeleteLayout` - `DeleteRow`; *rename:* `CheckName` - `RenameInJJ` - `RenameCopy` - `RenameRows`; then for all `ReloadList` - `ReloadUpsert` - `ReloadRead` - (`ReloadCreate`) - `ReloadApply`; `ReloadFail` at any of them |

`Init` is a start of the application: JJ's workspaces, layouts and daemon
sessions as an earlier run may have left them, and the bootstrap in flight. A
restart is therefore a new behaviour, and what it finds is what `SettledAgrees`
and `StoredPanesStay` speak of.

`workspace_id_for` hashes the root and the name; the model has one root, so a name
is an identifier. Two names of one daemon session are two elements of `Shell`.

### PtyResponses

The program, the reader thread and the blocking tasks of the clients are the
processes; both directions of the PTY hold little. A message, typed or a
response, is two bytes, which is the least that something can come between.

| State | Code |
|---|---|
| `output`, `blocked` | what the PTY holds of the program's output; the chunk it waits to write |
| `sent`, `unread` | bytes written to the PTY, and how many of them the program has not read |
| `lock`, `left` | holder of `pty_writer`, and what its `write_all` has still to write |
| `reader`, `held`, `deferred` | `persistent_reader_loop`, `responses`, `deferred_responses` |
| `client`, `typing`, `typed` | the attached client; the `spawn_blocking` tasks that have a message |

`ReadOutput` is a `read` with the screen's answers, `Reply` and `Defer` the two
outcomes of `try_lock`, `TakeWriter` and `WriteByte` the lock and `write_all`.
`Replace` aborts the relay of a client, whose blocking task goes on.

### Screen and Paint

Lines and cells are two modules: a run over both would have neither many
columns nor a long scrollback. In `Screen` a row is the line last printed on it, or
`Blank`; lines are numbered. `grid` is the buffer of `Grid`: the scrollback and
behind it the visible rows, with `back` for `scrollback_len` and `pending` for
`pending_start`. `off` and `seen` are history: the lines above the main screen and
how many a client was given. An action is an operation of the program (an
escape sequence by its effect on lines), the take of a relay, or a resize.

In `Paint` a row is its cells, in a window of several rows with a scroll region,
above which one line of scrollback is kept: a wrap goes down to the next row or
scrolls the region. A cell is a width, a style identifier and, for the
properties, the style it was written with (`ink`); a row also knows whether
`Margin` has cut a wide character in it since it was blank (`cut`, history).
Which character a cell shows is left out.
`scr` bundles the rows and the style table, which the code changes together
(`intern_with_gc` scans the rows). `Render` is `take_and_render` with its hashes.

### DaemonStart

`launcher[l]` is where a call of `ensure_server_running` is, `daemon[s]` where a
process is in `run_server`:

    new - lock - again - spawn - poll - ok | failed       new - check - (probe - remove) - bind - listen - up
           \- wait -/                                     up - drain - close - gone

`file` names the daemon whose socket is at the path. Each check, removal, bind
and listen is a step; `Terminate` is a signal, `Crash` leaves the file behind.
The launchers in `Locking` are retach's own client; the others are the app,
which spawns the daemon without the lock. A launcher may fail (`LaunchFails`), be
killed (`LauncherKilled`) or give up while the daemon still starts (`GiveUpEarly`); each
releases the lock. `mishaps` counts these and the daemons that end. Two history variables
say what became of the lock: `loose`, a daemon started without its launcher holding it
all the while, and `raced`, a daemon was spawned while another one started.

### Sessions

One pane, its session under one or two names, and all who connect to it. A step is
what a task does up to its next message; a connection is a socket with what is queued
for the daemon, the task that serves it and its first answer:

    first -list-> closed    first -kill-> dropping -> closed    first -attach-> greet -> screen -> relay -> closed

| State | Code |
|---|---|
| `sessionOf`, `running`, `doomed` | `SessionManager::sessions` by name; sessions whose program and reader run; sessions that `drop_blocking_with_timeout` has |
| `conn[c]` | `req`, `name`: the first message; `open`: the caller has not hung up; `sent`: not yet read; `srv`, `session`, `evicted`: where the daemon's task is; `reply` |
| `renamed`, `live`, `closed` | the payload's `session_id` is of an earlier identifier; `live_terminals` has the pane; it was closed |
| `pending`, `flush`, `batch` | `pending_terminal_inputs`, the task of `schedule_terminal_flush`, the inputs it has taken |
| `kill`, `opener` | `kill_terminal_session`; a `retach open`, the pane's own or a stranger's |
| `faults`, `read`, `meddled`, `final` | history, for the properties |

What the caller has written and the daemon has not read is lost when the daemon's end
closes; a write to a closed end fails; a write of the daemon to a caller that has hung up
fails and ends its task (`Greet`, `SendScreen`, `OutputFails`). `Attach` is one step, as it
happens under the manager's lock: it evicts whoever is attached. The flush sends
(`FlushDial`, `SendInput`, `SendDetach`), ensures when that fails (`Listed`, `Created`),
sends once more, and captures; `flush.why` says for what it is ensuring.

### LiveTerminal

| State | Code |
|---|---|
| `commands`, `output`, `woken`, `snapshots`, `exits`, `noticed` | the channels: `command_rx`, `pty_output_rx`, `wake_rx`, `snapshot_rx`, `exit_rx`, `terminal_snapshot_rx` |
| `hand`, `reader` | a sender between its two sends, the message and the wake |
| `pc`, `changed`, `force`, `emitted`, `elapsed`, `hashes` | the run loop, `terminal_changed`, `force_snapshot`, `emitted_snapshots`, whether the interval is over, `previous_row_hashes` |
| `pending`, `latest`, `timer`, `frame`, `cache` | of the interface: `pending_snapshot`, `latest`, `terminal_deferred_snapshot_timer_active`, whether a frame is due, the rows of the render cache |
| `left`, `lost`, `sent`, `typed`, `taken` | history |

`Wake`/`TimeOut`, `Drain` and `Finish` are one round of the loop; `Present`,
`PresentExit` and `Paint` are the handlers of the interface. Output is the row that
it writes to and the content of a row how often it changed, which is what row
hashes and damage tell apart.

### WorkspaceRefresh, PaneActivity and Background

There is one project root and in it one working copy, known under the identifiers that
its workspace is given one after another, and one pane in it; `None` is another workspace of the root. A status is the number of changes it takes
into account, a mark whether something happened since the pane was seen.

| State | Code |
|---|---|
| `listed`, `stored` | the workspace and its status in `workspaces` and in the table of that name |
| `watched`, `events` | `workspace_watchers` and what `workspace_watch_tx` carries |
| `due`, `timer`, `suspended` | `workspace_status_refresh_due_at` (none, to come or past), `..._timer_active`, `..._suspended` |
| `fresh`, `asleep`, `refresh[t]` | the tasks of `schedule_workspace_status_refresh`: before their first poll, asleep, and past the timer (`read` - `write` - `done`) |
| `mem`, `pending`, `rows` | `pane_activity`, `pending_pane_activity_persistence`, the table `pane_activity` |
| `persist`, `recon` | the tasks behind `pane_activity_persist_active` (`idle`, `sleep`, `write`) and `pane_activity_reconcile_active` (`rest` - `rows` - `layouts` - `write`) |
| `active`, `shown`, `live`, `jobs`, `panes`, `shells` | of the task space: what is on the screen, running terminals, tasks of closed panes, stored panes, sessions of the daemon |
| `ops[k]` | the operations of the sidebar in flight: a rename (`check` - `jj` - `store`, then as the other) or a reload (`discover` - `write`, or `rows` if JJ cannot list - `layout` - `marks` - `apply`) |
| `excused`, `since`, `closed`, `late`, `lost`, `renamed`, `ghost` | history, for the properties |

A timer that two events set is spawned once, but a task that a rename orphaned
and the one of the next event may both be asleep: `fresh` and `asleep` count them.
`Wake` says both what a timer does that finds its refresh due and what it does when
the refresh was taken by another; a timer whose refresh was put off sleeps again,
which changes nothing. `Close` and `Exit` are the two ways a pane ends, on and off
the screen; where its stored layout still has it, opening the workspace starts it again
(`Opened`, `Apply`). `Apply` is `rekey_workspace_runtime_state` with `apply_bootstrap`.
Operations overlap as they like: nothing in the code keeps a second one from starting. Each
of their steps may fail (`OperationFails`), also after the store has committed a rename; a
rename that fails resumes the name it started from (`Fails`).

## The runs

| Run | Instance | Checks |
|---|---|---|
| `attach_feed` | 2 connections, 1 line that scrolls off or 1 notification, kill | `NoRepeatedLine`, `NoteOnce`, `HasClientAlone`, `NoOrphan`, and that `OutputFeed` is implemented |
| `attach_live` | 1 connection that may send `RefreshScreen` at any time, 2 reads that paint, the sweep; a second connection and a kill within `LiveBound`; fair | `LeavesAtLast`, `ScreenCatchesUp` |
| `throttle` | 16 ticks, fair | `MinimumInterval`, `PausesArePainted` |
| `pty` | 2 clients with two messages each, 3 queries, room for 2 bytes and 2 chunks, 1 deferred response, fair | `AnswersKept`, `InputArrives`, and that `ProgramInput` is implemented (`InputSpec`) |
| `screen` | windows of up to 3 rows, 2 lines of scrollback, 2 printed lines, 3 that scroll off | `GridInv`, `ScrollbackIsHistory`, `PendingIsUnsent`, `OnePlace`, `OutsideStays` |
| `paint` | six programs: a window of 3 x 2 cells without colours; 2 x 2 with the alternate screen, 2 x 2 with a colour; 2 x 1 and 1 x 2 with two colours, one slot and the alternate screen; one cell with a colour, the alternate screen and a client | `HalvesTogether`, `InkStays` |
| `daemon` | 3 launchers, of which 2 lock, 4 daemons, 2 mishaps, fair | that `OneServer` is implemented (`ServiceSpec`, from which `Reachable` and `OneDaemon` follow), `LaunchSucceeds` |
| `sessions` | 3 connections, 4 sessions, 2 inputs, 1 failure, one trouble at a time (`OneTrouble`); fair | `InputOnce`, `NoFalseAlarm`, `CallsEnd`, `ClosedIsStopped` |
| `live` | 2 rows, 1 command, 2 chunks, caps of 1 command and 2 chunks, 1 initial snapshot, fair | `NothingSleeps`, `StaleIfReplaced`, `Arrives` |
| `taskspace` | 2 workspaces, a pane that a terminal runs in and one without, 2 tasks in flight, 2 queued inputs, 1 navigation operation, 1 failure | `ShownIsActive`, `LayoutSound`, `NeverBlank`, `SettledAgrees`, `ClosedStaysClosed`, `OneTerminal`, `LiveKeepsPane`, `StoredPanesStay` |
| `background` | 2 identifiers, 2 refreshes in flight, and one of the budgets of `MCBackground`: up to 2 changes, 3 events of panes, 2 operations that may overlap, 1 failure; fair | `GoneStaysGone`, `ClosedIsForgotten`, `StatusSettles`, `MarksSettle` |
| `paint_stale` | the smallest that shows it | the [disagreement](#where-the-code-and-its-comments-disagree) |

`CHECK_DEADLOCK FALSE` is in every run but `throttle`, whose time goes on: a
session whose program ended and whose clients left, an application that is idle,
daemons that are gone and bounds that are used up all stop rightly.

Why the bounds suffice:

* `attach_*`: a connection value attaches once, so the number of clients is the
  number of attachments; a reconnect is another value. Every race of the attach
  protocol is between a connection and its successor, so two connections meet
  each other in every phase of both. A scrolled line falls before, between or
  after the two lock holds of one attachment, and on both sides of an eviction.
  Larger instances were checked to agree: three connections, two lines, and two
  connections with refreshes, kill and sweep, up to 3.6 million states, and two
  notifications that overflow a queue of one. `FeedBound` keeps notifications and
  kills apart. `LiveBound` takes nothing from the lone connection, and from the
  pair only steps that nothing obliges to happen. One changed row distinguishes an old picture from the current one, so liveness needs a
  single read. For safety of lines and eviction the theorems remove the bounds.
* `pty`: a queue of one deferred response overflows with three queries, of which
  one may be held, one deferred and one unread; two messages of a client have an order. The room is smaller than a
  message and a response together, so both sides can be stopped in the middle.
* `screen`: three rows give a region with rows above and below; three lines fill
  a scrollback of two and drop one. Bounds stop printing and scrolling on the main
  screen, nothing else; a saved cursor may be in any row.
* `paint`: three columns are the fewest in which a wide character can be next to
  a cell that is not its own, at either margin; two rows are the fewest in which a wrap goes
  down instead of scrolling, a region leaves a row outside, and a window grows over
  its scrollback. For colours two cells suffice, of which two compete for
  one slot; one column wraps on every character. Windows shrink and grow up to the given size.
* `daemon`: a crash before the behaviour starts is in `Init`, and each of the three
  launches may spawn a daemon of its own besides; the launchers are one that holds the
  lock, one that waits and one that does not care. Of the two mishaps one may let go of the
  lock and the other end what then starts.
* `sessions`: the flush, the kill and a `retach open` each have one call at a time, and
  a connection that was hung up may still be read from, which evicts nobody new. Two
  inputs are the fewest that two connections of one batch carry. `OneTrouble` lets
  a pane without a live terminal meet one of a stranger's client, its closing, a failure,
  a rename and the end of its program; what it forbids are steps that are not fair. Two
  troubles at once, with one input, were checked to agree (1.1 million states).
* `live`: with one command and two chunks every cap is reached (a shutdown is a
  second command), and the damage of two snapshots differs.
* `taskspace`: a result that comes too late needs the workspace it is for and one
  other, and two tasks that pass each other; the only operation with three
  participants is a flush with a load and a save, whose effects on the store are
  those of two saves. Two panes make columns, a focus that has somewhere to go
  and a layout of which one pane is lost. One navigation operation overlaps with every
  load, save, exit and flush; two of them overlap only in that the later result
  replaces the earlier one. One failure may hit any step: terminals that do not
  start, writes and reads of the store, calls of `jj` and kills; a flush whose
  session cannot be reached is no further failure, as its terminal has already
  failed. `MCBound` keeps the run short: an operation of the sidebar starts while
  one workspace is listed, and if two exist from the beginning nothing fails; after a
  click on a pane that has left nothing fails, and one more operation of the sidebar
  starts only if it started with one workspace.
  Without it the instance has several million states; it was
  checked in parts with the same result. So were `OneTerminal` and `LiveKeepsPane` with
  two navigation operations (4.9 million states), and three by simulation.

* `background`: a workspace that is renamed needs a second identifier, and with
  two operations it can be named back. Two refreshes pass each other, or one is in
  flight while the next is set. The marks of a pane have two values, so three events
  record, look and record again, or record, close and come late. The budgets go
  to one side, or to one side and an operation: status and marks meet only in
  the operations. Two operations overlap with a change or a failure of one of them, which
  is what brings an old name back; beside the marks there is one, and no reconciliation
  where none is in the budget. One event of a pane would not do beside a rename: after it closed
  its workspace is renamed, and something has to be left to bring it back.

Most properties of `TaskSpace` speak of behaviours in which operations on one
workspace do not overlap (`~disturbed`): a task of one workspace runs while the
user works in the other, or all tasks of a workspace end before the next begins.
This is not a detail. The saves of one workspace are independent tasks over
independent connections, nothing orders them, and where they overlap the last
writer wins: TLC finds a closed pane in the stored layout within a few steps.
`LayoutSound`, `NeverBlank` and the first half of `ShownIsActive` (the active workspace is in
the sidebar) hold without that condition. Its second half (the layout on the screen is that of
the active workspace), `SettledAgrees`, `ClosedStaysClosed`, `OneTerminal`, `LiveKeepsPane` and
`StoredPanesStay`, and the theorems of these names, say nothing about what follows the first overlap
or failure: there a late save does lose panes, and of two navigation operations that overlap the later
result may show the layout of a workspace under the name the other one gave it.

## Fairness

* `SessionAttach`: the reader thread eventually calls the `notify_one` it has come
  to; nothing obliges the program to write or to exit, so `ReaderChunk` and
  `ReaderEof` are not fair. The task that dropped a session goes on
  (`KillDisconnect`, `DropKill`, `DropEvict`); no kill need come. The sweep runs
  every 30 s, but is not assumed, so that liveness does not lean on it. Each
  connection task and each relay task makes a step if it stays able to: the
  tokio scheduler. `Detach` (a decision of the user) and the first step of a
  connection are not assumed. A socket write completes or fails. `select!` picks
  a random branch among the ready ones: for a client that may send
  `RefreshScreen` again and again, this is strong fairness of the branches that
  its requests disable for a moment (`attach_live`); for other clients weak
  fairness of the relay is enough, and no more is assumed.
* `RelayThrottle`: the relay's branches and time itself go on.
* `PtyResponses`: the reader thread and the blocking tasks go on. That the program
  reads its input again and again (`SF` of `ReadInput`) is an assumption about a
  program outside of the code, and `InputArrives` needs it. It may stop writing
  at any time. The mutex needs no more than weak fairness, as the messages are finite.
* `DaemonStart`: processes that were started run; nobody has to start one or to
  end one, and no mishap has to happen. A launcher's fifty polls are as long as a
  daemon needs to listen, or its giving up counts as a mishap.
* `Sessions`: the daemon's tasks and the threads that drop sessions go on, and so do the
  flush, the kill and a client that has a terminal; the terminal of a closed
  pane goes away. Users, programs, strangers, the sweep and all failures are free.
* `LiveTerminal`: the two threads, the timers and the interface go on; the user
  and the child process are free.
* `Background`: tasks, timers, watchers' events and frames go on, and so does an
  operation of the sidebar once it is started; each task is fair by itself. Changes
  of files, output, looks, closing panes and failures are free. That a change
  is followed by an event is the watcher's promise.
* `Screen` and `Paint` are data structures behind one mutex and have no liveness.
  `TaskSpace` has none yet: `NeverBlank` is the safety half of one, that the load
  that will answer is there, and `CallsEnd` of `Sessions` is what a flush of it does.

## The proofs

`SessionAttach_proofs`, for any set of connections and any bounds:

* `TypeCorrect`: `TypeOK`, including what the notification queue can hold. Lemmas
  on `Notify` (`NotifyOneType`, `DropNotifiedType`) and on writes
  (`ReceivedType`, `TakeAndRenderType`) carry the cases.
* `PhaseCorrect`: where the relay can be for each phase of its connection, and
  that a client that was told to leave has no relay.
* `LineCorrect`, the inductive invariant behind the order of output: what each
  connection has received (`Behind`), and what is being written to it, lies behind
  `taken`. `NoRepeatedLine` alone is not inductive: two relays may drain one
  screen, and only `upto[c] <= taken` relates a connection to what the other
  relay took. The stale drain is the step that establishes it: it is exactly
  the fact that `DrainStaleSkipped` breaks. `BehindFrame` shows once that the connections
  that take no part in a step stay behind.
* `LinesOnce`: `NoRepeatedLine`, from `LineInv` and `PhaseInv`.
* `EvictableAlways`, `NoOrphanEver`: from `OwnerInv` (who holds the manager lock
  and the sender). The induction needs that a connection in `connect` holds the lock
  while the session is in the map, so that removal waits for it.
* `HasClientKept`: `HasClientAlone`, from `AloneInv`. It is not inductive: a connection
  that is not contested has to be known to be the only one present, so that
  whoever clears `has_client` is contested or does not take it from anybody.
* `NotesOnce`: `NoteOnce`, from `NoteInv`: what a client received or is being sent was
  queued before, so a notification that is queued is a new one.
* `ImplementsFeed`: `FeedSpec`, each action mapped to a step of `OutputFeed` or
  to a stutter, with `PhaseInv` and `LineInv` on both sides.

`Daemon_proofs`, for any number of launchers, with and without the lock, that may fail, be
killed or give up, and of daemons that may crash or be terminated at any step:

* `ReachableEver` and `OneDaemonEver`, as long as no two daemons start together (`~raced`).
  The induction is `StartInv`: a daemon that starts alone and has looked at the path knows
  that nobody serves, since the file is that of whoever serves. The lock has no part in it.
* `Locked`: what the lock is for (`StartsApart`). Two daemons start together only after a
  launch without it, like the app's, or one that let go of it too early. The induction is
  `LockInv`: until then a daemon that starts has a launcher that holds the lock and polls. It
  leans on `StartInv`, since the second connect of a launcher (`DoubleCheck`) tells
  only whether the daemon of the *file* listens.
* `ImplementsService`: `ServiceSpec`. A daemon serves from its
  `listen` to the removal of its file, and a connection reaches it in just that time
  (`DoorServes`), so that the state of `OneServer` has both as one. That a launch
  fails only after a mishap is about the past of those who gave up: `UpInv` says that as
  long as there was none, whoever polls has a daemon that starts or accepts, and whoever waits has
  that or a holder of the lock. Once two daemons started together `OneServer` promises nothing,
  and `StartsApart` shows that this takes somebody who is lax about the lock.

And `RendersApart`, i.e. `MinimumInterval`
for every length of the throttle, from `ThrottleInv`. It is about the renders the throttle lets
out, whatever refreshes come in between.

`Terminal_proofs`, for windows, scrollbacks and programs of any size: `GridCorrect`
(`GridInv`), `PendingCorrect`, `HistoryCorrect` and `CursorCorrect`. The induction
is `GridInv` with `Ledger`, which says line by line that the scrollback is the
end of the history and where the boundary of the pending lines is. `PendingIsUnsent`
alone is not inductive: that a line dropped at the limit is the oldest one, and that a
taller window takes back the newest ones, needs the length of the history. Each operation is reduced
to one of four changes of the grid (`ScrolledUpLedger`, `Redrawn`, `Emptied`,
`Switched`); the take and the resize are cases of their own.

It goes on to `OncePlaced` (`OnePlace`) and `OutsideKept` (`OutsideStays`).

* `OncePlaced`: the induction is `LinesInv`, that is `Inv` with
  `Apart`: no line is twice in the buffer, in the saved rows or in both, and none is newer than
  the last one printed. Without the last part a printed line would not be known to be new. Each
  operation is shown to fill its buffer with rows of the old one, each used once (`Picks`),
  and `Picked` concludes for all of them; returning to the main screen picks from buffer and
  saved rows together (`Joined`).
* `OutsideKept`: row by row, from `ScrolledUpOutside` (also at the limit of the scrollback, where all
  indices shift), `MovesOutside`, `ErasedRow` and `ResizedCells`.

`Background_proofs`, for any identifiers, slots and budgets:

* `TypeCorrect`, from one lemma per group of actions (`RefreshKeeps`,
  `ActivityKeeps`, `OperationKeeps`), which say what each side keeps while the other
  stutters.
* `DueIsWatchedEver`: a refresh that is due, or a timer marked as active, always has
  a task. It is the safety half of `StatusSettles`, and inductive together with
  the types: a rename removes the mark and the due time at once, and what is
  orphaned are tasks, never marks.
* `GoneStaysGoneEver`: `GoneStaysGone`, by the induction `GoneInv`. The property
  does not follow from itself: that nothing writes an old name's row needs to know
  (`Away`) that no refresh of it is in flight *and* that none can start, that is that a name
  that is still listed is suspended; and that no operation has found it (`Lists`) *nor* will,
  as JJ and the store have lost it. A name that any of this does not hold of when its rename
  is committed, or whose rename fails afterwards, is a `ghost`, of which nothing is said.
* `ClosedIsForgottenEver`: `ClosedIsForgotten`, by the induction `ForgetInv`. That
  nothing writes a closed pane's mark again needs that the pane runs nowhere and all the places a mark can be: a batch
  that is being written, what a reconciliation read and has yet to write (`Gone`),
  and the copy that waits. A reconciliation skips what was on the screen when it
  began (`Skipped`), which is why one that is under way at the close does no harm.

`Daemon_proofs` also, for any number of connections, sessions, inputs and failures:
`TypeCorrect`; `InputReadOnce`, i.e. `InputOnce`, from `InputInv`; and `AlarmsAreTrue`. The parts of `InputInv`:

* `ConnInv`, `TaskInv`: a connection carries at most one input and a Detach, and each task has
  a connection of its own, so that only the flush writes inputs.
* `FlushInv`, `QueueInv`: which inputs are behind the flush, at hand, and in the queue.
* `CountInv`: an input that is ahead was not sent; the one at hand was sent as often
  as the flush has tried; and an input is in one place, so that reading it takes
  away what may still be read. `InputOnce` alone says nothing about what is on its way.
* `CalmInv`: while nobody else connects and nothing fails, the flush's own connection is evicted
  by nobody - whoever is about to attach is the flush itself (`DaemonCalm`) - so that a
  retry follows only what was not sent.

And `AlarmsAreTrue` (`NoFalseAlarm`), by the induction `AlarmInv`, which holds until a kill, a
failure or a second trouble (`meddled`), and whose parts are:

* `StrangerInv`: a client of somebody else that is still to be served is the only one, and the
  daemon has of the flush's call what its place says.
* `KeptInv`: while nothing ends a session, what the daemon has under a name runs, and no
  answer is an error that leaves the connection open.
* `FirstInv`: when the connection of a first attempt is evicted or closed, no stranger is still to
  come; and if none has come, it was closed because the session is missing.
* `SecondInv`: so the second attempt meets no stranger, and finds or creates the session.

That a first attempt fails for one trouble, and that this trouble is over when the second one begins, is a fact
about the past; `FirstInv` keeps of it what the second attempt needs. `FlushAlarm` is the
step of the flush, `DaemonAlarm` that of the daemon and `OtherAlarm` that of everybody else.

The steps of the daemon are reduced to one relation on the connections (`DaemonMoves`), those of
the calls to opening, writing and hanging up one connection (`Opening`, `FlushSends`, `Closing`).

`Terminal_proofs` also, for any number of clients, messages and queries and any room in the PTY:

* `MessagesStayWhole` (`MessagesWhole`), which no run checks beside `InputSpec`. The induction is over what was sent *and* what the
  holder of the writer has left to write (`All`), which is a sequence of whole messages at
  every step (`WholeInv`), with `HolderInv`: only the holder has bytes left, and they
  are the end of its message.
* `AnswersStayInOrder` (`AnswersKept`). `OrderInv` follows a query through the five places where it can
  be - output, a blocked write, held, deferred, answered - and says that every one of
  them is in order and before the next; `KeptInv` that a query in none of them was pushed out by
  `MAX_DEFERRED` later ones. The order of the answers alone says nothing about a query that is
  still to be read.
* `ImplementsInput`: `InputSpec`. A byte that is written begins or ends a message of `ProgramInput`
  (`WriteBegins`, `WriteEnds`, from `WholeInv`), what is typed maps to its `Type`, and everything else is unseen.
  That an answer that begins is the next one, and that those it passes over are old, is
  `OrderInv` with `KeptInv` (`AnswerBegins`); that a client's messages come once and in order is `TypedInv`,
  which counts them: the program has all that was typed but the one that a blocking task
  still has in its hands, also when the client was replaced meanwhile.

`LiveTerminal_proofs`, for any rows, caps, commands and chunks:

* `TheLoopIsWoken` (`NothingSleeps`): what came after the last drain has a wake, also when
  a cap ended that drain; only what the cap left behind (`left`) may have none, and that it is
  taken all the same is `Arrives`, which is model-checked. From `SleepInv`, which says it also of
  the moment in which the loop makes its snapshot, between the drain and the wait.
* `DamageArrives` (`StaleIfReplaced`), from `DamageInv`: a row in which a snapshot on its way
  differs from what the interface has is in the damage of one of the snapshots up to it, so that
  coalescing (`CoalescedOf`) and presenting (`PresentShows`) lose none.
* `NoPictureReturns` (`PicturesMoveOn`): a snapshot that waited for its turn is not shown after a
  newer one. From `ForwardInv`, which puts the pictures in their order: the one the interface
  has, the pending one, the last one that was made and the terminal itself.
* `KeysAreKept` (`KeysKept`): until the loop ends, the keys that were sent are those that were
  written and those in the channel, whatever a tick takes of them (`CountCut`, `CountAppended`).

  TLC checked the last two, and the invariants they rest on, before they were proved; they are in no run.

`Paint_proofs`, for windows and regions of any size, any styles and any number of identifiers.
The invariant is `Screen`: every row of the window has its width and is `Good`, the row in the
scrollback and the saved ones are `Good` in some width (`Stored`), and the table is consistent.

* `WideCharactersStayWhole` (`HalvesTogether`). Each command on a row has its lemma
  (`WithCellWide`, `ErasedKeeps`, `DeletedKeeps`, `InsertedKeeps`, `ResizedKeeps`) for any cells and for
  cells in which every wide character has both halves (`Halved`). A row that
  `Margin` has cut may stay on the screen, be edited, widened, saved and scrolled off, and nothing is known of its halves
  any more; what is proved is that every other row keeps `Halved`, wherever rows move, and that only `Margin` cuts.
* `CellsKeepTheirInk` (`InkStays`). That an identifier can be given out again without
  harm needs that no cell anywhere names a free one (`CellOk`), that the index names none
  (`Table`), and that a compaction looks at all the rows there are (`CellsUsed`).

`TaskSpace_proofs`, for any workspaces, panes, tasks in flight, queued inputs, navigation
operations and failures. Five invariants, each proved with the ones before it; an operation
has one lemma for each (`...Fits`, `...Calm`, `...Owned`, `...Known`), and what the operations of
`Layout` do to the panes and the focus of a layout is stated once (`AddFits`, `RemoveFits`,
`FocusFits`).

* `TaskInv`: types, soundness of every layout wherever it is, and what each task needs
  for its next step. It gives `TypeCorrect` and `LayoutsStaySound` (`LayoutSound`), whether operations
  overlap or not: that the pane that is added is in no layout, of which the
  soundness of an addition depends, needs that the panes of all layouts, also of those that tasks
  carry, were created before.
* `NeverStaysBlank` (`NeverBlank`), inductive given `TaskInv`, whether they overlap or not.
* `Calm`, as long as they do not overlap: no two tasks touch the same workspace, and what a task
  carries agrees with the store and the screen - a save with the screen that made it, a
  load and a reload with the stored row they have read, the inputs of a flush with the
  layout they were typed into. `ScreenSettles` (`SettledAgrees`) and `PanesStayStored`
  (`StoredPanesStay`) say nothing about a copy in flight, and so are not inductive: the next
  step may write it. With it also `ScreenShowsActive` (`ShownIsActive`).
* `Owned`, also as long as they do not overlap: a pane is held by one workspace, in the store,
  in saves, on the screen and by live terminals together (`Apart`); between the
  store's commit of a rename and the reload of the screen the store has the new name and the rest the old
  one, and the same is said of the terminals as they will be rekeyed (`OneEach`). A stored
  layout has a closed pane only while a save or an exit is there that takes it out
  (`ClosedLeave`). It gives `ClosedPanesStayClosed` (`ClosedStaysClosed`), since a load
  shows what is stored, and `OneTerminalEach` (`OneTerminal`), since a workspace that is opened
  starts terminals in all the panes it has loaded.
* `Known`, also as long as they do not overlap: the layout that a navigation operation takes off
  the screen is stored, or its workspace has left JJ; after the commit of a rename it is stored
  under the new name, which the terminals of that workspace take. `LiveTerminalsKeepPanes`
  (`LiveKeepsPane`) is about a step, and its hard case is the end of a reload, which replaces the screen:
  only what the operation has done before tells that the layout it replaces is not the
  one place that has the pane of a running terminal. Each step has a lemma `...Placed`.

`Subsequences_proofs` has the facts about `Pick` that these rest on: what it keeps, in which
order, and each once.

The assumptions are those on the constants: `NoClient` is not a connection,
bounds are naturals and the queue has a place, the throttle is not zero,
connections and sessions are numbered from one,
`Nothing` is neither a launcher nor a daemon,
a window has a row, `None` is neither an identifier nor a number nor a mark,
and what is there at the start is one of the identifiers and marks; the default
workspace is a workspace, and the panes that exist at the start are panes.
`PhaseInv`, `LineInv`, `OwnerInv`, `AloneInv`, `NoteInv`, `ThrottleInv`, `StartInv`, `LockInv`, `GoneInv`,
`ForgetInv`, `InputInv`, `AlarmInv`, `Calm`, `Owned`, `Known` and the `Inv` of `LiveTerminal_proofs` and `Paint_proofs` were checked by
TLC before they were proved and are not part of the runs any more.

Only model-checked: liveness (`CallsEnd`, `StatusSettles` and the others), since TLAPS does
not reason about fairness and `ENABLED`. `SkippedIsShown` is violated.

Two definitions are written for the proofs. A filter is `Pick` and a count a `Cardinality`, both over positions,
where `SelectSeq` and a fold are recursive, and the free identifiers of the style table are a set,
of which the largest is popped, where the code has an ascending list.

## Where the code and its comments disagree

This run checks a statement of a comment and ends in a counterexample.

* `paint_stale` — `take_and_render` "uses dirty tracking to skip unchanged rows"
  (`render.rs` 227). A row is recognised by a hash over characters and style
  *identifiers* (`render.rs` 382). A reset (`style.rs` 460) and a compaction
  (`style.rs` 446) give identifiers to other styles without touching the cache:
  the program paints a red letter, resets the terminal and paints the same letter
  in blue, and the client goes on showing red.

## Observations

Behaviours met while modelling, which the properties except or state around. TLC
found those of the first list as counterexamples to what the code's comments say.

* `ClientGuard` says that an evicted guard leaves `has_client` alone. Its check
  and its store are two steps: a client that connects between them stays
  attached with `has_client` false, and the reader throws away its scrollback
  (`session.rs` 26). `HasClientAlone` says what holds.
* The daemon's README says that a line that scrolls off is in the next update.
  Lines that scroll between the snapshot and the stale drain are in neither
  (`session_bridge.rs` 151).
* The kick is to make sure that no notification is missed. It may be consumed by
  the relay of the replaced client (`session_bridge.rs` 194). The new client then
  has an old picture until the next output. `ScreenCatchesUp` states what holds:
  without an overlap it catches up.
* `false` in the eviction channel means "a new client evicts"; the sweep sends it
  too (`session.rs` 331).
* "Delivered exactly once": a notification is drained before its write, which may
  fail (`session_bridge.rs` 99). `NoteOnce` states what holds: at most once.
* Each notification sets the throttle's sleep again, so steady output at less
  than 16 ms is not painted while it lasts (`session_relay.rs` 54).
  `PausesArePainted` states what holds.
* `session_bridge.rs` 24 calls `RENDER_THROTTLE` the "Minimum interval between
  consecutive screen renders to the client". A refresh and the final render come at once
  (`session_relay.rs` 42-52, 74-76), whatever the last render; the interval is that of the
  renders output asks for, which is what `MinimumInterval` says.
* `server/mod.rs` 57: "If a race occurs, bind() fails with EADDRINUSE and the user retries". Two
  daemons that start together may both find the stale socket, or one finds that of the
  other before it listens; the second then removes
  the socket of the first and binds its own, and both serve. retach's own client is
  protected by its lock, the app (`octty-term/src/retach.rs` 452) is not. `OneDaemon` and
  `OneServer` except what follows such a start (`raced`); without the exception TLC finds the two daemons.
* `send_retach_bytes_to_session` writes the input and `Detach` and hangs up without
  waiting (`retach.rs` 246). If the daemon is then still writing the history or the screen,
  that write fails, `handle_session` returns before `client_to_pty` starts, and the
  input is lost though the call returned `Ok`. The next control call also evicts a connection
  whose input was not read yet, and two inputs may be read in the other order.
  `cli.rs` 184-191 sends a text and then Enter this way. A `Detach` whose write fails after
  the input was read makes the flush send it again: `InputOnce` states what holds.
* `exit_alt_screen` restores the scroll region that was saved when the alternate
  screen was entered, also after a resize has set the region to the whole window
  (`performer.rs` 184): in a window that has grown, the last rows do not scroll.
* `session.rs` 262: "Use try_lock to avoid deadlock". The reader thread may still
  block in `write_all` (270) when the program reads no input, and if the program
  is itself blocked on output, which only the reader takes, neither goes on: the
  state `Stalled` of `PtyResponses`.
* A snapshot that waits in the background is replaced by the next without its
  damage (`app_live_terminals.rs` 346), and so is a presented one whose frame has
  not come (355). The rows that only it had changed stay old in the render cache.
  The test `terminal_snapshot_coalesce_keeps_dirty_rows_from_skipped_snapshots`
  (`octty-app/src/tests.rs` 1213) promises this for snapshots that are drained
  together; `StaleIfReplaced` states exactly that.

* `open_workspace` takes the layout off the screen while the next one loads; a pane
  that is added meanwhile is put into an empty layout (`app_panes.rs` 551), which is
  saved over the stored one. The other panes of the workspace are gone at the next
  start, though `docs/design.md` 80 wants the layout restored. `StoredPanesStay`
  states what holds: the load itself never does this.
* A refresh of a status that is in flight when a rename is committed writes its row
  under the old name, after the store has moved it (`app_workspace_status.rs` 242).
  The workspace can then not be renamed back, since the name "already exists". So does
  a second operation that listed the workspaces before the commit (`bootstrap.rs` 72).
  And if the load behind the commit fails, `app_core.rs` 619-623 resumes the old name, which is
  still listed, and watches it again: the sidebar shows a workspace that is gone, and the next
  event refreshes and stores it. `GoneStaysGone` excepts these three.
* Events of the watcher are dropped while a workspace is suspended, and resuming
  it refreshes nothing: what changes between the reload's reading of the status and the
  end of the rename is not shown until something else changes. Two
  refreshes may also end in the other order. `StatusSettles` excepts both.
* A reconciliation overwrites, in memory and in the store, marks that were recorded since
  it listed them (`app_activity.rs` 195, `bootstrap.rs` 324-371). What it loses
  only in memory comes back with the next round; what it loses in the store is lost.
  `apply_bootstrap` puts the marks of the store over newer ones (`app_core.rs` 665).
  After a rename the session keeps the name hashed from the old identifier, so the
  pane is skipped by reconciliation (`MarksSettle` excepts these).
* A write, a reconciliation or a reload that had the marks of a pane when it was closed
  brings them back, and so does a click in the last frame that was drawn of it (`ClosedIsForgotten` excepts these). So does a rename between the
  close and the deletion of the row: the transaction moves the row to the new name
  (`workspaces.rs` 245), where the deletion does not look for it, and the
  bootstrap reads it back (`ClosedIsForgotten` excepts it). A pane that ends while its
  workspace is not on the screen keeps its marks in memory until the next reload.

Others follow from reading alone.

* Rows: a wide character that does not fit into the last column blanks it without
  looking at what stood there (`performer.rs` 594; `HalvesTogether` excepts the rows in which that cut a
  wide character). The half that is left stays on the screen when the row is not scrolled
  off; a wider window or a deletion can bring it before another wide character, and
  overwriting it then leaves the continuation of that one alone (`grid.rs` 787), which
  TLC found in a window of 3 x 2 cells. The plan for `check_invariants` names "no orphaned
  wide-char continuations in visible area"
  (`docs/plans/2026-03-07-quality-refactor-design.md` 72 of retach-octty), which the
  function (`grid.rs` 801) does not look for. Insertion of
  characters and a narrower window blank a wide character that ends exactly at the
  edge, though it fits (`performer.rs` 400, `grid.rs`). A restored cursor can
  bring a pending wrap back into another column. Lines that a taller window took
  back from the scrollback are sent once more when they scroll off again. A lower
  window drops its bottom rows.
* Relay: `client_to_pty` reads from the socket before it decodes what the
  handshake has left over, so input that was sent with the connect waits for the
  next message. A deferred device response waits for the next output. A failed
  resize of the setup drops the guard after the previous client was evicted, and
  sends no error.
* Live runtime: what a cap leaves behind waits for the idle timeout of 100 ms; an
  exit is sent before the rest of the output is drained; a write error ends the
  runtime without an exit message, so its pane stays; the marker of a startup
  command is only recognised within one drained batch.
* Sessions: a pane may be closed before its `retach open` has connected; the kill finds
  nothing, which counts as success, and the client creates a session that nothing
  owns. The ensure of a flush may do the same. After a rename the flush sends to the
  payload's session but ensures and captures the other, and the kill ends
  one of them. `ClosedIsStopped` says of the name that is killed that nothing but such late clients
  and inputs brings the session back. A control call evicts another application's
  client of the pane, and that pane closes; a capture that fails overwrites the stored
  screen with an empty one (`terminal_lifecycle.rs` 43).
* Input filter: a comment (`client/mod.rs` 158) says that the byte after an escape is
  not another one, but `ESC ESC [ I` skips both and forwards `[I`. A detach key in the same
  read forwards the focus events before it unfiltered (130).
* Task space: a click reports the pane of the frame it hit, and `select_pane` makes it the
  active one without looking whether the layout still has it (`app_panes.rs` 619, unlike
  `activate_terminal_key` 208). A click on a pane that has just ended or belongs to the layout before
  leaves the focus on no pane and saves it so; until a click on another pane closing and
  keyboard navigation do nothing. `LayoutSound` excepts the panes clicked on so (`strays`).
  After a rename the pane's payload keeps its session, but a start of
  its terminal uses the name hashed from the new workspace
  (`stable_retach_session_name`): the next run attaches to a second session, and
  nothing ends the first. A load that fails leaves its workspace active without a
  layout; a click on it returns early, so it is not tried again (`app_core.rs`
  72); `NeverBlank` excepts exactly these workspaces. Terminals of a forgotten
  workspace stay in `live_terminals`. The identifier of a workspace is made of its root and its name
(`octty-jj/src/lib.rs` 524), so one that is created again under the old name finds them
running, though its layout has no pane for them: `LiveKeepsPane` excepts what happens to
workspaces out of JJ, and `OneTerminal` holds regardless.
* Status: forgetting a workspace does not suspend its refreshes, so one in flight
  writes the row back; a refresh writes the whole row it was started with, and so
  reverts what was stored of the workspace meanwhile.

## What is left out

Of the attachment: input and resizes (`client_to_pty`) other than
`RefreshScreen` and leaving; the alternate screen (no history
is sent there, lines do not scroll off); history at its limit, where the oldest
lines of a snapshot are missing; the split of the history into frames. A write is one step
that succeeds or fails, so a client that received an update without the
`SessionEnded` that follows it counts as one that received neither. The notice of
an eviction is counted as given even if its write fails. `Session::drop` always gets
the child's lock: its other branch needs a concurrent holder, and a session out
of the map has none; joining the reader has no effect on the state. A snapshot is not
taken of a session whose mutex is poisoned. `version`, `scrolled` and `noted`
have no width: they do not exist in the code.

Of the PTY: resizes, the end of the program and write errors, and what a response
says.

Of the screen: what has no effect on lines or cells (tab stops, character sets,
modes, titles), combining marks, the parser. A line is identified with the row it was
printed on: what happens within a row is `Paint`'s, what happens between
rows is `Screen`'s. A part of a row that is erased leaves the row to its line.
The bytes of a rendering are left out: what is modelled is which rows it contains.

Of the launch: the reasons for which the lock's file cannot be opened, permissions
of the directory, the time of a poll. A failure to remove a stale socket is
ignored by the code and then is as if nothing had been removed, that is a `bind` that fails.

Of the sessions: a payload without a `session_id`, `CreateOnly`, which the app never asks for,
the control call that resizes, names of keys, and the text of a capture. A pane has a live terminal
from the start or never, and is renamed before.

Of the live terminal: the startup command, device responses, key encoding, traces
and a runtime that fails while the child runs. The pane stays in the workspace on the screen.

Of the task space: removing a root, more than one root, titles of panes, widths and heights;
the dialogs, whose answers only delay an operation; notes, diffs
and the discovery of Codex sessions, which keep tables of their own; the
payloads of panes but for the session. Nothing in `octty-app` puts a second
pane into a column or pins one, so a column is a pane. Identifiers of panes are unique.
The end of the application is not an action: every prefix of a behaviour is
one. A bootstrap that fails ends the program before a window opens.

Of the status and the marks: removing a workspace or a root, a rename to the name it
has, a root that cannot be discovered, watchers that cannot be created and paths they ignore;
more than one pane of a workspace; the timer that lets the attention mark fade. The
daemon reports no time of activity, so `record_tmux_observation` has no effect.

### Not modelled

* Protocol, input filter, notification scanner: functions over byte streams
  that a test reaches well; planned as operators against a reference.
* Discovery of Codex sessions, notes and project roots: timers and tables beside
  `TaskSpace`.
* Glyphs, key tables, menus, argument parsing and the `jj` command line: pure functions or I/O.

## The plan

1. `OutputFeed`, `SessionAttach`, `RelayThrottle` and their proofs; `Layout`
   and `TaskSpace`, checked - done.
2. `DaemonStart` and `Screen` with their proofs; `PtyResponses`, `Paint` and
   `LiveTerminal` with theirs - done.
3. Proofs of `OnePlace` and `OutsideStays`, and those about `Layout` and `TaskSpace` - done.
4. `Sessions`: names, connect modes, kill, sweep and shutdown, control connections that
   evict, two names across renames, checked, and the proofs of `InputOnce` and `NoFalseAlarm` - done.
5. `WorkspaceRefresh`, `PaneActivity` and `Background`, checked, and the proofs of
   their types, of `DueIsWatched`, `GoneStaysGone` and `ClosedIsForgotten` - done.
   Liveness of the tasks of `TaskSpace` is left.
6. Functions against reference definitions: the frame reader, the input filter,
   the notification scanner.

Runs stay at two or three actors and bounds of two or three; a run is added per
module, not per property.
