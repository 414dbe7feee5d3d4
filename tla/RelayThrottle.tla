----------------------------- MODULE RelayThrottle -----------------------------
(***************************************************************************)
(* The timer of screen_to_client, in discrete time.  SessionAttach lets    *)
(* the throttled branch of the relay's select! be taken at any moment      *)
(* after a notification; here its sleep has a length, so that how often    *)
(* and how late a client is painted can be stated.  The other branches of  *)
(* the select! are here too: a refresh paints at once, the reader's end    *)
(* and an eviction stop the relay.                                         *)
(***************************************************************************)
EXTENDS Naturals

CONSTANT RenderThrottle \* RENDER_THROTTLE, in ticks

ASSUME ThrottleAssumption == RenderThrottle \in Nat \ {0}

VARIABLES
  permit,        \* screen_notify holds a permit
  wanted,        \* refresh_notify holds a permit
  reader,        \* the persistent reader: "alive", "ended" (reader_alive is
                 \* false) or "gone" (it has sent its last notification too)
  evicted,       \* evict_rx has changed
  over,          \* screen_to_client has returned
  fresh,         \* the screen holds output that no render has covered
  pendingRender, \* screen_to_client's pending_render
  left,          \* ticks until throttle_sleep elapses
  age,           \* ticks since the throttle last let a render out, counted
                 \* up to RenderThrottle
  quiet          \* ticks since the last output, counted up to one more

throttleVars == <<permit, wanted, reader, evicted, over, fresh, pendingRender, left, age, quiet>>
outside == <<wanted, reader, evicted>>
clocks == <<left, age, quiet>>

ThrottleTypeOK ==
  /\ permit \in BOOLEAN /\ wanted \in BOOLEAN /\ evicted \in BOOLEAN /\ over \in BOOLEAN
  /\ reader \in {"alive", "ended", "gone"}
  /\ fresh \in BOOLEAN /\ pendingRender \in BOOLEAN
  /\ left \in 0..RenderThrottle /\ age \in 0..RenderThrottle
  /\ quiet \in 0..(RenderThrottle + 1)

ThrottleInit ==
  /\ permit = FALSE /\ wanted = FALSE /\ reader = "alive" /\ evicted = FALSE /\ over = FALSE
  /\ fresh = FALSE /\ pendingRender = FALSE
  /\ left = 0 /\ age = RenderThrottle /\ quiet = RenderThrottle + 1

\* The reader processes a chunk and calls notify_one().  The chunks of one tick
\* count as one: the permit and the screen do not tell them apart.
Output ==
  /\ ~over /\ reader = "alive" /\ quiet > 0
  /\ permit' = TRUE /\ fresh' = TRUE /\ quiet' = 0
  /\ UNCHANGED <<outside, over, pendingRender, left, age>>

\* End of file: reader_alive is cleared, and only then the last notification sent.
ReaderEnds ==
  /\ ~over /\ reader = "alive"
  /\ reader' = "ended"
  /\ UNCHANGED <<permit, wanted, evicted, over, fresh, pendingRender, clocks>>

LastNotify ==
  /\ ~over /\ reader = "ended"
  /\ reader' = "gone" /\ permit' = TRUE
  /\ UNCHANGED <<wanted, evicted, over, fresh, pendingRender, clocks>>

\* client_to_pty receives a RefreshScreen; another client is attached, or the
\* session is killed.
RequestRefresh ==
  /\ ~over /\ ~wanted
  /\ wanted' = TRUE
  /\ UNCHANGED <<permit, reader, evicted, over, fresh, pendingRender, clocks>>

Evict ==
  /\ ~over /\ ~evicted
  /\ evicted' = TRUE
  /\ UNCHANGED <<permit, wanted, reader, over, fresh, pendingRender, clocks>>

-----------------------------------------------------------------------------
\* The branches of the select!.  Several may be ready: it takes any of them.

\* Slip: the sleep is not set again, so an elapsed one renders at once.
WakeUnthrottled ==
  /\ ~over /\ permit /\ reader = "alive"
  /\ permit' = FALSE /\ pendingRender' = TRUE
  /\ UNCHANGED <<outside, over, fresh, clocks>>

\* notified(): ask for a render one throttle interval from now.
Wake ==
  /\ ~over /\ permit /\ reader = "alive"
  /\ permit' = FALSE /\ pendingRender' = TRUE /\ left' = RenderThrottle
  /\ UNCHANGED <<outside, over, fresh, age, quiet>>

\* notified() of a reader that has ended: the final render, at once.
WakeDead ==
  /\ ~over /\ permit /\ reader # "alive"
  /\ permit' = FALSE /\ fresh' = FALSE /\ over' = TRUE
  /\ UNCHANGED <<outside, pendingRender, clocks>>

Elapsed == pendingRender /\ left = 0

\* Slip: the sleep renders only if no further notification has come in.
RenderWhenIdle ==
  /\ ~over /\ Elapsed
  /\ fresh' = (fresh /\ permit)
  /\ pendingRender' = FALSE /\ age' = 0 /\ permit' = FALSE
  /\ UNCHANGED <<outside, over, left, quiet>>

\* throttle_sleep elapsed: take_and_render.
Render ==
  /\ ~over /\ Elapsed
  /\ fresh' = FALSE /\ pendingRender' = FALSE /\ age' = 0
  /\ UNCHANGED <<permit, outside, over, left, quiet>>

\* refresh_notify: a full render at once.  A render that is pending stays so,
\* and the sleep goes on.
Refresh ==
  /\ ~over /\ wanted
  /\ wanted' = FALSE /\ fresh' = FALSE
  /\ UNCHANGED <<permit, reader, evicted, over, pendingRender, clocks>>

\* The client is told and the relay returns; or a write of one of the renders fails.
RelayLeaves ==
  /\ ~over
  /\ evicted \/ Elapsed \/ wanted \/ (permit /\ reader # "alive")
  /\ over' = TRUE
  /\ UNCHANGED <<permit, outside, fresh, pendingRender, clocks>>

Ready == permit \/ wanted \/ evicted \/ Elapsed

UpTo(n, cap) == IF n < cap THEN n + 1 ELSE n

\* A tick passes.  The relay reacts well within one, so none passes while a
\* branch of its select! is ready; nor between the reader's last two steps.
Tick ==
  /\ over \/ (~Ready /\ reader # "ended")
  /\ left' = IF left = 0 THEN 0 ELSE left - 1
  /\ age' = UpTo(age, RenderThrottle) /\ quiet' = UpTo(quiet, RenderThrottle + 1)
  /\ UNCHANGED <<permit, outside, over, fresh, pendingRender>>

Relay == Wake \/ WakeDead \/ Render \/ Refresh \/ RelayLeaves
ThrottleNext == \/ Output \/ ReaderEnds \/ LastNotify \/ RequestRefresh \/ Evict
                \/ Relay \/ Tick

ThrottleSpec == ThrottleInit /\ [][ThrottleNext]_throttleVars

\* The reader sends its last notification, time passes, and a branch of the
\* select! that stays ready is taken: it picks among those that are at random.
FairThrottle ==
  /\ ThrottleSpec
  /\ WF_throttleVars(LastNotify) /\ WF_throttleVars(Tick)
  /\ WF_throttleVars(Wake) /\ WF_throttleVars(WakeDead) /\ WF_throttleVars(Render)

-----------------------------------------------------------------------------
\* Why it holds: an armed sleep ends no sooner than a throttle interval after
\* the throttle last let a render out, however often notifications set it again.
ThrottleInv == pendingRender => age + left >= RenderThrottle

\* Output alone never has the client painted more often than once in a throttle
\* interval: between two renders that the throttle lets out lie RENDER_THROTTLE
\* or more, whatever notifications, refreshes and evictions come in between.  (A
\* refresh the client asks for and the final render are not throttled.)
MinimumInterval ==
  [][pendingRender /\ ~pendingRender' => age >= RenderThrottle]_throttleVars

\* Output is painted if, every now and then, none follows for longer than the
\* throttle interval: notifications that set the sleep again do not lose it, nor
\* do refreshes, nor does the reader's end, unless the relay ends otherwise
\* (an eviction, a failed write).
PausesArePainted == []<>(quiet > RenderThrottle) => [](fresh => <>(~fresh \/ over))
=============================================================================
