------------------------------ MODULE OutputFeed ------------------------------
(***************************************************************************)
(* What the daemon promises the clients of one session about the output of *)
(* the program: each connection receives the lines that scrolled off in    *)
(* order and none of them twice, its picture of the visible rows only ever *)
(* moves forward, nothing follows the notice that ends a connection, and a *)
(* connection told that the session ended has its final picture.  It does  *)
(* not promise that a connection receives every line.                      *)
(***************************************************************************)
EXTENDS Naturals

CONSTANT Clients

VARIABLES
  produced, \* lines that scrolled off the top so far
  version,  \* contents of the visible rows
  over,     \* the program's output has ended
  pos,      \* the last line each client received
  lines,    \* how many lines each client received
  shown,    \* the picture each client has
  closed    \* whether and why the client was told to leave

vars == <<produced, version, over, pos, lines, shown, closed>>

Init ==
  /\ produced = 0 /\ version = 0 /\ over = FALSE
  /\ pos = [c \in Clients |-> 0] /\ lines = [c \in Clients |-> 0]
  /\ shown = [c \in Clients |-> 0] /\ closed = [c \in Clients |-> "no"]

Produce ==
  /\ ~over
  /\ version' = version + 1
  /\ produced' \in {produced, produced + 1}
  /\ UNCHANGED <<over, pos, lines, shown, closed>>

Over ==
  /\ ~over
  /\ over' = TRUE
  /\ UNCHANGED <<produced, version, pos, lines, shown, closed>>

\* A client receives lines from+1 .. to and a picture.
Receive(c, from, to, picture) ==
  /\ from >= pos[c]
  /\ pos' = [pos EXCEPT ![c] = to]
  /\ lines' = [lines EXCEPT ![c] = @ + (to - from)]
  /\ shown' = [shown EXCEPT ![c] = picture]

Deliver(c) ==
  /\ closed[c] = "no"
  /\ \E from \in 0..produced : \E to \in from..produced :
       \E picture \in shown[c]..version : Receive(c, from, to, picture)
  /\ UNCHANGED <<produced, version, over, closed>>

\* The output ended: the last lines and the final picture come with it.
Finish(c) ==
  /\ closed[c] = "no" /\ over
  /\ \E from \in 0..produced : \E to \in from..produced :
       Receive(c, from, to, version)
  /\ closed' = [closed EXCEPT ![c] = "ended"]
  /\ UNCHANGED <<produced, version, over>>

\* The client was evicted or its session killed.
Dismiss(c) ==
  /\ closed[c] = "no"
  /\ closed' = [closed EXCEPT ![c] = "dismissed"]
  /\ UNCHANGED <<produced, version, over, pos, lines, shown>>

Next == Produce \/ Over \/ \E c \in Clients : Deliver(c) \/ Finish(c) \/ Dismiss(c)

Spec == Init /\ [][Next]_vars
=============================================================================
