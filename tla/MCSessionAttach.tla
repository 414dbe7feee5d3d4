---------------------------- MODULE MCSessionAttach ----------------------------
(* Values for the constants of SessionAttach, for TLC. *)
EXTENDS SessionAttach, TLC

CONSTANTS c1, c2

Nobody == {}
OneClient == {c1}
TwoClients == {c1, c2}

\* Connections differ only by name where none is singled out in Refreshers.
SymmetricTwoClients == Permutations(TwoClients)

\* Bound of attach_feed: the session is killed only if no notification came.
FeedBound == noted' # 0 => inMap'

\* Bound of attach_live: a lone connection is not killed.  Once there is a
\* second one, the program runs and paints at most once, no refresh is asked
\* for, and the session may be killed but not swept, after which the program
\* is silent.  What this forbids are steps that are not fair.
LiveBound ==
  \/ conn'[c2] = "new" /\ ~(ender = "no" /\ ender' = "disconnect")
  \/ /\ conn'[c2] # "new" /\ ~refresh'[c1] /\ version' <= 1
     /\ inMap' => child'
     /\ ender = "no" /\ ender' # "no" => ender' = "disconnect" /\ version' = 0
     /\ ~inMap => version' = version /\ readerAlive'
================================================================================
