------------------------------- MODULE OneServer -------------------------------
(***************************************************************************)
(* What those who launch a server together may rely on: at most one serves *)
(* at a time, who connects reaches the one that serves, and a launch fails *)
(* only while none serves and only after trouble, or is the one in         *)
(* trouble.  This is void once two servers start together, and that takes  *)
(* somebody who is lax about the lock.                                     *)
(***************************************************************************)
EXTENDS Naturals

CONSTANTS
  Launchers,
  Servers

VARIABLES
  serving,  \* the servers that serve
  door,     \* the servers that a connection reaches
  told,     \* what each launcher was told: "nothing", "ok" or "failed"
  trouble,  \* servers that ended and launches that were cut short so far
  lax,      \* a server started without the lock
  void      \* the promises are void

vars == <<serving, door, told, trouble, lax, void>>

Init ==
  /\ serving = {} /\ door = {}
  /\ told = [l \in Launchers |-> "nothing"]
  /\ trouble = 0
  /\ lax = FALSE /\ void = FALSE

\* A server serves and is reached, both from the same moment.
Start(s) ==
  /\ serving = {}
  /\ serving' = {s} /\ door' = {s}
  /\ UNCHANGED <<told, trouble>>

\* A server that serves or not is ended; it may serve a little longer.
End ==
  /\ trouble' = trouble + 1
  /\ serving' \in {serving, {}} /\ door' = serving'
  /\ UNCHANGED told

Leave ==
  /\ trouble > 0
  /\ serving' = {} /\ door' = {}
  /\ UNCHANGED <<told, trouble>>

Tell(l, what) ==
  /\ told[l] = "nothing"
  /\ told' = [told EXCEPT ![l] = what]
  /\ UNCHANGED <<serving, door>>

Reach(l) == door # {} /\ Tell(l, "ok") /\ UNCHANGED trouble
Fail(l) == serving = {} /\ trouble > 0 /\ Tell(l, "failed") /\ UNCHANGED trouble

\* A launch fails or is given up early.
CutShort(l) == trouble' = trouble + 1 /\ Tell(l, "failed")

BecomeLax == ~lax /\ lax' /\ UNCHANGED <<serving, door, told, trouble>>

Promised ==
  \/ \E s \in Servers : Start(s)
  \/ End \/ Leave \/ BecomeLax
  \/ \E l \in Launchers : Reach(l) \/ Fail(l) \/ CutShort(l)

Next ==
  /\ lax => lax'
  /\ \/ Promised /\ ~void'
     \/ lax' /\ void'

Spec == Init /\ [][Next]_vars
================================================================================
