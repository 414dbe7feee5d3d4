----------------------------- MODULE ProgramInput -----------------------------
(* What a program reads from its terminal: whole messages, those of a client  *)
(* in the order in which they were typed and each of them once, and answers   *)
(* to its queries in the order in which it asked, each once. An answer fails  *)
(* to come only when many later queries were asked. A message has two parts.  *)
EXTENDS Integers, Sequences

CONSTANTS
  Clients,
  Reader,        \* who answers
  MAX_DEFERRED   \* how many later queries make up for a lost answer

VARIABLES
  asked,  \* queries so far
  typed,  \* messages of each client so far
  sent    \* the parts that were written to the program, in order

vars == <<asked, typed, sent>>

Init == asked = 0 /\ typed = [c \in Clients |-> 0] /\ sent = <<>>

Ended(i) == sent[i].part = 2
Received(from) == {sent[i].of.n : i \in {i \in 1 .. Len(sent) : sent[i].of.from = from /\ Ended(i)}}

Ask == asked' = asked + 1 /\ UNCHANGED <<typed, sent>>

\* A client types on when the program has what it typed before.
Type(c) ==
  /\ Received(c) = 1 .. typed[c]
  /\ typed' = [typed EXCEPT ![c] = @ + 1]
  /\ UNCHANGED <<asked, sent>>

\* A message begins when the one before it is complete.
Begin(m) ==
  /\ sent # <<>> => Ended(Len(sent))
  /\ sent' = Append(sent, [of |-> m, part |-> 1])
  /\ UNCHANGED <<asked, typed>>

BeginTyped(c) ==
  \E n \in 1 .. typed[c] : Received(c) = 1 .. n - 1 /\ Begin([from |-> c, n |-> n])

BeginAnswer ==
  \E n \in 1 .. asked :
    /\ \A q \in Received(Reader) : q < n
    /\ \A q \in 1 .. n - 1 : q \in Received(Reader) \/ q + MAX_DEFERRED <= asked
    /\ Begin([from |-> Reader, n |-> n])

End ==
  /\ sent # <<>> /\ ~Ended(Len(sent))
  /\ sent' = Append(sent, [of |-> sent[Len(sent)].of, part |-> 2])
  /\ UNCHANGED <<asked, typed>>

Next == Ask \/ BeginAnswer \/ End \/ \E c \in Clients : Type(c) \/ BeginTyped(c)

Spec == Init /\ [][Next]_vars
=============================================================================
