---------------------------- MODULE PtyResponses ----------------------------
(* Who writes to the PTY of a session (session.rs, session_relay.rs). The     *)
(* program writes output, in which it may ask for a device response, and      *)
(* reads its input. The reader thread answers; the blocking tasks of          *)
(* client_to_pty write what the clients type. Both use the writer behind one  *)
(* mutex, and both directions of the PTY have a limited room. A message is    *)
(* two bytes, written one by one as there is room. The program does not end.  *)
EXTENDS Integers, Sequences, Subsequences

CONSTANTS
  Clients,      \* bound: the clients that attach, one after the other
  NoOne,        \* the mutex is free
  Reader,       \* the reader thread, as a holder of the mutex
  MAX_DEFERRED,
  InRoom,       \* bytes of input that the PTY holds
  OutRoom,      \* chunks of output that the PTY holds
  MaxAsked,     \* bound: queries of the program
  MaxTyped      \* bound: messages of each client

ASSUME PtyAssumption ==
  /\ NoOne \notin Clients \cup {Reader} /\ Reader \notin Clients
  /\ MAX_DEFERRED \in Nat \ {0}
  /\ InRoom \in Nat \ {0} /\ OutRoom \in Nat \ {0}
  /\ MaxAsked \in Nat /\ MaxTyped \in Nat

VARIABLES
  blocked,   \* the chunk that the program waits to write, if any: <<>> or one
  asked,     \* queries so far
  output,    \* chunks the PTY holds: the number of a query, or Text
  sent,      \* history: every byte written to the PTY
  unread,    \* how many of them the program has not read
  lock,      \* holder of the mutex pty_writer
  left,      \* bytes that the holder still has to write
  reader,    \* persistent_reader_loop: "read" or "reply"
  held,      \* its responses
  deferred,  \* deferred_responses
  client,    \* the attached client
  typing,    \* whether a blocking task has a message of the client to write
  typed      \* messages of each client so far

ptyVars == <<blocked, asked, output, sent, unread, lock, left, reader, held,
          deferred, client, typing, typed>>

Text == 0
Message(from, n) == [from |-> from, n |-> n]
Byte(m, part) == [of |-> m, part |-> part]
Bytes(m) == <<Byte(m, 1), Byte(m, 2)>>

PtyInit ==
  /\ blocked = <<>> /\ asked = 0 /\ output = <<>>
  /\ sent = <<>> /\ unread = 0
  /\ lock = NoOne /\ left = <<>>
  /\ reader = "read" /\ held = <<>> /\ deferred = <<>>
  /\ client \in Clients
  /\ typing = [c \in Clients |-> FALSE] /\ typed = [c \in Clients |-> 0]

Last(s, n) == IF Len(s) <= n THEN s ELSE SubSeq(s, Len(s) - n + 1, Len(s))
Queries(s) == Pick(s, {i \in DOMAIN s : s[i] # Text})

-----------------------------------------------------------------------------
(* The program                                                                *)

UnchangedByProgram == UNCHANGED <<sent, lock, left, reader, held, deferred, client, typing, typed>>

\* It writes a chunk, at once or when there is room.
Emit ==
  /\ blocked = <<>>
  /\ \E chunk \in {Text} \cup (IF asked < MaxAsked THEN {asked + 1} ELSE {}) :
       /\ asked' = asked + (IF chunk = Text THEN 0 ELSE 1)
       /\ IF Len(output) < OutRoom
          THEN output' = Append(output, chunk) /\ UNCHANGED blocked
          ELSE blocked' = <<chunk>> /\ UNCHANGED output
  /\ UNCHANGED unread
  /\ UnchangedByProgram

Resume ==
  /\ blocked # <<>> /\ Len(output) < OutRoom
  /\ output' = output \o blocked
  /\ blocked' = <<>>
  /\ UNCHANGED <<asked, unread>>
  /\ UnchangedByProgram

ReadInput ==
  /\ blocked = <<>> /\ unread > 0
  /\ unread' = unread - 1
  /\ UNCHANGED <<blocked, asked, output>>
  /\ UnchangedByProgram

-----------------------------------------------------------------------------
(* The reader thread                                                          *)

\* Slip: the new responses come before the deferred ones.
ReadOutputFirst ==
  /\ reader = "read" /\ output # <<>>
  /\ \E n \in 1 .. Len(output) :
       /\ output' = SubSeq(output, n + 1, Len(output))
       /\ held' = Queries(SubSeq(output, 1, n)) \o deferred
  /\ deferred' = <<>>
  /\ reader' = IF held' = <<>> THEN "read" ELSE "reply"
  /\ UNCHANGED <<blocked, asked, sent, unread, lock, left, client, typing, typed>>

\* A read, and what the screen answers; earlier responses come first.
ReadOutput ==
  /\ reader = "read" /\ output # <<>>
  /\ \E n \in 1 .. Len(output) :
       /\ output' = SubSeq(output, n + 1, Len(output))
       /\ held' = deferred \o Queries(SubSeq(output, 1, n))
  /\ deferred' = <<>>
  /\ reader' = IF held' = <<>> THEN "read" ELSE "reply"
  /\ UNCHANGED <<blocked, asked, sent, unread, lock, left, client, typing, typed>>

\* What deferred_responses, which is empty, keeps of the responses.
Kept(responses) == Last(responses, MAX_DEFERRED)

\* Slip: lock() for try_lock(), which waits for the holder.
DeferNever == FALSE /\ UNCHANGED ptyVars

Defer ==
  /\ reader = "reply" /\ lock # NoOne
  /\ deferred' = Kept(held)
  /\ held' = <<>> /\ reader' = "read"
  /\ UNCHANGED <<blocked, asked, output, sent, unread, lock, left, client, typing, typed>>

HeldBytes ==
  [i \in 1 .. 2 * Len(held) |->
     Byte(Message(Reader, held[(i + 1) \div 2]), IF i % 2 = 1 THEN 1 ELSE 2)]

\* Slip: the writer is used without its lock.
ReplyUnlocked ==
  /\ reader = "reply"
  /\ lock' = IF lock = NoOne THEN Reader ELSE lock
  /\ left' = HeldBytes \o left
  /\ held' = <<>> /\ reader' = IF lock = NoOne THEN "write" ELSE "read"
  /\ UNCHANGED <<blocked, asked, output, sent, unread, deferred, client, typing, typed>>

\* try_lock succeeds: the responses follow each other, byte after byte.
Reply ==
  /\ reader = "reply" /\ lock = NoOne
  /\ lock' = Reader
  /\ left' = HeldBytes
  /\ held' = <<>> /\ reader' = "write"
  /\ UNCHANGED <<blocked, asked, output, sent, unread, deferred, client, typing, typed>>

-----------------------------------------------------------------------------
(* The clients, and the writes of whoever holds the writer                    *)

UnchangedByClient == UNCHANGED <<blocked, asked, output, reader, held, deferred>>

\* client_to_pty awaits the blocking task before it takes the next message.
Type ==
  /\ ~typing[client] /\ typed[client] < MaxTyped
  /\ typing' = [typing EXCEPT ![client] = TRUE]
  /\ typed' = [typed EXCEPT ![client] = @ + 1]
  /\ UNCHANGED <<sent, unread, lock, left, client>>
  /\ UnchangedByClient

\* Another client attaches: the relay of this one is aborted, a blocking task
\* that it has started is not.
Replace ==
  /\ client' \in {c \in Clients \ {client} : typed[c] = 0}
  /\ UNCHANGED <<sent, unread, lock, left, typing, typed>>
  /\ UnchangedByClient

TakeWriter(c) ==
  /\ typing[c] /\ lock = NoOne
  /\ lock' = c
  /\ left' = Bytes(Message(c, typed[c]))
  /\ UNCHANGED <<sent, unread, client, typing, typed>>
  /\ UnchangedByClient

\* The next byte that fits, and after the last one the end of the guard.
WriteByte ==
  /\ lock # NoOne /\ unread < InRoom
  /\ sent' = Append(sent, Head(left))
  /\ unread' = unread + 1
  /\ left' = Tail(left)
  /\ IF left' # <<>> THEN UNCHANGED <<lock, reader, typing>>
     ELSE /\ lock' = NoOne
          /\ reader' = IF lock = Reader THEN "read" ELSE reader
          /\ typing' = [c \in Clients |-> typing[c] /\ c # lock]
  /\ UNCHANGED <<blocked, asked, output, held, deferred, client, typed>>

-----------------------------------------------------------------------------
PtyNext ==
  \/ Emit \/ Resume \/ ReadInput
  \/ ReadOutput \/ Defer \/ Reply
  \/ Type \/ Replace \/ (\E c \in Clients : TakeWriter(c)) \/ WriteByte

PtySpec == PtyInit /\ [][PtyNext]_ptyVars

\* The reader thread and the blocking tasks go on; as the messages are finite, a
\* free mutex is taken without more than weak fairness. The program goes on with a
\* write that has room, and reads its input again and again; it need not write.
FairPtySpec ==
  /\ PtySpec
  /\ WF_ptyVars(Resume) /\ SF_ptyVars(ReadInput)
  /\ WF_ptyVars(ReadOutput) /\ WF_ptyVars(Reply \/ Defer) /\ WF_ptyVars(WriteByte)
  /\ \A c \in Clients : WF_ptyVars(TakeWriter(c))

-----------------------------------------------------------------------------
(* Properties                                                                 *)

\* The program reads what ProgramInput promises.
Input == INSTANCE ProgramInput
InputSpec == Input!Spec

\* The two bytes of a message stay together, whoever else writes: a device
\* response never lands inside of what a client types, nor the typing of a
\* replaced client inside of its successor's (the mutex is held over write_all).
MessagesWhole ==
  \A i \in 1 .. Len(sent) :
    IF sent[i].part = 2 THEN i > 1 /\ sent[i - 1] = Byte(sent[i].of, 1)
    ELSE \/ i < Len(sent) /\ sent[i + 1] = Byte(sent[i].of, 2)
         \/ i = Len(sent) /\ left # <<>> /\ Head(left) = Byte(sent[i].of, 2)

\* The queries that are answered or will be, oldest first.
Answers ==
  LET all == sent \o left
      answered == Pick(all, {i \in DOMAIN all : all[i].of.from = Reader /\ all[i].part = 2})
  IN  [i \in DOMAIN answered |-> answered[i].of.n]
        \o held \o deferred \o Queries(output \o blocked)

\* Queries are answered once and in their order, although their responses were
\* deferred, and one is dropped only for MAX_DEFERRED later ones.
AnswersKept ==
  /\ \A i, j \in 1 .. Len(Answers) : i < j => Answers[i] < Answers[j]
  /\ \A q \in 1 .. asked :
       (\A i \in 1 .. Len(Answers) : Answers[i] # q) => q + MAX_DEFERRED <= asked

\* The one state in which all wait for each other: the reader thread waits for
\* room for its responses, and the program, which would make it, for the reader.
Stalled ==
  /\ blocked # <<>> /\ Len(output) = OutRoom
  /\ reader = "write" /\ unread = InRoom

\* What a client types reaches the PTY, unless the session has stalled. In
\* particular a client that waits for room while it holds the writer does not
\* stop the reader, and so neither the program (the comment at session.rs 262).
InputArrives == \A c \in Clients : typing[c] ~> (~typing[c] \/ Stalled)
=============================================================================
