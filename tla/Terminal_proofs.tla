---------------------------- MODULE Terminal_proofs ----------------------------
(* Two parts of the daemon's terminal, each with its own variables.           *)
(*                                                                            *)
(* PtyResponses: messages stay whole, and answers in order, for any number of *)
(* clients, queries and inputs; so the program reads what ProgramInput        *)
(* promises.                                                                  *)
(*                                                                            *)
(* Screen: what it keeps, for windows, scrollbacks and programs of any size.  *)
(* First the grid's own invariant, the scrollback as the end of the history,  *)
(* and the lines that wait for the client as those it was not given. The      *)
(* induction is GridInv with Ledger. Each operation is reduced to one of four *)
(* changes of the grid: it scrolls (ScrolledUp), redraws visible rows         *)
(* (Redrawn), drops the scrollback (Emptied) or changes screens (Switched);   *)
(* the take and the resize are cases of their own.                            *)
(* Then where the lines are: no operation shows or keeps a line twice, and    *)
(* none moves a line over a row that is outside the scroll region. Every      *)
(* operation makes its buffer out of rows of the old one, each used once      *)
(* (Picks).                                                                   *)
EXTENDS Screen, PtyResponses, Subsequences_proofs

--------------------------------------------------------------------------------
(* Messages and answers                                                       *)

Ascending(s) == \A i, j \in 1 .. Len(s) : i < j => s[i] < s[j]

\* The queries among the chunks, in their order.
LEMMA QueriesOf ==
  ASSUME NEW s \in Seq(Nat)
  PROVE  /\ Queries(s) \in Seq(Nat)
         /\ \A k \in 1 .. Len(Queries(s)) : \E i \in 1 .. Len(s) : s[i] # Text /\ Queries(s)[k] = s[i]
         /\ \A i \in 1 .. Len(s) : s[i] # Text => \E k \in 1 .. Len(Queries(s)) : Queries(s)[k] = s[i]
         /\ (\A i, j \in 1 .. Len(s) : i < j /\ s[i] # Text /\ s[j] # Text => s[i] < s[j])
              => Ascending(Queries(s))
<1> DEFINE S == {i \in 1 .. Len(s) : s[i] # Text}
<1>1. Queries(s) = Pick(s, S) /\ S \in SUBSET (1 .. Len(s)) /\ Len(s) \in Nat
  <2>1. DOMAIN s = 1 .. Len(s) /\ Len(s) \in Nat
    BY LenProperties
  <2> QED BY <2>1 DEF Queries
<1>2. /\ Pick(s, S) \in Seq(Nat) /\ Len(Pick(s, S)) = Cardinality(S)
      /\ \A k \in 1 .. Len(Pick(s, S)) : Nth(S, k) \in S /\ Pick(s, S)[k] = s[Nth(S, k)]
  BY PickIsSeq
<1>3. ASSUME NEW i \in S
      PROVE  \E k \in 1 .. Len(Pick(s, S)) : Pick(s, S)[k] = s[i]
  <2>1. Rank(S, i) \in 1 .. Cardinality(S) /\ Nth(S, Rank(S, i)) = i
    <3> HIDE DEF S
    <3>1. Rank(S, i) \in 1 .. Cardinality(S)
      BY <1>1, <1>3, RankGrows
    <3>2. Nth(S, Rank(S, i)) = i
      BY <1>1, <1>3, NthRank
    <3> QED BY <3>1, <3>2
  <2> QED BY <1>2, <2>1
<1>4. ASSUME \A i, j \in 1 .. Len(s) : i < j /\ s[i] # Text /\ s[j] # Text => s[i] < s[j]
      PROVE  Ascending(Pick(s, S))
  <2>1. \A k, l \in 1 .. Cardinality(S) : k < l => Nth(S, k) < Nth(S, l)
    BY <1>1, NthRank
  <2> QED BY <1>2, <1>4, <2>1 DEF Ascending
<1> QED BY <1>1, <1>2, <1>3, <1>4
-----------------------------------------------------------------------------
(* The invariants.                                                            *)

Sender == Clients \cup {Reader}
ByteSet == [of : [from : Sender, n : Nat], part : {1, 2}]

TypeInv ==
  /\ blocked \in Seq(Nat) /\ asked \in Nat /\ output \in Seq(Nat)
  /\ sent \in Seq(ByteSet) /\ left \in Seq(ByteSet) /\ unread \in Nat
  /\ lock \in Sender \cup {NoOne}
  /\ reader \in {"read", "reply", "write"}
  /\ held \in Seq(Nat) /\ deferred \in Seq(Nat)
  /\ client \in Clients /\ typing \in [Clients -> BOOLEAN] /\ typed \in [Clients -> Nat]

\* Who holds the writer has bytes left; the reader thread has responses in its
\* hands only while it replies, and deferred ones only while it reads.
HolderInv ==
  /\ lock = NoOne <=> left = <<>>
  /\ lock = Reader <=> reader = "write"
  /\ held # <<>> <=> reader = "reply"
  /\ deferred # <<>> => reader = "read"

\* What was written and what the holder will write.
All == sent \o left

Whole(s) ==
  \A i \in 1 .. Len(s) :
    IF s[i].part = 2 THEN i > 1 /\ s[i - 1] = Byte(s[i].of, 1)
    ELSE i < Len(s) /\ s[i + 1] = Byte(s[i].of, 2)

WholeInv == Whole(All)

\* Queries in the PTY, in the reader's hands, and answered.
Chunks == output \o blocked
Elements(s) == {s[i] : i \in 1 .. Len(s)}
Asking == Elements(Chunks) \ {Text}
Held == Elements(held)
Deferred == Elements(deferred)
IsAnswer(b) == b.of.from = Reader /\ b.part = 2
Answering == {i \in 1 .. Len(All) : IsAnswer(All[i])}
Answered == {All[i].of.n : i \in Answering}

AskedInOrder(s) ==
  \A i, j \in 1 .. Len(s) : i < j /\ s[i] # Text /\ s[j] # Text => s[i] < s[j]

AnsweredInOrder == \A i, j \in Answering : i < j => All[i].of.n < All[j].of.n

OrderInv ==
  /\ AnsweredInOrder
  /\ Ascending(held) /\ Ascending(deferred) /\ AskedInOrder(Chunks)
  /\ \A q \in Answered, r \in Held \cup Deferred \cup Asking : q < r
  /\ \A q \in Held \cup Deferred, r \in Asking : q < r
  /\ Answered \cup Held \cup Deferred \cup Asking \subseteq 1 .. asked

\* A query is somewhere, or it was dropped for later ones.
KeptInv ==
  \A q \in 1 .. asked :
    q \in Answered \cup Held \cup Deferred \cup Asking \/ q + MAX_DEFERRED <= asked

LEMMA WholeConcat ==
  ASSUME NEW s \in Seq(ByteSet), NEW t \in Seq(ByteSet), Whole(s), Whole(t)
  PROVE  Whole(s \o t)
<1> DEFINE u == s \o t
<1>1. /\ Len(s) \in Nat /\ Len(t) \in Nat /\ Len(u) = Len(s) + Len(t)
      /\ \A i \in 1 .. Len(u) : u[i] = IF i <= Len(s) THEN s[i] ELSE t[i - Len(s)]
  BY ConcatProperties, LenProperties
<1>2. ASSUME NEW i \in 1 .. Len(u), i <= Len(s)
      PROVE  IF u[i].part = 2 THEN i > 1 /\ u[i - 1] = Byte(u[i].of, 1)
             ELSE i < Len(u) /\ u[i + 1] = Byte(u[i].of, 2)
  BY <1>1, <1>2 DEF Whole
<1>3. ASSUME NEW i \in 1 .. Len(u), i > Len(s)
      PROVE  IF u[i].part = 2 THEN i > 1 /\ u[i - 1] = Byte(u[i].of, 1)
             ELSE i < Len(u) /\ u[i + 1] = Byte(u[i].of, 2)
  <2> DEFINE j == i - Len(s)
  <2>1. j \in 1 .. Len(t) /\ u[i] = t[j]
    BY <1>1, <1>3
  <2>2. CASE t[j].part = 2
    <3>1. j > 1 /\ t[j - 1] = Byte(t[j].of, 1)
      BY <2>1, <2>2 DEF Whole
    <3>2. i - 1 \in 1 .. Len(u) /\ i - 1 > Len(s) /\ i - 1 - Len(s) = j - 1
      BY <1>1, <2>1, <3>1
    <3> QED BY <1>1, <2>1, <2>2, <3>1, <3>2
  <2>3. CASE t[j].part # 2
    <3>1. j < Len(t) /\ t[j + 1] = Byte(t[j].of, 2)
      BY <2>1, <2>3 DEF Whole
    <3>2. i + 1 \in 1 .. Len(u) /\ i + 1 > Len(s) /\ i + 1 - Len(s) = j + 1
      BY <1>1, <2>1, <3>1
    <3> QED BY <1>1, <2>1, <2>3, <3>1, <3>2
  <2> QED BY <2>2, <2>3
<1> QED BY <1>1, <1>2, <1>3 DEF Whole

LEMMA Halves ==
  ASSUME NEW n \in Nat, NEW i \in 1 .. 2 * n
  PROVE  \E k \in 1 .. n : /\ i = 2 * k - 1 \/ i = 2 * k
                           /\ (i + 1) \div 2 = k
                           /\ i % 2 = 1 <=> i = 2 * k - 1
<1> DEFINE k == (i + 1) \div 2
<1>1. k \in 1 .. n /\ (i = 2 * k - 1 \/ i = 2 * k)
  OBVIOUS
<1>2. i % 2 = 1 <=> i = 2 * k - 1
  OBVIOUS
<1> QED BY <1>1, <1>2

\* The bytes of the responses.
LEMMA HeldBytesOf ==
  ASSUME held \in Seq(Nat)
  PROVE  /\ HeldBytes \in Seq(ByteSet) /\ Len(HeldBytes) = 2 * Len(held)
         /\ \A k \in 1 .. Len(held) :
              /\ HeldBytes[2 * k - 1] = Byte(Message(Reader, held[k]), 1)
              /\ HeldBytes[2 * k] = Byte(Message(Reader, held[k]), 2)
         /\ Whole(HeldBytes)
<1> DEFINE n == Len(held)
<1>1. n \in Nat /\ \A k \in 1 .. n : held[k] \in Nat
  OBVIOUS
<1>2. ASSUME NEW k \in 1 .. n
      PROVE  /\ 2 * k - 1 \in 1 .. 2 * n /\ 2 * k \in 1 .. 2 * n
             /\ (2 * k) \div 2 = k /\ (2 * k + 1) \div 2 = k
             /\ (2 * k - 1) % 2 = 1 /\ (2 * k) % 2 = 0
  BY <1>1
<1>3. ASSUME NEW k \in 1 .. n
      PROVE  /\ HeldBytes[2 * k - 1] = Byte(Message(Reader, held[k]), 1)
             /\ HeldBytes[2 * k] = Byte(Message(Reader, held[k]), 2)
  <2>1. HeldBytes[2 * k - 1] = Byte(Message(Reader, held[(2 * k - 1 + 1) \div 2]),
                                    IF (2 * k - 1) % 2 = 1 THEN 1 ELSE 2)
    BY <1>2 DEF HeldBytes
  <2>2. HeldBytes[2 * k] = Byte(Message(Reader, held[(2 * k + 1) \div 2]),
                                IF (2 * k) % 2 = 1 THEN 1 ELSE 2)
    BY <1>2 DEF HeldBytes
  <2>3. (2 * k - 1 + 1) \div 2 = k
    BY <1>1
  <2> QED BY <1>2, <2>1, <2>2, <2>3
<1>4. HeldBytes \in [1 .. 2 * n -> ByteSet]
  <2>1. ASSUME NEW i \in 1 .. 2 * n
        PROVE  HeldBytes[i] \in ByteSet
    <3>1. PICK k \in 1 .. n : i = 2 * k - 1 \/ i = 2 * k
      BY <1>1, Halves
    <3>2. held[k] \in Nat
      BY <1>1
    <3> DEFINE m == Message(Reader, held[k])
    <3>3. HeldBytes[i] = Byte(m, 1) \/ HeldBytes[i] = Byte(m, 2)
      BY <1>3, <3>1
    <3>4. m \in [from : Sender, n : Nat]
      BY <3>2 DEF Message, Sender
    <3> HIDE DEF m
    <3> QED BY <3>3, <3>4 DEF ByteSet, Byte
  <2>2. HeldBytes = [i \in 1 .. 2 * n |-> HeldBytes[i]]
    BY DEF HeldBytes
  <2> QED BY <2>1, <2>2
<1>5. HeldBytes \in Seq(ByteSet) /\ Len(HeldBytes) = 2 * n
  BY <1>1, <1>4
<1>6. ASSUME NEW i \in 1 .. 2 * n
      PROVE  IF HeldBytes[i].part = 2 THEN i > 1 /\ HeldBytes[i - 1] = Byte(HeldBytes[i].of, 1)
             ELSE i < 2 * n /\ HeldBytes[i + 1] = Byte(HeldBytes[i].of, 2)
  <2>1. PICK k \in 1 .. n : i = 2 * k - 1 \/ i = 2 * k
    BY <1>1, Halves
  <2> DEFINE m == Message(Reader, held[k])
  <2>2. CASE i = 2 * k - 1
    <3>1. i + 1 = 2 * k /\ i < 2 * n
      BY <1>1, <2>1, <2>2
    <3>2. HeldBytes[i] = Byte(m, 1) /\ HeldBytes[i + 1] = Byte(m, 2)
      BY <1>3, <2>2, <3>1
    <3> HIDE DEF m
    <3> QED BY <3>1, <3>2 DEF Byte
  <2>3. CASE i = 2 * k
    <3>1. i - 1 = 2 * k - 1 /\ i > 1
      BY <1>1, <2>1, <2>3
    <3>2. HeldBytes[i - 1] = Byte(m, 1) /\ HeldBytes[i] = Byte(m, 2)
      BY <1>3, <2>3, <3>1
    <3> HIDE DEF m
    <3> QED BY <3>1, <3>2 DEF Byte
  <2> QED BY <2>1, <2>2, <2>3
<1> QED BY <1>3, <1>5, <1>6 DEF Whole

LEMMA BytesOf ==
  ASSUME NEW m \in [from : Sender, n : Nat]
  PROVE  Bytes(m) \in Seq(ByteSet) /\ Bytes(m) # <<>> /\ Len(Bytes(m)) = 2 /\ Whole(Bytes(m))
         /\ Bytes(m)[1] = Byte(m, 1) /\ Bytes(m)[2] = Byte(m, 2)
<1>1. Byte(m, 1) \in ByteSet /\ Byte(m, 2) \in ByteSet
  BY DEF Byte, ByteSet
<1>2. Bytes(m) = <<Byte(m, 1), Byte(m, 2)>>
  BY DEF Bytes
<1>3. Bytes(m) \in Seq(ByteSet) /\ Len(Bytes(m)) = 2
      /\ Bytes(m)[1] = Byte(m, 1) /\ Bytes(m)[2] = Byte(m, 2)
  BY <1>1, <1>2
<1> DEFINE b == Bytes(m)
<1>4. Len(b) = 2 /\ b[1].of = m /\ b[1].part = 1 /\ b[2].of = m /\ b[2].part = 2
      /\ b[1] = Byte(m, 1) /\ b[2] = Byte(m, 2)
  BY <1>3 DEF Byte
<1> HIDE DEF b
<1>5. Whole(b)
  <2> SUFFICES ASSUME NEW i \in 1 .. 2
               PROVE  IF b[i].part = 2 THEN i > 1 /\ b[i - 1] = Byte(b[i].of, 1)
                      ELSE i < 2 /\ b[i + 1] = Byte(b[i].of, 2)
    BY <1>4 DEF Whole
  <2>1. CASE i = 1
    BY <1>4, <2>1
  <2>2. CASE i = 2
    BY <1>4, <2>2
  <2> QED BY <2>1, <2>2
<1>6. b # <<>>
  <2>1. Len(<<>>) = 0
    OBVIOUS
  <2>2. Len(b) = 2
    BY <1>4
  <2> SUFFICES ASSUME b = <<>> PROVE FALSE
    OBVIOUS
  <2>3. Len(b) = 0
    BY <2>1, Zenon
  <2> QED BY <2>2, <2>3
<1>7. Bytes(m) # <<>> /\ Whole(Bytes(m))
  BY <1>5, <1>6 DEF b
<1> QED BY <1>3, <1>7

\* The next byte moves from what is left to what was sent.
LEMMA ByteMoves ==
  ASSUME NEW s \in Seq(ByteSet), NEW t \in Seq(ByteSet), t # <<>>
  PROVE  Append(s, Head(t)) \o Tail(t) = s \o t
<1> DEFINE a == Append(s, Head(t)) \o Tail(t)
           b == s \o t
<1>1. /\ Len(s) \in Nat /\ Len(t) \in Nat /\ Len(t) > 0
      /\ Head(t) = t[1] /\ Head(t) \in ByteSet
      /\ Tail(t) \in Seq(ByteSet) /\ Len(Tail(t)) = Len(t) - 1
      /\ \A i \in 1 .. Len(t) - 1 : Tail(t)[i] = t[i + 1]
  BY HeadTailProperties, LenProperties, EmptySeq
<1>2. /\ Append(s, Head(t)) \in Seq(ByteSet) /\ Len(Append(s, Head(t))) = Len(s) + 1
      /\ \A i \in 1 .. Len(s) : Append(s, Head(t))[i] = s[i]
      /\ Append(s, Head(t))[Len(s) + 1] = t[1]
  BY <1>1, AppendProperties
<1>3. /\ a \in Seq(ByteSet) /\ Len(a) = Len(s) + Len(t)
      /\ \A i \in 1 .. Len(s) + Len(t) : a[i] =
           IF i <= Len(s) + 1 THEN Append(s, Head(t))[i] ELSE Tail(t)[i - (Len(s) + 1)]
  BY <1>1, <1>2, ConcatProperties
<1>4. /\ b \in Seq(ByteSet) /\ Len(b) = Len(s) + Len(t)
      /\ \A i \in 1 .. Len(s) + Len(t) : b[i] = IF i <= Len(s) THEN s[i] ELSE t[i - Len(s)]
  BY ConcatProperties
<1>5. ASSUME NEW i \in 1 .. Len(s) + Len(t)
      PROVE  a[i] = b[i]
  <2>1. CASE i <= Len(s)
    BY <1>1, <1>2, <1>3, <1>4, <2>1
  <2>2. CASE i = Len(s) + 1
    <3>1. a[i] = t[1]
      BY <1>1, <1>2, <1>3, <2>2
    <3>2. b[i] = t[1]
      BY <1>1, <1>4, <2>2
    <3> QED BY <3>1, <3>2
  <2>3. CASE i > Len(s) + 1
    <3> DEFINE j == i - (Len(s) + 1)
    <3>1. j \in 1 .. Len(t) - 1 /\ j + 1 = i - Len(s)
      BY <1>1, <2>3
    <3>2. a[i] = Tail(t)[j]
      BY <1>1, <1>3, <2>3
    <3>3. b[i] = t[j + 1]
      BY <1>1, <1>4, <2>3, <3>1
    <3> QED BY <1>1, <3>1, <3>2, <3>3
  <2> QED BY <1>1, <2>1, <2>2, <2>3
<1> QED BY <1>3, <1>4, <1>5, SeqEqual

LEMMA LastTyped ==
  ASSUME NEW s \in Seq(Nat), NEW n \in Nat \ {0}
  PROVE  /\ Last(s, n) \in Seq(Nat)
         /\ Len(s) <= n => Last(s, n) = s
         /\ Len(s) > n => /\ Len(Last(s, n)) = n
                          /\ \A i \in 1 .. n : Last(s, n)[i] = s[Len(s) - n + i]
<1>1. Len(s) \in Nat /\ \A i \in 1 .. Len(s) : s[i] \in Nat
  OBVIOUS
<1>2. CASE Len(s) <= n
  BY <1>1, <1>2 DEF Last
<1>3. CASE Len(s) > n
  <2> DEFINE m == Len(s) - n + 1
  <2>1. m \in Int /\ Len(s) \in Int /\ \A i \in m .. Len(s) : s[i] \in Nat
    BY <1>1, <1>3
  <2>2. /\ SubSeq(s, m, Len(s)) \in Seq(Nat)
        /\ Len(SubSeq(s, m, Len(s))) = IF m <= Len(s) THEN Len(s) - m + 1 ELSE 0
        /\ \A i \in 1 .. Len(s) - m + 1 : SubSeq(s, m, Len(s))[i] = s[m + i - 1]
    BY <2>1, SubSeqProperties
  <2>3. Last(s, n) = SubSeq(s, m, Len(s))
    BY <1>1, <1>3 DEF Last
  <2>4. m <= Len(s) /\ Len(s) - m + 1 = n /\ \A i \in 1 .. n : m + i - 1 = Len(s) - n + i
    BY <1>1, <1>3
  <2> QED BY <1>1, <1>3, <2>2, <2>3, <2>4
<1> QED BY <1>1, <1>2, <1>3

\* What a read takes out of the PTY and what it leaves.
LEMMA ReadSplits ==
  ASSUME output \in Seq(Nat), NEW n \in 1 .. Len(output)
  PROVE  /\ SubSeq(output, 1, n) \in Seq(Nat) /\ Len(SubSeq(output, 1, n)) = n
         /\ \A i \in 1 .. n : SubSeq(output, 1, n)[i] = output[i]
         /\ SubSeq(output, n + 1, Len(output)) \in Seq(Nat)
         /\ Len(SubSeq(output, n + 1, Len(output))) = Len(output) - n
         /\ \A i \in 1 .. Len(output) - n : SubSeq(output, n + 1, Len(output))[i] = output[n + i]
<1>1. Len(output) \in Nat /\ \A i \in 1 .. Len(output) : output[i] \in Nat
  OBVIOUS
<1>2. \A i \in 1 .. n : output[i] \in Nat
  BY <1>1
<1>3. \A i \in n + 1 .. Len(output) : output[i] \in Nat
  BY <1>1
<1>4. /\ SubSeq(output, 1, n) \in Seq(Nat) /\ Len(SubSeq(output, 1, n)) = n
      /\ \A i \in 1 .. n : SubSeq(output, 1, n)[i] = output[i]
  <2>1. /\ SubSeq(output, 1, n) \in Seq(Nat)
        /\ Len(SubSeq(output, 1, n)) = IF 1 <= n THEN n - 1 + 1 ELSE 0
        /\ \A i \in 1 .. n - 1 + 1 : SubSeq(output, 1, n)[i] = output[1 + i - 1]
    BY <1>1, <1>2, SubSeqProperties
  <2> QED BY <1>1, <2>1
<1>5. /\ SubSeq(output, n + 1, Len(output)) \in Seq(Nat)
      /\ Len(SubSeq(output, n + 1, Len(output))) = IF n + 1 <= Len(output) THEN Len(output) - (n + 1) + 1 ELSE 0
      /\ \A i \in 1 .. Len(output) - (n + 1) + 1 :
           SubSeq(output, n + 1, Len(output))[i] = output[n + 1 + i - 1]
  <2>1. n + 1 \in Int /\ Len(output) \in Int
    BY <1>1
  <2> QED BY <1>3, <2>1, SubSeqProperties
<1> QED BY <1>1, <1>4, <1>5

-----------------------------------------------------------------------------
(* Types and holders.                                                         *)

LEMMA TypeStep ==
  ASSUME TypeInv, HolderInv, [PtyNext]_ptyVars
  PROVE  TypeInv'
<1> USE PtyAssumption DEF TypeInv
<1>1. CASE Emit
  <2>1. PICK chunk \in {Text} \cup (IF asked < MaxAsked THEN {asked + 1} ELSE {}) :
          /\ asked' = asked + (IF chunk = Text THEN 0 ELSE 1)
          /\ IF Len(output) < OutRoom
             THEN output' = Append(output, chunk) /\ UNCHANGED blocked
             ELSE blocked' = <<chunk>> /\ UNCHANGED output
    BY <1>1 DEF Emit
  <2>2. chunk \in Nat /\ asked' \in Nat
    BY <2>1 DEF Text
  <2>3. Append(output, chunk) \in Seq(Nat) /\ <<chunk>> \in Seq(Nat)
    BY <2>2, AppendProperties
  <2>4. output' \in Seq(Nat) /\ blocked' \in Seq(Nat)
    BY <2>1, <2>3
  <2> QED BY <1>1, <2>2, <2>4 DEF Emit, UnchangedByProgram
<1>2. CASE Resume
  <2>1. output' \in Seq(Nat) /\ blocked' \in Seq(Nat)
    BY <1>2, ConcatProperties DEF Resume
  <2> QED BY <1>2, <2>1 DEF Resume, UnchangedByProgram
<1>3. CASE ReadInput
  BY <1>3 DEF ReadInput, UnchangedByProgram
<1>4. CASE ReadOutput
  <2>1. PICK n \in 1 .. Len(output) :
          /\ output' = SubSeq(output, n + 1, Len(output))
          /\ held' = deferred \o Queries(SubSeq(output, 1, n))
    BY <1>4 DEF ReadOutput
  <2>2. output' \in Seq(Nat) /\ Queries(SubSeq(output, 1, n)) \in Seq(Nat)
    BY <2>1, ReadSplits, QueriesOf
  <2> DEFINE q == Queries(SubSeq(output, 1, n))
  <2>3. held' \in Seq(Nat)
    <3>1. deferred \in Seq(Nat) /\ q \in Seq(Nat) /\ held' = deferred \o q
      BY <2>1, <2>2
    <3> HIDE DEF q
    <3> QED BY <3>1, ConcatProperties
  <2>4. deferred' \in Seq(Nat) /\ reader' \in {"read", "reply", "write"}
    BY <1>4 DEF ReadOutput
  <2> HIDE DEF q
  <2> QED BY <1>4, <2>2, <2>3, <2>4 DEF ReadOutput
<1>5. CASE Defer
  <2>1. deferred' \in Seq(Nat)
    BY <1>5, LastTyped DEF Defer, Kept
  <2> QED BY <1>5, <2>1 DEF Defer
<1>6. CASE Reply
  <2>1. left' \in Seq(ByteSet)
    BY <1>6, HeldBytesOf DEF Reply
  <2> QED BY <1>6, <2>1 DEF Reply, Sender
<1>7. CASE Type
  BY <1>7 DEF Type, UnchangedByClient
<1>8. CASE Replace
  BY <1>8 DEF Replace, UnchangedByClient
<1>9. ASSUME NEW c \in Clients, TakeWriter(c)
      PROVE  TypeInv'
  <2>1. Message(c, typed[c]) \in [from : Sender, n : Nat]
    BY DEF Message, Sender
  <2>2. left' \in Seq(ByteSet)
    BY <1>9, <2>1, BytesOf DEF TakeWriter
  <2> QED BY <1>9, <2>2 DEF TakeWriter, UnchangedByClient, Sender
<1>10. CASE WriteByte
  <2>1. left # <<>>
    BY <1>10 DEF WriteByte, HolderInv
  <2>2. Head(left) \in ByteSet /\ Tail(left) \in Seq(ByteSet)
    BY <2>1, HeadTailProperties
  <2>3. sent' \in Seq(ByteSet) /\ left' \in Seq(ByteSet)
    BY <1>10, <2>2, AppendProperties DEF WriteByte
  <2>4. lock' \in Sender \cup {NoOne} /\ reader' \in {"read", "reply", "write"}
        /\ typing' \in [Clients -> BOOLEAN]
    BY <1>10 DEF WriteByte
  <2> QED BY <1>10, <2>3, <2>4 DEF WriteByte
<1>11. CASE UNCHANGED ptyVars
  BY <1>11 DEF ptyVars
<1> QED
  BY <1>1, <1>2, <1>3, <1>4, <1>5, <1>6, <1>7, <1>8, <1>9, <1>10, <1>11 DEF PtyNext

LEMMA HolderStep ==
  ASSUME TypeInv, HolderInv, [PtyNext]_ptyVars
  PROVE  HolderInv'
<1> USE PtyAssumption DEF HolderInv
<1>1. CASE Emit \/ Resume \/ ReadInput
  BY <1>1 DEF Emit, Resume, ReadInput, UnchangedByProgram
<1>2. CASE ReadOutput
  BY <1>2 DEF ReadOutput
<1>3. CASE Defer
  BY <1>3 DEF Defer
<1>4. CASE Reply
  <2>1. HeldBytes # <<>>
    <3>1. Len(held) \in Nat /\ Len(held) # 0
      BY <1>4, EmptySeq DEF Reply, TypeInv
    <3>2. Len(HeldBytes) = 2 * Len(held)
      BY HeldBytesOf DEF TypeInv
    <3> QED BY <3>1, <3>2, EmptySeq
  <2> QED BY <1>4, <2>1 DEF Reply
<1>5. CASE Type \/ Replace
  BY <1>5 DEF Type, Replace, UnchangedByClient
<1>6. ASSUME NEW c \in Clients, TakeWriter(c)
      PROVE  HolderInv'
  <2>1. Message(c, typed[c]) \in [from : Sender, n : Nat]
    BY DEF Message, Sender, TypeInv
  <2>2. left' # <<>>
    BY <1>6, <2>1, BytesOf DEF TakeWriter
  <2> QED BY <1>6, <2>2 DEF TakeWriter, UnchangedByClient
<1>7. CASE WriteByte
  BY <1>7 DEF WriteByte, TypeInv
<1>8. CASE UNCHANGED ptyVars
  BY <1>8 DEF ptyVars
<1> QED BY <1>1, <1>2, <1>3, <1>4, <1>5, <1>6, <1>7, <1>8 DEF PtyNext

LEMMA Starts ==
  ASSUME PtyInit
  PROVE  TypeInv /\ HolderInv
<1>1. <<>> \in Seq(Nat) /\ <<>> \in Seq(ByteSet)
  BY EmptySeq
<1> QED BY <1>1, PtyAssumption DEF PtyInit, TypeInv, HolderInv

-----------------------------------------------------------------------------
(* Messages stay whole.                                                       *)

\* What the bytes are after a step: a message or the responses were added by
\* whoever took the free writer, or nothing.
LEMMA AllStep ==
  ASSUME TypeInv, HolderInv, [PtyNext]_ptyVars
  PROVE  \/ UNCHANGED All
         \/ Reply /\ All' = All \o HeldBytes
         \/ \E c \in Clients : TakeWriter(c) /\ All' = All \o Bytes(Message(c, typed[c]))
<1> USE PtyAssumption DEF TypeInv, All
<1>1. ASSUME UNCHANGED <<sent, left>>
      PROVE  UNCHANGED All
  BY <1>1
<1>2. CASE Emit \/ Resume \/ ReadInput
  BY <1>1, <1>2 DEF Emit, Resume, ReadInput, UnchangedByProgram
<1>3. CASE ReadOutput \/ Defer \/ Type \/ Replace
  BY <1>1, <1>3 DEF ReadOutput, Defer, Type, Replace
<1>4. CASE UNCHANGED ptyVars
  BY <1>1, <1>4 DEF ptyVars
<1>5. CASE lock = NoOne
  <2>1. left = <<>> /\ All = sent
    BY <1>5, ConcatEmptySeq DEF HolderInv
  <2>2. CASE Reply
    BY <2>1, <2>2 DEF Reply
  <2>3. ASSUME NEW c \in Clients, TakeWriter(c)
        PROVE  All' = All \o Bytes(Message(c, typed[c]))
    BY <2>1, <2>3 DEF TakeWriter
  <2> QED BY <1>2, <1>3, <1>4, <1>5, <2>2, <2>3 DEF PtyNext, WriteByte
<1>6. CASE WriteByte
  <2>1. left # <<>>
    BY <1>6 DEF WriteByte, HolderInv
  <2> QED BY <1>6, <2>1, ByteMoves DEF WriteByte
<1> QED BY <1>2, <1>3, <1>4, <1>5, <1>6 DEF PtyNext, Reply, TakeWriter

LEMMA WholeStep ==
  ASSUME TypeInv, HolderInv, WholeInv, [PtyNext]_ptyVars
  PROVE  WholeInv'
<1>1. All \in Seq(ByteSet)
  BY ConcatProperties DEF TypeInv, All
<1>2. CASE UNCHANGED All
  BY <1>2 DEF WholeInv, Whole
<1>3. CASE All' = All \o HeldBytes
  <2>1. HeldBytes \in Seq(ByteSet) /\ Whole(HeldBytes)
    BY HeldBytesOf DEF TypeInv
  <2>2. Whole(All \o HeldBytes)
    BY <1>1, <2>1, WholeConcat DEF WholeInv
  <2> QED BY <1>3, <2>2 DEF WholeInv, Whole
<1>4. ASSUME NEW c \in Clients, All' = All \o Bytes(Message(c, typed[c]))
      PROVE  WholeInv'
  <2> DEFINE m == Message(c, typed[c])
  <2>1. m \in [from : Sender, n : Nat]
    BY DEF Message, Sender, TypeInv
  <2>2. Bytes(m) \in Seq(ByteSet) /\ Whole(Bytes(m))
    BY <2>1, BytesOf
  <2>3. Whole(All \o Bytes(m))
    BY <1>1, <2>2, WholeConcat DEF WholeInv
  <2> QED BY <1>4, <2>3 DEF WholeInv, Whole
<1> QED BY <1>2, <1>3, <1>4, AllStep

LEMMA WholeIsKept ==
  ASSUME TypeInv, WholeInv
  PROVE  MessagesWhole
<1> SUFFICES ASSUME NEW i \in 1 .. Len(sent)
             PROVE  IF sent[i].part = 2 THEN i > 1 /\ sent[i - 1] = Byte(sent[i].of, 1)
                    ELSE \/ i < Len(sent) /\ sent[i + 1] = Byte(sent[i].of, 2)
                         \/ i = Len(sent) /\ left # <<>> /\ Head(left) = Byte(sent[i].of, 2)
  BY DEF MessagesWhole
<1>1. /\ Len(sent) \in Nat /\ Len(left) \in Nat /\ Len(All) = Len(sent) + Len(left)
      /\ \A j \in 1 .. Len(All) : All[j] = IF j <= Len(sent) THEN sent[j] ELSE left[j - Len(sent)]
  BY ConcatProperties, LenProperties DEF TypeInv, All
<1>2. i \in 1 .. Len(All) /\ All[i] = sent[i]
  BY <1>1
<1>3. CASE sent[i].part = 2
  <2>1. i > 1 /\ All[i - 1] = Byte(sent[i].of, 1)
    BY <1>2, <1>3 DEF WholeInv, Whole
  <2>2. i - 1 \in 1 .. Len(All) /\ i - 1 <= Len(sent)
    BY <1>1, <2>1
  <2> QED BY <1>1, <1>3, <2>1, <2>2
<1>4. CASE sent[i].part # 2
  <2>1. i < Len(All) /\ All[i + 1] = Byte(sent[i].of, 2)
    BY <1>2, <1>4 DEF WholeInv, Whole
  <2>2. i + 1 \in 1 .. Len(All)
    BY <1>1, <2>1
  <2>3. CASE i < Len(sent)
    BY <1>1, <1>4, <2>1, <2>2, <2>3
  <2>4. CASE i = Len(sent)
    <3>1. All[i + 1] = left[1] /\ Len(left) > 0
      BY <1>1, <2>1, <2>2, <2>4
    <3>2. left # <<>> /\ Head(left) = left[1]
      BY <3>1, EmptySeq DEF TypeInv
    <3> QED BY <1>4, <2>1, <2>4, <3>1, <3>2
  <2> QED BY <1>1, <2>3, <2>4
<1> QED BY <1>3, <1>4

LEMMA BytesStart ==
  ASSUME PtyInit
  PROVE  WholeInv
<1>1. All = <<>>
  BY ConcatEmptySeq, EmptySeq DEF PtyInit, All
<1> QED BY <1>1 DEF WholeInv, Whole

\* The bytes of a message are never separated, whoever else has something to
\* write: for any number of clients and messages and any room in the PTY.
THEOREM MessagesStayWhole == PtySpec => []MessagesWhole
<1>1. PtyInit => TypeInv /\ HolderInv /\ WholeInv
  BY Starts, BytesStart
<1>2. TypeInv /\ HolderInv /\ WholeInv /\ [PtyNext]_ptyVars => (TypeInv /\ HolderInv /\ WholeInv)'
  BY TypeStep, HolderStep, WholeStep
<1>3. TypeInv /\ WholeInv => MessagesWhole
  BY WholeIsKept
<1> QED BY <1>1, <1>2, <1>3, PTL DEF PtySpec

-----------------------------------------------------------------------------
(* Queries are answered in their order.                                       *)

LEMMA ConcatElements ==
  ASSUME NEW s \in Seq(Nat), NEW t \in Seq(Nat)
  PROVE  /\ s \o t \in Seq(Nat) /\ Elements(s \o t) = Elements(s) \cup Elements(t)
         /\ Elements(s) \subseteq Nat
         /\ Ascending(s) /\ Ascending(t) /\ (\A q \in Elements(s), r \in Elements(t) : q < r)
              => Ascending(s \o t)
<1> DEFINE u == s \o t
<1>1. /\ Len(s) \in Nat /\ Len(t) \in Nat /\ Len(u) = Len(s) + Len(t) /\ u \in Seq(Nat)
      /\ \A i \in 1 .. Len(u) : u[i] = IF i <= Len(s) THEN s[i] ELSE t[i - Len(s)]
  BY ConcatProperties, LenProperties
<1> HIDE DEF u
<1>2. \A i \in 1 .. Len(s) : i \in 1 .. Len(u) /\ u[i] = s[i]
  BY <1>1
<1>3. ASSUME NEW i \in 1 .. Len(t)
      PROVE  Len(s) + i \in 1 .. Len(u) /\ u[Len(s) + i] = t[i]
  <2>1. Len(s) + i \in 1 .. Len(u) /\ ~ (Len(s) + i <= Len(s)) /\ Len(s) + i - Len(s) = i
    BY <1>1
  <2> QED BY <1>1, <2>1
<1>4. \A i \in 1 .. Len(u) : i \in 1 .. Len(s) \/ (i - Len(s) \in 1 .. Len(t) /\ u[i] = t[i - Len(s)])
  BY <1>1
<1>5. Elements(u) = Elements(s) \cup Elements(t)
  <2>1. \A i \in 1 .. Len(s) : s[i] \in Elements(u)
    BY <1>2 DEF Elements
  <2>2. \A i \in 1 .. Len(t) : t[i] \in Elements(u)
    BY <1>3 DEF Elements
  <2>3. \A i \in 1 .. Len(u) : u[i] \in Elements(s) \cup Elements(t)
    BY <1>2, <1>4 DEF Elements
  <2>4. Elements(u) \subseteq Elements(s) \cup Elements(t)
    BY <2>3 DEF Elements
  <2>5. Elements(s) \subseteq Elements(u) /\ Elements(t) \subseteq Elements(u)
    BY <2>1, <2>2 DEF Elements
  <2> QED BY <2>4, <2>5
<1>6. ASSUME Ascending(s), Ascending(t), \A q \in Elements(s), r \in Elements(t) : q < r
      PROVE  Ascending(u)
  <2> SUFFICES ASSUME NEW i \in 1 .. Len(u), NEW j \in 1 .. Len(u), i < j
               PROVE  u[i] < u[j]
    BY DEF Ascending
  <2>1. CASE j \in 1 .. Len(s)
    <3>1. i \in 1 .. Len(s)
      BY <1>1, <2>1
    <3> QED BY <1>2, <1>6, <2>1, <3>1 DEF Ascending
  <2>2. CASE j \notin 1 .. Len(s)
    <3>1. j - Len(s) \in 1 .. Len(t) /\ u[j] = t[j - Len(s)]
      BY <1>4, <2>2
    <3>2. CASE i \in 1 .. Len(s)
      BY <1>2, <1>6, <3>1, <3>2 DEF Elements
    <3>3. CASE i \notin 1 .. Len(s)
      <4>1. i - Len(s) \in 1 .. Len(t) /\ u[i] = t[i - Len(s)]
        BY <1>4, <3>3
      <4>2. i - Len(s) < j - Len(s)
        BY <1>1
      <4> QED BY <1>6, <3>1, <4>1, <4>2 DEF Ascending
    <3> QED BY <3>2, <3>3
  <2> QED BY <2>1, <2>2
<1>7. Elements(s) \subseteq Nat
  BY ElementOfSeq DEF Elements
<1> QED BY <1>1, <1>5, <1>6, <1>7 DEF u

\* The answers among the bytes: the same, or with the responses at the end.
LEMMA AnsweringSame ==
  ASSUME TypeInv, NEW t \in Seq(ByteSet), \A i \in 1 .. Len(t) : ~ IsAnswer(t[i]),
         All' = All \o t
  PROVE  Answered' = Answered /\ (AnsweredInOrder => AnsweredInOrder')
<1>1. All \in Seq(ByteSet)
  BY ConcatProperties DEF TypeInv, All
<1>2. /\ Len(All) \in Nat /\ Len(t) \in Nat /\ Len(All') = Len(All) + Len(t)
      /\ \A i \in 1 .. Len(All') : All'[i] = IF i <= Len(All) THEN All[i] ELSE t[i - Len(All)]
  BY <1>1, ConcatProperties, LenProperties
<1>3. \A i \in 1 .. Len(All) : i \in 1 .. Len(All') /\ All'[i] = All[i]
  BY <1>2
<1>4. \A i \in 1 .. Len(All') : i \notin 1 .. Len(All) => ~ IsAnswer(All'[i])
  <2> SUFFICES ASSUME NEW i \in 1 .. Len(All'), i \notin 1 .. Len(All)
               PROVE  ~ IsAnswer(All'[i])
    OBVIOUS
  <2>1. i - Len(All) \in 1 .. Len(t) /\ All'[i] = t[i - Len(All)]
    BY <1>2
  <2> QED BY <2>1
<1>5. Answering' = Answering
  BY <1>3, <1>4 DEF Answering, IsAnswer
<1>6. \A i \in Answering : All'[i] = All[i]
  BY <1>3 DEF Answering
<1> QED BY <1>5, <1>6 DEF Answered, AnsweredInOrder

LEMMA AnsweringMore ==
  ASSUME TypeInv, All' = All \o HeldBytes
  PROVE  /\ Answered' = Answered \cup Held
         /\ AnsweredInOrder /\ Ascending(held) /\ (\A q \in Answered, r \in Held : q < r)
              => AnsweredInOrder'
<1>1. All \in Seq(ByteSet)
  BY ConcatProperties DEF TypeInv, All
<1>2. /\ HeldBytes \in Seq(ByteSet) /\ Len(HeldBytes) = 2 * Len(held)
      /\ \A k \in 1 .. Len(held) :
              /\ HeldBytes[2 * k - 1] = Byte(Message(Reader, held[k]), 1)
              /\ HeldBytes[2 * k] = Byte(Message(Reader, held[k]), 2)
  BY HeldBytesOf DEF TypeInv
<1>3. /\ Len(All) \in Nat /\ Len(held) \in Nat /\ Len(All') = Len(All) + 2 * Len(held)
      /\ \A i \in 1 .. Len(All') : All'[i] = IF i <= Len(All) THEN All[i] ELSE HeldBytes[i - Len(All)]
  <2>1. Len(held) \in Nat
    BY LenProperties DEF TypeInv
  <2>2. /\ Len(All) \in Nat /\ Len(All') = Len(All) + Len(HeldBytes)
        /\ \A i \in 1 .. Len(All) + Len(HeldBytes) :
             All'[i] = IF i <= Len(All) THEN All[i] ELSE HeldBytes[i - Len(All)]
    BY <1>1, <1>2, ConcatProperties, LenProperties
  <2> QED BY <1>2, <2>1, <2>2
<1>4. \A i \in 1 .. Len(All) : i \in 1 .. Len(All') /\ All'[i] = All[i]
  BY <1>3
<1> DEFINE at(k) == Len(All) + 2 * k
<1>5. ASSUME NEW k \in 1 .. Len(held)
      PROVE  /\ at(k) \in 1 .. Len(All') /\ at(k) \notin 1 .. Len(All)
             /\ IsAnswer(All'[at(k)]) /\ All'[at(k)].of.n = held[k]
  <2>1. /\ at(k) \in 1 .. Len(All') /\ at(k) \notin 1 .. Len(All)
        /\ ~ (at(k) <= Len(All)) /\ at(k) - Len(All) = 2 * k
    BY <1>3
  <2>2. All'[at(k)] = HeldBytes[2 * k]
    BY <1>3, <2>1
  <2>3. All'[at(k)] = Byte(Message(Reader, held[k]), 2)
    BY <1>2, <2>2
  <2> QED BY <2>1, <2>3 DEF IsAnswer, Byte, Message
<1>6. ASSUME NEW i \in 1 .. Len(All'), i \notin 1 .. Len(All), IsAnswer(All'[i])
      PROVE  \E k \in 1 .. Len(held) : i = at(k)
  <2>1. i - Len(All) \in 1 .. 2 * Len(held) /\ All'[i] = HeldBytes[i - Len(All)]
    BY <1>3, <1>6
  <2>2. PICK k \in 1 .. Len(held) : i - Len(All) = 2 * k - 1 \/ i - Len(All) = 2 * k
    BY <1>3, <2>1, Halves
  <2>3. i - Len(All) # 2 * k - 1
    <3>1. SUFFICES ASSUME i - Len(All) = 2 * k - 1 PROVE FALSE
      OBVIOUS
    <3>2. All'[i] = Byte(Message(Reader, held[k]), 1)
      BY <1>2, <2>1, <3>1
    <3>3. All'[i].part = 1
      BY <3>2 DEF Byte
    <3> QED BY <1>6, <3>3 DEF IsAnswer
  <2> QED BY <1>3, <2>2, <2>3
<1> HIDE DEF at
<1>7. Answering' = Answering \cup {at(k) : k \in 1 .. Len(held)}
  <2>1. Answering' = {i \in 1 .. Len(All') : IsAnswer(All'[i])}
    BY DEF Answering, IsAnswer
  <2> QED BY <1>4, <1>5, <1>6, <2>1 DEF Answering
<1>8. \A i \in Answering : All'[i] = All[i]
  BY <1>4 DEF Answering
<1>9. Answered' = Answered \cup Held
  <2>1. Answered' = {All'[i].of.n : i \in Answering'}
    BY DEF Answered
  <2>2. \A i \in Answering : All'[i].of.n \in Answered
    BY <1>8 DEF Answered
  <2>3. \A k \in 1 .. Len(held) : All'[at(k)].of.n \in Held
    BY <1>5 DEF Held, Elements
  <2>4. Answered' \subseteq Answered \cup Held
    <3> SUFFICES ASSUME NEW i \in Answering'
                 PROVE  All'[i].of.n \in Answered \cup Held
      BY <2>1
    <3> QED BY <1>7, <2>2, <2>3
  <2>5. Answered \subseteq Answered'
    BY <1>7, <1>8, <2>1 DEF Answered
  <2>6. \A k \in 1 .. Len(held) : held[k] \in Answered'
    BY <1>5, <1>7, <2>1
  <2>7. Held \subseteq Answered'
    BY <2>6 DEF Held, Elements
  <2> QED BY <2>4, <2>5, <2>7
<1>10. ASSUME AnsweredInOrder, Ascending(held), \A q \in Answered, r \in Held : q < r
       PROVE  AnsweredInOrder'
  <2> SUFFICES ASSUME NEW i \in Answering', NEW j \in Answering', i < j
               PROVE  All'[i].of.n < All'[j].of.n
    BY DEF AnsweredInOrder
  <2>1. \A k \in 1 .. Len(held) : at(k) \in Int /\ at(k) > Len(All)
    BY <1>3 DEF at
  <2>2. Answering \subseteq 1 .. Len(All)
    BY DEF Answering
  <2>3. CASE j \in Answering
    <3>1. i \in Answering
      <4>1. i \in Int /\ j \in Int /\ j <= Len(All)
        BY <1>3, <1>7, <2>1, <2>2, <2>3
      <4>2. ~ (i > Len(All))
        BY <1>3, <4>1
      <4> QED BY <1>7, <2>1, <4>2
    <3> QED BY <1>8, <1>10, <2>3, <3>1 DEF AnsweredInOrder
  <2>4. ASSUME NEW l \in 1 .. Len(held), j = at(l)
        PROVE  All'[i].of.n < All'[j].of.n
    <3>1. All'[j].of.n = held[l]
      BY <1>5, <2>4
    <3>2. CASE i \in Answering
      <4>1. All'[i].of.n \in Answered /\ held[l] \in Held
        BY <1>8, <3>2 DEF Answered, Held, Elements
      <4> QED BY <1>10, <3>1, <4>1
    <3>3. ASSUME NEW k \in 1 .. Len(held), i = at(k)
          PROVE  All'[i].of.n < All'[j].of.n
      <4>1. k < l
        BY <1>3, <2>4, <3>3 DEF at
      <4>2. All'[i].of.n = held[k]
        BY <1>5, <3>3
      <4> QED BY <1>10, <3>1, <4>1, <4>2 DEF Ascending
    <3> QED BY <1>7, <3>2, <3>3
  <2> QED BY <1>7, <2>3, <2>4
<1> QED BY <1>9, <1>10

LEMMA AnswersStep ==
  ASSUME TypeInv, HolderInv, [PtyNext]_ptyVars, OrderInv
  PROVE  /\ AnsweredInOrder'
         /\ Answered' = Answered \/ (Reply /\ Answered' = Answered \cup Held)
<1>1. CASE UNCHANGED All
  BY <1>1 DEF OrderInv, AnsweredInOrder, Answered, Answering
<1>2. CASE Reply /\ All' = All \o HeldBytes
  <2>1. AnsweredInOrder /\ Ascending(held) /\ (\A q \in Answered, r \in Held : q < r)
    BY DEF OrderInv
  <2> QED BY <1>2, <2>1, AnsweringMore
<1>3. ASSUME NEW c \in Clients, All' = All \o Bytes(Message(c, typed[c]))
      PROVE  AnsweredInOrder' /\ Answered' = Answered
  <2> DEFINE m == Message(c, typed[c])
  <2>1. m \in [from : Sender, n : Nat] /\ m.from # Reader
    BY PtyAssumption DEF Message, Sender, TypeInv
  <2>2. /\ Bytes(m) \in Seq(ByteSet) /\ Len(Bytes(m)) = 2
        /\ Bytes(m)[1] = Byte(m, 1) /\ Bytes(m)[2] = Byte(m, 2)
    BY <2>1, BytesOf
  <2> HIDE DEF m
  <2>3. ~ IsAnswer(Byte(m, 1)) /\ ~ IsAnswer(Byte(m, 2))
    BY <2>1 DEF IsAnswer, Byte
  <2>4. \A i \in 1 .. Len(Bytes(m)) : ~ IsAnswer(Bytes(m)[i])
    BY <2>2, <2>3
  <2>5. All' = All \o Bytes(m)
    BY <1>3 DEF m
  <2> QED BY <2>2, <2>4, <2>5, AnsweringSame DEF OrderInv
<1> QED BY <1>1, <1>2, <1>3, AllStep

\* The chunks that the PTY holds or the program waits to write.
LEMMA EmitChunks ==
  ASSUME TypeInv, Emit
  PROVE  \E chunk \in {Text, asked + 1} :
           /\ Chunks' = Append(Chunks, chunk)
           /\ asked' = asked + (IF chunk = Text THEN 0 ELSE 1)
<1> USE DEF TypeInv
<1>1. PICK chunk \in {Text} \cup (IF asked < MaxAsked THEN {asked + 1} ELSE {}) :
        /\ asked' = asked + (IF chunk = Text THEN 0 ELSE 1)
        /\ IF Len(output) < OutRoom
           THEN output' = Append(output, chunk) /\ UNCHANGED blocked
           ELSE blocked' = <<chunk>> /\ UNCHANGED output
  BY DEF Emit
<1>2. chunk \in Nat /\ chunk \in {Text, asked + 1}
  BY <1>1 DEF Text
<1>3. blocked = <<>> /\ Chunks = output
  BY ConcatEmptySeq DEF Emit, Chunks
<1>4. CASE Len(output) < OutRoom
  <2>1. Append(output, chunk) \in Seq(Nat)
    BY <1>2, AppendProperties
  <2>2. Chunks' = Append(output, chunk) \o <<>>
    BY <1>1, <1>3, <1>4 DEF Chunks
  <2> QED BY <1>1, <1>2, <1>3, <2>1, <2>2, ConcatEmptySeq
<1>5. CASE ~ (Len(output) < OutRoom)
  <2>1. Chunks' = output \o <<chunk>>
    BY <1>1, <1>5 DEF Chunks
  <2> QED BY <1>1, <1>2, <1>3, <2>1, AppendIsConcat
<1> QED BY <1>4, <1>5

LEMMA EmitAsks ==
  ASSUME TypeInv, OrderInv, Emit
  PROVE  /\ asked' \in Nat /\ asked' >= asked
         /\ AskedInOrder(Chunks') /\ Asking \subseteq Asking'
         /\ \/ asked' = asked /\ Asking' = Asking
            \/ asked' = asked + 1 /\ Asking' = Asking \cup {asked + 1}
<1>1. PICK chunk \in {Text, asked + 1} :
        /\ Chunks' = Append(Chunks, chunk)
        /\ asked' = asked + (IF chunk = Text THEN 0 ELSE 1)
  BY EmitChunks
<1>2. Chunks \in Seq(Nat) /\ chunk \in Nat /\ asked \in Nat
  BY <1>1, ConcatProperties DEF TypeInv, Chunks, Text
<1> DEFINE n == Len(Chunks)
<1>3. /\ n \in Nat /\ Len(Chunks') = n + 1 /\ Chunks'[n + 1] = chunk
      /\ \A i \in 1 .. n : Chunks'[i] = Chunks[i]
  BY <1>1, <1>2, AppendProperties, LenProperties
<1> HIDE DEF n
<1>4. Elements(Chunks') = Elements(Chunks) \cup {chunk}
  <2>1. \A i \in 1 .. n : Chunks'[i] \in Elements(Chunks)
    BY <1>3 DEF Elements, n
  <2>2. \A i \in 1 .. n + 1 : i \in 1 .. n \/ i = n + 1
    BY <1>3
  <2>3. Elements(Chunks') \subseteq Elements(Chunks) \cup {chunk}
    BY <1>3, <2>1, <2>2 DEF Elements
  <2>4. \A i \in 1 .. n : i \in 1 .. n + 1
    BY <1>3
  <2>5. n + 1 \in 1 .. n + 1
    BY <1>3
  <2>6. Elements(Chunks) \subseteq Elements(Chunks') /\ chunk \in Elements(Chunks')
    BY <1>3, <2>4, <2>5 DEF Elements, n
  <2> QED BY <2>3, <2>6
<1>5. Asking' = Elements(Chunks') \ {Text}
  BY DEF Asking, Elements, Text
<1>6. AskedInOrder(Chunks')
  <2> SUFFICES ASSUME NEW i \in 1 .. Len(Chunks'), NEW j \in 1 .. Len(Chunks'), i < j,
                      Chunks'[i] # Text, Chunks'[j] # Text
               PROVE  Chunks'[i] < Chunks'[j]
    BY DEF AskedInOrder
  <2>1. i \in 1 .. n /\ Chunks'[i] = Chunks[i]
    BY <1>3
  <2>2. CASE j \in 1 .. n
    BY <1>3, <2>1, <2>2 DEF OrderInv, AskedInOrder, n
  <2>3. CASE j = n + 1
    <3>1. Chunks[i] \in 1 .. asked
      BY <2>1 DEF OrderInv, Asking, Elements, n
    <3>2. Chunks'[j] = asked + 1
      BY <1>1, <1>3, <2>3
    <3> QED BY <1>2, <2>1, <3>1, <3>2
  <2> QED BY <1>3, <2>2, <2>3
<1>7. CASE chunk = Text
  BY <1>1, <1>2, <1>4, <1>5, <1>6, <1>7 DEF Asking
<1>8. CASE chunk = asked + 1
  <2>1. chunk # Text /\ asked' = asked + 1
    BY <1>1, <1>2, <1>8 DEF Text
  <2> QED BY <1>2, <1>4, <1>5, <1>6, <1>8, <2>1 DEF Asking
<1> QED BY <1>1, <1>7, <1>8

LEMMA ReadAsks ==
  ASSUME TypeInv, HolderInv, OrderInv, ReadOutput
  PROVE  \E s \in Seq(Nat) :
           /\ held' = deferred \o s /\ Ascending(s)
           /\ Elements(s) \cup Asking' = Asking
           /\ AskedInOrder(Chunks')
           /\ \A q \in Elements(s), r \in Asking' : q < r
<1> USE DEF TypeInv
<1>1. PICK n \in 1 .. Len(output) :
          /\ output' = SubSeq(output, n + 1, Len(output))
          /\ held' = deferred \o Queries(SubSeq(output, 1, n))
  BY DEF ReadOutput
<1> DEFINE first == SubSeq(output, 1, n)
           rest == SubSeq(output, n + 1, Len(output))
           s == Queries(first)
           m == Len(Chunks)
<1>2. /\ first \in Seq(Nat) /\ Len(first) = n /\ \A i \in 1 .. n : first[i] = output[i]
      /\ rest \in Seq(Nat) /\ Len(rest) = Len(output) - n
      /\ \A i \in 1 .. Len(output) - n : rest[i] = output[n + i]
  BY ReadSplits
<1>3. /\ Len(output) \in Nat /\ Len(blocked) \in Nat /\ m = Len(output) + Len(blocked)
      /\ \A i \in 1 .. m : Chunks[i] = IF i <= Len(output) THEN output[i] ELSE blocked[i - Len(output)]
      /\ Chunks \in Seq(Nat) /\ m \in Nat
  BY ConcatProperties, LenProperties DEF Chunks
<1>4. Chunks' = rest \o blocked
  BY <1>1 DEF ReadOutput, Chunks
<1>5. /\ Len(Chunks') = Len(rest) + Len(blocked)
      /\ \A i \in 1 .. Len(rest) + Len(blocked) :
           Chunks'[i] = IF i <= Len(rest) THEN rest[i] ELSE blocked[i - Len(rest)]
  BY <1>2, <1>4, ConcatProperties
<1>6. held' = deferred \o s
  BY <1>1
<1>7. /\ s \in Seq(Nat)
      /\ \A k \in 1 .. Len(s) : \E i \in 1 .. n : first[i] # Text /\ s[k] = first[i]
      /\ \A i \in 1 .. n : first[i] # Text => \E k \in 1 .. Len(s) : s[k] = first[i]
      /\ (\A i, j \in 1 .. n : i < j /\ first[i] # Text /\ first[j] # Text => first[i] < first[j])
           => Ascending(s)
  <2> HIDE DEF first
  <2>1. /\ Queries(first) \in Seq(Nat)
        /\ \A k \in 1 .. Len(Queries(first)) :
             \E i \in 1 .. Len(first) : first[i] # Text /\ Queries(first)[k] = first[i]
        /\ \A i \in 1 .. Len(first) : first[i] # Text =>
             \E k \in 1 .. Len(Queries(first)) : Queries(first)[k] = first[i]
        /\ (\A i, j \in 1 .. Len(first) : i < j /\ first[i] # Text /\ first[j] # Text => first[i] < first[j])
              => Ascending(Queries(first))
    BY <1>2, QueriesOf
  <2>2. Len(first) = n
    BY <1>2
  <2> HIDE DEF s
  <2>3. s = Queries(first)
    BY DEF s
  <2> QED BY <2>1, <2>2, <2>3
<1> HIDE DEF first, rest, s, m
<1>7a. n \in Nat /\ n <= Len(output) /\ n \in 1 .. m /\ m - n \in Nat
  BY <1>3
<1>8. n \in 1 .. m /\ \A i \in 1 .. n : i \in 1 .. m /\ first[i] = Chunks[i]
  <2> SUFFICES ASSUME NEW i \in 1 .. n
               PROVE  i \in 1 .. m /\ first[i] = Chunks[i]
    BY <1>7a
  <2>1. i \in 1 .. m /\ i <= Len(output)
    BY <1>3, <1>7a
  <2> QED BY <1>2, <1>3, <2>1
<1>9. Len(Chunks') = m - n /\ \A i \in 1 .. m - n : n + i \in 1 .. m /\ Chunks'[i] = Chunks[n + i]
  <2>1. Len(Chunks') = m - n
    BY <1>2, <1>3, <1>5
  <2> SUFFICES ASSUME NEW i \in 1 .. m - n
               PROVE  n + i \in 1 .. m /\ Chunks'[i] = Chunks[n + i]
    BY <2>1
  <2>2. n + i \in 1 .. m
    BY <1>3
  <2>3. CASE i <= Len(rest)
    <3>1. i \in 1 .. Len(rest) + Len(blocked) /\ i \in 1 .. Len(output) - n /\ n + i <= Len(output)
      BY <1>2, <1>3, <1>7a, <2>3
    <3>2. Chunks'[i] = rest[i] /\ rest[i] = output[n + i]
      BY <1>2, <1>5, <2>3, <3>1
    <3>3. Chunks[n + i] = output[n + i]
      BY <1>3, <2>2, <3>1
    <3> QED BY <2>2, <3>2, <3>3
  <2>4. CASE i > Len(rest)
    <3>1. ~ (n + i <= Len(output)) /\ n + i - Len(output) = i - Len(rest)
      BY <1>2, <1>3, <2>4
    <3> QED BY <1>2, <1>3, <1>5, <2>2, <2>4, <3>1
  <2> QED BY <1>2, <1>3, <2>3, <2>4
<1>10. AskedInOrder(Chunks)
  BY DEF OrderInv
<1>11. Ascending(s)
  BY <1>7, <1>8, <1>10 DEF AskedInOrder, m
<1>12. Asking' = Elements(Chunks') \ {Text}
  BY DEF Asking, Elements, Text
<1>13. AskedInOrder(Chunks')
  <2> SUFFICES ASSUME NEW i \in 1 .. m - n, NEW j \in 1 .. m - n, i < j,
                      Chunks'[i] # Text, Chunks'[j] # Text
               PROVE  Chunks'[i] < Chunks'[j]
    BY <1>9 DEF AskedInOrder
  <2>1. n + i < n + j /\ n + i \in 1 .. m /\ n + j \in 1 .. m
    BY <1>9
  <2> QED BY <1>9, <1>10, <2>1 DEF AskedInOrder, m
<1>14. ASSUME NEW k \in 1 .. Len(s)
       PROVE  \E i \in 1 .. n : Chunks[i] # Text /\ s[k] = Chunks[i]
  <2>1. PICK i \in 1 .. n : first[i] # Text /\ s[k] = first[i]
    BY <1>7
  <2> QED BY <1>8, <2>1
<1>15. ASSUME NEW i \in 1 .. m, Chunks[i] # Text
       PROVE  Chunks[i] \in Elements(s) \cup Asking'
  <2>1. CASE i <= n
    <3>1. i \in 1 .. n
      BY <1>3, <1>7a, <2>1
    <3>2. first[i] = Chunks[i]
      BY <1>8, <3>1
    <3>3. PICK k \in 1 .. Len(s) : s[k] = first[i]
      BY <1>7, <1>15, <3>1, <3>2
    <3> QED BY <3>2, <3>3 DEF Elements
  <2>2. CASE i > n
    <3>1. i - n \in 1 .. m - n /\ n + (i - n) = i
      BY <1>3, <1>7a, <2>2
    <3>2. Chunks'[i - n] = Chunks[i]
      BY <1>9, <3>1
    <3>3. i - n \in 1 .. Len(Chunks')
      BY <1>9, <3>1
    <3> QED BY <1>12, <1>15, <3>2, <3>3 DEF Elements
  <2> QED BY <1>3, <1>7a, <2>1, <2>2
<1>16. Elements(s) \subseteq Asking
  <2> SUFFICES ASSUME NEW k \in 1 .. Len(s)
               PROVE  s[k] \in Asking
    BY DEF Elements
  <2>1. PICK i \in 1 .. n : Chunks[i] # Text /\ s[k] = Chunks[i]
    BY <1>14
  <2>2. i \in 1 .. Len(Chunks)
    BY <1>8 DEF m
  <2> QED BY <2>1, <2>2 DEF Elements, Asking
<1>17. Asking' \subseteq Asking
  BY <1>9, <1>12 DEF Elements, Asking, m
<1>18. Asking \subseteq Elements(s) \cup Asking'
  BY <1>15 DEF Elements, Asking, m
<1>19. ASSUME NEW q \in Elements(s), NEW r \in Asking'
       PROVE  q < r
  <2>1. PICK i \in 1 .. n : Chunks[i] # Text /\ q = Chunks[i]
    BY <1>14 DEF Elements
  <2>2. PICK j \in 1 .. m - n : r = Chunks'[j] /\ r # Text
    BY <1>9, <1>12 DEF Elements
  <2>3. i < n + j /\ i \in 1 .. m /\ n + j \in 1 .. m /\ r = Chunks[n + j]
    BY <1>8, <1>9, <2>2
  <2> QED BY <1>10, <2>1, <2>2, <2>3 DEF AskedInOrder, m
<1> QED BY <1>6, <1>7, <1>11, <1>13, <1>16, <1>17, <1>18, <1>19

\* What is deferred of the responses, and what is dropped for them.
LEMMA DeferKeeps ==
  ASSUME TypeInv, OrderInv, Defer
  PROVE  /\ Ascending(deferred') /\ Deferred' \subseteq Held
         /\ \A q \in Held \ Deferred' : q + MAX_DEFERRED <= asked
<1> USE PtyAssumption DEF TypeInv
<1> DEFINE n == Len(held)
           M == MAX_DEFERRED
<1>1. /\ n \in Nat /\ M \in Nat \ {0} /\ asked \in Nat
      /\ n <= M => deferred' = held
      /\ n > M => Len(deferred') = M /\ \A i \in 1 .. M : deferred'[i] = held[n - M + i]
  BY LastTyped, LenProperties DEF Defer, Kept
<1>2. Deferred' = Elements(deferred')
  BY DEF Deferred, Elements
<1>3. \A i, j \in 1 .. n : i < j => held[i] < held[j]
  BY DEF OrderInv, Ascending
<1>4. \A i \in 1 .. n : held[i] \in 1 .. asked
  BY DEF OrderInv, Held, Elements
<1> HIDE DEF M
<1>5. CASE n <= M
  BY <1>1, <1>2, <1>3, <1>5 DEF Held, Ascending
<1>6. CASE n > M
  <2> HIDE DEF n
  <2>1. \A i \in 1 .. M : n - M + i \in 1 .. n
    BY <1>1, <1>6
  <2>2. Ascending(deferred')
    <3> SUFFICES ASSUME NEW i \in 1 .. M, NEW j \in 1 .. M, i < j
                 PROVE  deferred'[i] < deferred'[j]
      BY <1>1, <1>6 DEF Ascending
    <3>1. n - M + i < n - M + j
      BY <1>1
    <3> QED BY <1>1, <1>3, <1>6, <2>1, <3>1
  <2>3. Deferred' \subseteq Held
    <3> SUFFICES ASSUME NEW i \in 1 .. M
                 PROVE  deferred'[i] \in Held
      BY <1>1, <1>2, <1>6 DEF Elements
    <3>1. deferred'[i] = held[n - M + i] /\ n - M + i \in 1 .. n
      BY <1>1, <1>6, <2>1
    <3> QED BY <3>1 DEF Elements, Held, n
  <2>4. ASSUME NEW q \in Held \ Deferred'
        PROVE  q + M <= asked
    <3>1. PICK i \in 1 .. n : q = held[i]
      BY DEF Held, Elements, n
    <3>2. i <= n - M
      <4> SUFFICES ASSUME i > n - M PROVE FALSE
        BY <1>1, <3>1
      <4>1. i - (n - M) \in 1 .. M /\ n - M + (i - (n - M)) = i
        BY <1>1, <1>6, <3>1
      <4> QED BY <1>1, <1>2, <1>6, <2>4, <3>1, <4>1 DEF Elements
    <3> DEFINE f == [k \in 1 .. M |-> held[n - M + k]]
               T == q + 1 .. asked
    <3>3. q \in 1 .. asked
      BY <1>4, <3>1
    <3>4. ASSUME NEW k \in 1 .. M
          PROVE  held[n - M + k] \in T
      <4>1. n - M + k \in 1 .. n /\ i < n - M + k
        BY <1>1, <2>1, <3>2
      <4>2. held[n - M + k] \in 1 .. asked /\ q < held[n - M + k]
        BY <1>3, <1>4, <3>1, <4>1
      <4> QED BY <1>1, <3>3, <4>2
    <3>5. ASSUME NEW k \in 1 .. M, NEW l \in 1 .. M, k # l
          PROVE  held[n - M + k] # held[n - M + l]
      <4>1. n - M + k \in 1 .. n /\ n - M + l \in 1 .. n
        BY <2>1
      <4>2. held[n - M + k] \in Int /\ held[n - M + l] \in Int
        BY <1>4, <4>1
      <4>3. n - M + k < n - M + l \/ n - M + l < n - M + k
        BY <1>1, <3>5
      <4>4. held[n - M + k] < held[n - M + l] \/ held[n - M + l] < held[n - M + k]
        BY <1>3, <4>1, <4>3
      <4> QED BY <4>2, <4>4
    <3>6. f \in Injection(1 .. M, T)
      BY <3>4, <3>5 DEF Injection, IsInjective
    <3>7. IsFiniteSet(T) /\ Cardinality(T) = asked - q /\ Cardinality(1 .. M) = M
      <4>1. IsFiniteSet(T) /\ Cardinality(T) = IF q + 1 > asked THEN 0 ELSE asked - (q + 1) + 1
        <5>1. q + 1 \in Int /\ asked \in Int
          BY <1>1, <3>3
        <5> QED BY <5>1, FS_Interval
      <4>2. Cardinality(1 .. M) = IF 1 > M THEN 0 ELSE M - 1 + 1
        BY <1>1, FS_Interval
      <4> QED BY <1>1, <3>3, <4>1, <4>2
    <3>8. Cardinality(1 .. M) <= Cardinality(T)
      BY <3>6, <3>7, FS_Injection
    <3> QED BY <1>1, <3>3, <3>7, <3>8
  <2> QED BY <2>2, <2>3, <2>4 DEF M
<1> QED BY <1>1, <1>5, <1>6

\* Where the queries are after a step.
LEMMA QueriesStep ==
  ASSUME TypeInv, HolderInv, OrderInv, KeptInv, [PtyNext]_ptyVars
  PROVE  (OrderInv /\ KeptInv)'
<1> DEFINE queries == Answered \cup Held \cup Deferred \cup Asking
           Dropped(q) == q + MAX_DEFERRED <= asked
<1>1. AnsweredInOrder' /\ (Answered' = Answered \/ (Reply /\ Answered' = Answered \cup Held))
  BY AnswersStep
<1>2. /\ \A q \in Answered, r \in Held \cup Deferred \cup Asking : q < r
      /\ \A q \in Held \cup Deferred, r \in Asking : q < r
      /\ Ascending(held) /\ Ascending(deferred) /\ AskedInOrder(Chunks)
      /\ queries \subseteq 1 .. asked
      /\ \A q \in 1 .. asked : q \in queries \/ Dropped(q)
      /\ asked \in Nat
  BY DEF OrderInv, KeptInv, TypeInv
<1>3. ASSUME UNCHANGED <<held, deferred, output, blocked, asked>>, ~ Reply
      PROVE  (OrderInv /\ KeptInv)'
  <2>1. UNCHANGED <<Held, Deferred, Chunks, Asking, asked, held, deferred, Answered>> /\ AnsweredInOrder'
    BY <1>1, <1>3 DEF Held, Deferred, Chunks, Asking, Elements
  <2> HIDE DEF queries
  <2> QED BY <1>2, <2>1 DEF OrderInv, KeptInv, Ascending, AskedInOrder, queries
<1>4. CASE Emit
  <2>1. UNCHANGED <<Held, Deferred, held, deferred>>
    BY <1>4 DEF Emit, UnchangedByProgram, Held, Deferred, Elements
  <2>2. UNCHANGED Answered
    BY <1>1, <1>4, HolderInv DEF Emit, UnchangedByProgram, Reply
  <2>3. /\ asked' \in Nat /\ asked' >= asked
        /\ AskedInOrder(Chunks') /\ Asking \subseteq Asking'
        /\ \/ asked' = asked /\ Asking' = Asking
           \/ asked' = asked + 1 /\ Asking' = Asking \cup {asked + 1}
    BY <1>4, EmitAsks
  <2>4. OrderInv'
    BY <1>1, <1>2, <2>1, <2>2, <2>3 DEF OrderInv, Ascending, AskedInOrder
  <2>5. ASSUME NEW q \in 1 .. asked'
        PROVE  q \in (Answered \cup Held \cup Deferred \cup Asking)' \/ q + MAX_DEFERRED <= asked'
    BY <1>2, <2>1, <2>2, <2>3, PtyAssumption
  <2> QED BY <2>4, <2>5 DEF KeptInv
<1>5. CASE Resume
  <2>1. Chunks' = Chunks
    <3>1. Chunks \in Seq(Nat)
      BY ConcatProperties DEF TypeInv, Chunks
    <3>2. Chunks' = Chunks \o <<>>
      BY <1>5 DEF Resume, Chunks
    <3> QED BY <3>1, <3>2, ConcatEmptySeq
  <2>2. UNCHANGED <<Held, Deferred, Asking, asked, held, deferred>>
    BY <1>5, <2>1 DEF Resume, UnchangedByProgram, Held, Deferred, Asking, Elements
  <2>3. UNCHANGED Answered
    BY <1>1, <1>5 DEF Resume, Reply
  <2> HIDE DEF queries
  <2> QED BY <1>1, <1>2, <2>1, <2>2, <2>3 DEF OrderInv, KeptInv, Ascending, AskedInOrder, queries
<1>6. CASE ReadOutput
  <2>1. PICK s \in Seq(Nat) :
          /\ held' = deferred \o s /\ Ascending(s)
          /\ Elements(s) \cup Asking' = Asking
          /\ AskedInOrder(Chunks')
          /\ \A q \in Elements(s), r \in Asking' : q < r
    BY <1>6, ReadAsks
  <2>2. held = <<>> /\ Held = {} /\ UNCHANGED <<asked, Answered>>
    <3>1. reader = "read" /\ asked' = asked
      BY <1>6 DEF ReadOutput
    <3>2. held = <<>>
      BY <3>1 DEF HolderInv
    <3>3. ~ Reply
      BY <3>1 DEF Reply
    <3> QED BY <1>1, <3>1, <3>2, <3>3, EmptySeq DEF Held, Elements
  <2>3. deferred' = <<>> /\ Deferred' = {}
    BY <1>6, EmptySeq DEF ReadOutput, Deferred, Elements
  <2>4. Held' = Deferred \cup Elements(s) /\ Ascending(held')
    <3>1. deferred \in Seq(Nat) /\ \A q \in Elements(deferred), r \in Elements(s) : q < r
      BY <1>2, <2>1 DEF TypeInv, Deferred
    <3>2. Elements(deferred \o s) = Elements(deferred) \cup Elements(s) /\ Ascending(deferred \o s)
      BY <1>2, <2>1, <3>1, ConcatElements
    <3>3. Held' = Elements(held')
      BY DEF Held, Elements
    <3> QED BY <2>1, <3>2, <3>3 DEF Deferred
  <2>5. Ascending(deferred')
    BY <2>3, EmptySeq DEF Ascending
  <2>6. OrderInv'
    BY <1>1, <1>2, <2>1, <2>2, <2>3, <2>4, <2>5 DEF OrderInv, Ascending, AskedInOrder
  <2>7. KeptInv'
    BY <1>2, <2>1, <2>2, <2>3, <2>4 DEF KeptInv
  <2> QED BY <2>6, <2>7
<1>7. CASE Defer
  <2>1. /\ Ascending(deferred') /\ Deferred' \subseteq Held
        /\ \A q \in Held \ Deferred' : q + MAX_DEFERRED <= asked
    BY <1>7, DeferKeeps
  <2>2. deferred = <<>> /\ Deferred = {}
    BY <1>7, EmptySeq DEF Defer, HolderInv, Deferred, Elements
  <2>3. held' = <<>> /\ Held' = {} /\ Ascending(held')
    BY <1>7, EmptySeq DEF Defer, Held, Elements, Ascending
  <2>4. UNCHANGED <<asked, Chunks, Asking>>
    BY <1>7 DEF Defer, Chunks, Asking, Elements
  <2>5. UNCHANGED Answered
    BY <1>1, <1>7 DEF Defer, Reply
  <2>6. OrderInv'
    BY <1>1, <1>2, <2>1, <2>3, <2>4, <2>5 DEF OrderInv, Ascending, AskedInOrder
  <2>7. KeptInv'
    BY <1>2, <2>1, <2>2, <2>3, <2>4, <2>5 DEF KeptInv
  <2> QED BY <2>6, <2>7
<1>8. CASE Reply
  <2>1. deferred = <<>> /\ Deferred = {} /\ UNCHANGED <<deferred, Deferred>>
    BY <1>8, EmptySeq DEF Reply, HolderInv, Deferred, Elements
  <2>2. held' = <<>> /\ Held' = {} /\ Ascending(held')
    BY <1>8, EmptySeq DEF Reply, Held, Elements, Ascending
  <2>3. UNCHANGED <<asked, Chunks, Asking>>
    BY <1>8 DEF Reply, Chunks, Asking, Elements
  <2>4. OrderInv'
    BY <1>1, <1>2, <2>1, <2>2, <2>3 DEF OrderInv, Ascending, AskedInOrder
  <2>5. Answered' = Answered \cup Held
    <3>1. All' = All \o HeldBytes
      BY <1>8, AllStep, ConcatEmptySeq DEF Reply, All, HolderInv, TypeInv
    <3> QED BY <3>1, AnsweringMore
  <2>6. KeptInv'
    BY <1>2, <2>1, <2>2, <2>3, <2>5 DEF KeptInv
  <2> QED BY <2>4, <2>6
<1>9. CASE ReadInput
  BY <1>3, <1>9, PtyAssumption DEF ReadInput, UnchangedByProgram, Reply, HolderInv
<1>10. CASE Type \/ Replace
  BY <1>3, <1>10 DEF Type, Replace, UnchangedByClient, Reply, HolderInv
<1>11. ASSUME NEW c \in Clients, TakeWriter(c)
       PROVE  (OrderInv /\ KeptInv)'
  BY <1>3, <1>11, PtyAssumption DEF TakeWriter, UnchangedByClient, Reply, HolderInv
<1>12. CASE WriteByte
  BY <1>3, <1>12 DEF WriteByte, Reply
<1>13. CASE UNCHANGED ptyVars
  BY <1>3, <1>13, PtyAssumption DEF ptyVars, Reply
<1> QED
  BY <1>4, <1>5, <1>6, <1>7, <1>8, <1>9, <1>10, <1>11, <1>12, <1>13 DEF PtyNext

\* The queries that are answered or will be, as one sequence.
LEMMA AnswersAre ==
  ASSUME TypeInv, HolderInv, OrderInv
  PROVE  /\ Answers \in Seq(Nat) /\ Ascending(Answers)
         /\ Elements(Answers) = Answered \cup Held \cup Deferred \cup Asking
<1> DEFINE picked == Pick(All, Answering)
           a == [i \in DOMAIN picked |-> picked[i].of.n]
           q == Queries(Chunks)
<1>1. All \in Seq(ByteSet) /\ DOMAIN All = 1 .. Len(All) /\ Len(All) \in Nat
  BY ConcatProperties, LenProperties DEF TypeInv, All
<1>2. Answering \in SUBSET (1 .. Len(All))
  BY DEF Answering
<1>3. /\ picked \in Seq(ByteSet) /\ Len(picked) = Cardinality(Answering)
      /\ \A k \in 1 .. Len(picked) : Nth(Answering, k) \in Answering /\ picked[k] = All[Nth(Answering, k)]
  <2> HIDE DEF picked
  <2>1. picked = Pick(All, Answering)
    BY DEF picked
  <2> QED BY <1>1, <1>2, <2>1, PickIsSeq
<1>4. /\ \A k, l \in 1 .. Cardinality(Answering) : k < l => Nth(Answering, k) < Nth(Answering, l)
      /\ \A i \in Answering : Rank(Answering, i) \in 1 .. Cardinality(Answering)
                              /\ Nth(Answering, Rank(Answering, i)) = i
  BY <1>1, <1>2, NthRank, RankGrows
<1> HIDE DEF picked
<1>5. a \in Seq(Nat) /\ Len(a) = Len(picked) /\ \A k \in 1 .. Len(picked) : a[k] = picked[k].of.n
  <2>1. DOMAIN picked = 1 .. Len(picked) /\ Len(picked) \in Nat
    BY <1>3, LenProperties
  <2>2. \A k \in 1 .. Len(picked) : picked[k].of.n \in Nat
    <3>1. \A k \in 1 .. Len(picked) : picked[k] \in ByteSet
      BY <1>3, ElementOfSeq
    <3> QED BY <3>1 DEF ByteSet
  <2>3. a \in [1 .. Len(picked) -> Nat]
    BY <2>1, <2>2
  <2> QED BY <2>1, <2>3
<1> HIDE DEF a
<1>6. Elements(a) = Answered
  <2>1. \A k \in 1 .. Len(a) : a[k] \in Answered
    BY <1>3, <1>5 DEF Answered
  <2>2. ASSUME NEW i \in Answering
        PROVE  All[i].of.n \in Elements(a)
    <3>1. PICK k \in 1 .. Len(a) : Nth(Answering, k) = i
      BY <1>3, <1>4, <1>5
    <3> QED BY <1>3, <1>5, <3>1 DEF Elements
  <2>3. Elements(a) \subseteq Answered
    BY <2>1 DEF Elements
  <2>4. Answered \subseteq Elements(a)
    BY <2>2 DEF Answered
  <2> QED BY <2>3, <2>4
<1>7. Ascending(a)
  <2> SUFFICES ASSUME NEW k \in 1 .. Len(a), NEW l \in 1 .. Len(a), k < l
               PROVE  a[k] < a[l]
    BY DEF Ascending
  <2>1. Nth(Answering, k) < Nth(Answering, l) /\ Nth(Answering, k) \in Answering /\ Nth(Answering, l) \in Answering
    BY <1>3, <1>4, <1>5
  <2> QED BY <1>3, <1>5, <2>1 DEF OrderInv, AnsweredInOrder
<1>8. q \in Seq(Nat) /\ Ascending(q) /\ Elements(q) = Asking
  <2>1. Chunks \in Seq(Nat)
    BY ConcatProperties DEF TypeInv, Chunks
  <2>2. /\ q \in Seq(Nat)
        /\ \A k \in 1 .. Len(q) : \E i \in 1 .. Len(Chunks) : Chunks[i] # Text /\ q[k] = Chunks[i]
        /\ \A i \in 1 .. Len(Chunks) : Chunks[i] # Text => \E k \in 1 .. Len(q) : q[k] = Chunks[i]
        /\ AskedInOrder(Chunks) => Ascending(q)
    BY <2>1, QueriesOf DEF AskedInOrder
  <2> HIDE DEF q
  <2>3. Elements(q) \subseteq Asking
    <3> SUFFICES ASSUME NEW k \in 1 .. Len(q)
                 PROVE  q[k] \in Asking
      BY DEF Elements
    <3>1. PICK i \in 1 .. Len(Chunks) : Chunks[i] # Text /\ q[k] = Chunks[i]
      BY <2>2
    <3> QED BY <3>1 DEF Elements, Asking
  <2>4. Asking \subseteq Elements(q)
    <3> SUFFICES ASSUME NEW i \in 1 .. Len(Chunks), Chunks[i] # Text
                 PROVE  Chunks[i] \in Elements(q)
      BY DEF Elements, Asking
    <3>1. PICK k \in 1 .. Len(q) : q[k] = Chunks[i]
      BY <2>2
    <3> QED BY <3>1 DEF Elements
  <2> QED BY <2>2, <2>3, <2>4 DEF OrderInv
<1>9. Answers = a \o held \o deferred \o q
  BY <1>1 DEF Answers, a, picked, Answering, IsAnswer, All, Chunks
<1> HIDE DEF q
<1>10. /\ held \in Seq(Nat) /\ deferred \in Seq(Nat)
       /\ Elements(held) = Held /\ Elements(deferred) = Deferred
       /\ Ascending(held) /\ Ascending(deferred)
       /\ \A x \in Answered, z \in Held \cup Deferred \cup Asking : x < z
       /\ \A x \in Held \cup Deferred, z \in Asking : x < z
  BY DEF TypeInv, OrderInv, Held, Deferred
<1>11. a \o held \in Seq(Nat) /\ Elements(a \o held) = Answered \cup Held /\ Ascending(a \o held)
  BY <1>5, <1>6, <1>7, <1>10, ConcatElements
<1> DEFINE b == a \o held
<1>12. /\ b \o deferred \in Seq(Nat) /\ Elements(b \o deferred) = Answered \cup Held \cup Deferred
       /\ Ascending(b \o deferred)
  <2> HIDE DEF b
  <2>1. b \in Seq(Nat) /\ Elements(b) = Answered \cup Held /\ Ascending(b)
    BY <1>11 DEF b
  <2>2. \A x \in Held, z \in Deferred : x < z
    BY EmptySeq DEF HolderInv, Held, Deferred, Elements
  <2>3. \A x \in Elements(b), z \in Elements(deferred) : x < z
    BY <1>10, <2>1, <2>2
  <2> QED BY <1>10, <2>1, <2>3, ConcatElements
<1> DEFINE d == b \o deferred
<1>13. d \o q \in Seq(Nat) /\ Ascending(d \o q)
       /\ Elements(d \o q) = Answered \cup Held \cup Deferred \cup Asking
  <2> HIDE DEF d
  <2>1. d \in Seq(Nat) /\ Elements(d) = Answered \cup Held \cup Deferred /\ Ascending(d)
    BY <1>12 DEF d
  <2>2. \A x \in Elements(d), z \in Elements(q) : x < z
    BY <1>8, <1>10, <2>1
  <2> QED BY <1>8, <2>1, <2>2, ConcatElements
<1> QED BY <1>9, <1>13

LEMMA OrderIsKept ==
  ASSUME TypeInv, HolderInv, OrderInv, KeptInv
  PROVE  AnswersKept
<1>1. /\ Answers \in Seq(Nat) /\ Ascending(Answers)
      /\ Elements(Answers) = Answered \cup Held \cup Deferred \cup Asking
  BY AnswersAre
<1>2. ASSUME NEW q \in 1 .. asked, \A i \in 1 .. Len(Answers) : Answers[i] # q
      PROVE  q + MAX_DEFERRED <= asked
  <2>1. q \notin Elements(Answers)
    BY <1>2 DEF Elements
  <2> QED BY <1>1, <2>1 DEF KeptInv
<1> QED BY <1>1, <1>2 DEF AnswersKept, Ascending

LEMMA OrderStarts ==
  ASSUME PtyInit
  PROVE  OrderInv /\ KeptInv
<1>1. All = <<>> /\ Chunks = <<>> /\ held = <<>> /\ deferred = <<>> /\ asked = 0
  BY ConcatEmptySeq, EmptySeq DEF PtyInit, All, Chunks
<1>2. Answering = {} /\ Answered = {} /\ Held = {} /\ Deferred = {} /\ Asking = {}
  BY <1>1, EmptySeq DEF Answering, Answered, Held, Deferred, Asking, Elements
<1>3. Ascending(<<>>) /\ AskedInOrder(<<>>)
  BY EmptySeq DEF Ascending, AskedInOrder
<1> QED BY <1>1, <1>2, <1>3 DEF OrderInv, KeptInv, AnsweredInOrder

\* Queries are answered once and in order, whatever is deferred and however the
\* clients type, and one is given up only for MAX_DEFERRED later ones: for any
\* number of queries and any room in the PTY.
THEOREM AnswersStayInOrder == PtySpec => []AnswersKept
<1>1. PtyInit => TypeInv /\ HolderInv /\ OrderInv /\ KeptInv
  BY Starts, OrderStarts
<1>2. TypeInv /\ HolderInv /\ OrderInv /\ KeptInv /\ [PtyNext]_ptyVars
        => (TypeInv /\ HolderInv /\ OrderInv /\ KeptInv)'
  BY TypeStep, HolderStep, QueriesStep
<1>3. TypeInv /\ HolderInv /\ OrderInv /\ KeptInv => AnswersKept
  BY OrderIsKept
<1> QED BY <1>1, <1>2, <1>3, PTL DEF PtySpec

-----------------------------------------------------------------------------
(* The program reads what ProgramInput promises.                              *)

\* What the program has of what each client typed: all, except what a blocking
\* task still has to write or writes; and whose bytes the holder has.
TypedInv ==
  /\ \A c \in Clients :
       /\ Input!Received(c) = 1 .. (IF typing[c] THEN typed[c] - 1 ELSE typed[c])
       /\ typing[c] => typed[c] > 0
       /\ lock = c => /\ typing[c]
                      /\ left \in {Bytes(Message(c, typed[c])), <<Byte(Message(c, typed[c]), 2)>>}
  /\ lock = Reader => \A i \in 1 .. Len(left) : left[i].of.from = Reader

\* The program has a message with its second byte.
LEMMA ReceivedMore ==
  ASSUME TypeInv, left # <<>>, sent' = Append(sent, Head(left)), NEW f
  PROVE  Input!Received(f)' = Input!Received(f) \cup
           (IF Head(left).part = 2 /\ Head(left).of.from = f THEN {Head(left).of.n} ELSE {})
<1> DEFINE b == Head(left)
           at(s) == {i \in 1 .. Len(s) : s[i].of.from = f /\ s[i].part = 2}
           of(s) == {s[i].of.n : i \in at(s)}
<1>1. sent \in Seq(ByteSet) /\ b \in ByteSet
  BY HeadTailProperties DEF TypeInv
<1> HIDE DEF b
<1>2. /\ Len(sent) \in Nat /\ Len(Append(sent, b)) = Len(sent) + 1
      /\ \A i \in 1 .. Len(sent) : Append(sent, b)[i] = sent[i]
      /\ Append(sent, b)[Len(sent) + 1] = b
  BY <1>1, AppendProperties, LenProperties
<1> DEFINE s2 == Append(sent, b)
<1>3. sent' = s2
  BY DEF b
<1> HIDE DEF s2
<1>4. /\ Len(s2) = Len(sent) + 1 /\ \A i \in 1 .. Len(sent) : s2[i] = sent[i]
      /\ s2[Len(sent) + 1] = b
  BY <1>2 DEF s2
<1>5. at(s2) = at(sent) \cup (IF b.part = 2 /\ b.of.from = f THEN {Len(sent) + 1} ELSE {})
  <2>1. 1 .. Len(s2) = (1 .. Len(sent)) \cup {Len(sent) + 1} /\ Len(sent) + 1 \notin 1 .. Len(sent)
    BY <1>2, <1>4
  <2>2. \A i \in 1 .. Len(sent) : i \in at(s2) <=> i \in at(sent)
    BY <1>4, <2>1
  <2>3. Len(sent) + 1 \in at(s2) <=> b.part = 2 /\ b.of.from = f
    BY <1>4, <2>1
  <2>4. \A i \in at(s2) : i \in 1 .. Len(sent) \/ i = Len(sent) + 1
    BY <2>1
  <2> HIDE DEF at
  <2>5. at(sent) \subseteq 1 .. Len(sent)
    BY DEF at
  <2> QED BY <2>2, <2>3, <2>4, <2>5
<1>6. of(s2) = of(sent) \cup (IF b.part = 2 /\ b.of.from = f THEN {b.of.n} ELSE {})
  <2>1. \A i \in at(sent) : s2[i] = sent[i]
    BY <1>4
  <2> HIDE DEF at
  <2> QED BY <1>4, <1>5, <2>1
<1>7. Input!Received(f) = of(sent) /\ Input!Received(f)' = of(s2)
  BY <1>3 DEF Input!Received, Input!Ended
<1> QED BY <1>6, <1>7 DEF b

LEMMA ReceivedSame ==
  ASSUME UNCHANGED sent, NEW f
  PROVE  Input!Received(f)' = Input!Received(f)
BY DEF Input!Received, Input!Ended

\* The responses are the reader thread's.
LEMMA HeldBytesFrom ==
  ASSUME held \in Seq(Nat)
  PROVE  \A i \in 1 .. Len(HeldBytes) : HeldBytes[i].of.from = Reader
<1>1. Len(held) \in Nat
  BY LenProperties
<1> SUFFICES ASSUME NEW i \in 1 .. 2 * Len(held)
             PROVE  HeldBytes[i].of.from = Reader
  BY HeldBytesOf
<1>2. PICK k \in 1 .. Len(held) : i = 2 * k - 1 \/ i = 2 * k
  BY <1>1, Halves
<1>3. \E p \in {1, 2} : HeldBytes[i] = Byte(Message(Reader, held[k]), p)
  BY <1>2, HeldBytesOf
<1> QED BY <1>3 DEF Byte, Message

\* What is left of a message when its first byte was written.
LEMMA TailOfBytes ==
  ASSUME NEW m
  PROVE  /\ Bytes(m) # <<>> /\ Head(Bytes(m)) = Byte(m, 1) /\ Tail(Bytes(m)) = <<Byte(m, 2)>>
         /\ <<Byte(m, 2)>> # <<>> /\ Head(<<Byte(m, 2)>>) = Byte(m, 2) /\ Tail(<<Byte(m, 2)>>) = <<>>
BY DEF Bytes

LEMMA TypedStarts ==
  ASSUME PtyInit
  PROVE  TypedInv
<1>1. \A f : Input!Received(f) = {}
  <2>1. sent = <<>> /\ Len(sent) = 0
    BY EmptySeq DEF PtyInit
  <2> QED BY <2>1 DEF Input!Received
<1>2. \A c \in Clients : typing[c] = FALSE /\ typed[c] = 0 /\ lock # c
  BY PtyAssumption DEF PtyInit
<1>3. lock # Reader
  BY PtyAssumption DEF PtyInit
<1>4. 1 .. 0 = {}
  OBVIOUS
<1>5. \A c \in Clients :
        /\ Input!Received(c) = 1 .. (IF typing[c] THEN typed[c] - 1 ELSE typed[c])
        /\ ~typing[c] /\ lock # c
  BY <1>1, <1>2, <1>4
<1> QED BY <1>3, <1>5 DEF TypedInv

LEMMA TypedStep ==
  ASSUME TypeInv, HolderInv, TypedInv, [PtyNext]_ptyVars
  PROVE  TypedInv'
<1>1. ASSUME UNCHANGED <<sent, lock, left, typing, typed>>
      PROVE  TypedInv'
  BY <1>1, ReceivedSame DEF TypedInv
<1>2. CASE Emit \/ Resume \/ ReadInput
  BY <1>1, <1>2 DEF Emit, Resume, ReadInput, UnchangedByProgram
<1>3. CASE ReadOutput \/ Defer \/ Replace \/ UNCHANGED ptyVars
  BY <1>1, <1>3 DEF ReadOutput, Defer, Replace, ptyVars
<1>4. CASE Reply
  <2>1. \A i \in 1 .. Len(left') : left'[i].of.from = Reader
    BY <1>4, HeldBytesFrom DEF Reply, TypeInv
  <2>2. lock' = Reader /\ lock' \notin Clients
    BY <1>4, PtyAssumption DEF Reply
  <2>3. UNCHANGED <<sent, typing, typed>>
    BY <1>4 DEF Reply
  <2> QED BY <2>1, <2>2, <2>3, ReceivedSame DEF TypedInv
<1>5. CASE Type
  <2>1. /\ client \in Clients /\ ~typing[client] /\ typed[client] \in Nat
        /\ typing' = [typing EXCEPT ![client] = TRUE]
        /\ typed' = [typed EXCEPT ![client] = @ + 1]
        /\ UNCHANGED <<sent, lock, left>>
    BY <1>5 DEF Type, TypeInv
  <2>2. typing'[client] /\ typed'[client] = typed[client] + 1
        /\ \A c \in Clients \ {client} : typing'[c] = typing[c] /\ typed'[c] = typed[c]
    BY <2>1 DEF TypeInv
  <2>3. lock # client
    BY <2>1 DEF TypedInv
  <2>4. ASSUME NEW c \in Clients
        PROVE  /\ Input!Received(c)' = 1 .. (IF typing'[c] THEN typed'[c] - 1 ELSE typed'[c])
               /\ typing'[c] => typed'[c] > 0
               /\ lock' = c =>
                    /\ typing'[c]
                    /\ left' \in {Bytes(Message(c, typed'[c])), <<Byte(Message(c, typed'[c]), 2)>>}
    <3>1. Input!Received(c)' = Input!Received(c)
      BY <2>1, ReceivedSame
    <3>2. CASE c = client
      <4>1. typed'[c] - 1 = typed[c] /\ typed'[c] > 0
        BY <2>1, <2>2, <3>2
      <4>2. Input!Received(c) = 1 .. typed[c]
        BY <2>1, <3>2 DEF TypedInv
      <4> QED BY <2>1, <2>2, <2>3, <3>1, <3>2, <4>1, <4>2
    <3>3. CASE c # client
      BY <2>1, <2>2, <3>1, <3>3 DEF TypedInv
    <3> QED BY <3>2, <3>3
  <2> QED BY <2>1, <2>4 DEF TypedInv
<1>6. ASSUME NEW c \in Clients, TakeWriter(c)
      PROVE  TypedInv'
  <2>1. /\ typing[c] /\ lock' = c /\ left' = Bytes(Message(c, typed[c])) /\ c # Reader
        /\ UNCHANGED <<sent, typing, typed>>
    BY <1>6, PtyAssumption DEF TakeWriter
  <2> QED BY <2>1, ReceivedSame DEF TypedInv
<1>7. CASE WriteByte
  <2>1. /\ lock # NoOne /\ left # <<>> /\ sent' = Append(sent, Head(left)) /\ left' = Tail(left)
        /\ UNCHANGED typed
        /\ IF left' # <<>> THEN UNCHANGED <<lock, typing>>
           ELSE lock' = NoOne /\ typing' = [c \in Clients |-> typing[c] /\ c # lock]
    BY <1>7 DEF WriteByte, HolderInv
  <2> DEFINE b == Head(left)
             news(f) == IF b.part = 2 /\ b.of.from = f THEN {b.of.n} ELSE {}
  <2>2. \A f : Input!Received(f)' = Input!Received(f) \cup news(f)
    BY <2>1, ReceivedMore
  <2>3. lock \in Clients \cup {Reader}
    BY <2>1 DEF TypeInv, Sender
  <2>4. CASE lock = Reader
    <3>1. /\ left \in Seq(ByteSet) /\ Len(left) \in Nat /\ Len(left) > 0 /\ b = left[1]
          /\ Len(left') = Len(left) - 1 /\ \A i \in 1 .. Len(left) - 1 : left'[i] = left[i + 1]
      BY <2>1, HeadTailProperties, LenProperties, EmptySeq DEF TypeInv
    <3> HIDE DEF b
    <3>2. b.of.from = Reader /\ \A i \in 1 .. Len(left') : left'[i].of.from = Reader
      <4>1. \A i \in 1 .. Len(left) : left[i].of.from = Reader
        BY <2>4 DEF TypedInv
      <4>2. 1 \in 1 .. Len(left) /\ \A i \in 1 .. Len(left') : i \in 1 .. Len(left) - 1 /\ i + 1 \in 1 .. Len(left)
        BY <3>1
      <4> QED BY <3>1, <4>1, <4>2
    <3>3. ASSUME NEW c \in Clients
          PROVE  /\ Input!Received(c)' = Input!Received(c) /\ lock' # c
                 /\ typing'[c] = typing[c] /\ typed'[c] = typed[c]
      <4>1. c # Reader /\ c # NoOne
        BY PtyAssumption
      <4>2. news(c) = {}
        BY <3>2, <4>1
      <4>3. Input!Received(c)' = Input!Received(c)
        BY <2>2, <4>2
      <4>4. lock' # c /\ typing'[c] = typing[c] /\ typed'[c] = typed[c]
        BY <2>1, <2>4, <4>1 DEF TypeInv
      <4> QED BY <4>3, <4>4
    <3> QED BY <3>2, <3>3 DEF TypedInv
  <2>5. ASSUME NEW d \in Clients, lock = d
        PROVE  TypedInv'
    <3> DEFINE m == Message(d, typed[d])
    <3>1. /\ typing[d] /\ left \in {Bytes(m), <<Byte(m, 2)>>} /\ typed[d] \in Nat /\ typed[d] > 0
          /\ Input!Received(d) = 1 .. typed[d] - 1
      BY <2>5 DEF TypedInv, TypeInv
    <3>2. m.from = d /\ m.n = typed[d] /\ \A p : Byte(m, p).of = m /\ Byte(m, p).part = p
      BY DEF Message, Byte
    <3>3. lock' # Reader /\ d # NoOne
      BY <2>1, <2>5, PtyAssumption
    <3> HIDE DEF m
    <3>4. ASSUME NEW c \in Clients \ {d}
          PROVE  /\ Input!Received(c)' = Input!Received(c) /\ lock' # c
                 /\ typing'[c] = typing[c] /\ typed'[c] = typed[c]
      <4>1. b.of = m
        BY <3>1, <3>2, TailOfBytes
      <4>2. news(c) = {}
        BY <3>2, <3>4, <4>1
      <4>3. c # NoOne
        BY PtyAssumption
      <4>4. lock' # c /\ typing'[c] = typing[c] /\ typed'[c] = typed[c]
        BY <2>1, <2>5, <3>4, <4>3 DEF TypeInv
      <4> QED BY <2>2, <4>2, <4>4
    <3>5. /\ Input!Received(d)' = 1 .. (IF typing'[d] THEN typed'[d] - 1 ELSE typed'[d])
          /\ lock' = d => typing'[d] /\ left' = <<Byte(m, 2)>>
      <4>1. CASE left = Bytes(m)
        <5>1. b = Byte(m, 1) /\ left' = <<Byte(m, 2)>> /\ left' # <<>>
          BY <2>1, <4>1, TailOfBytes
        <5>2. news(d) = {}
          BY <3>2, <5>1
        <5> QED BY <2>1, <2>2, <3>1, <5>1, <5>2
      <4>2. CASE left = <<Byte(m, 2)>>
        <5>1. b = Byte(m, 2) /\ left' = <<>>
          BY <2>1, <4>2, TailOfBytes
        <5>2. news(d) = {typed[d]}
          BY <3>2, <5>1
        <5>3. (1 .. typed[d] - 1) \cup {typed[d]} = 1 .. typed[d]
          BY <3>1
        <5>4. lock' # d /\ ~typing'[d] /\ typed'[d] = typed[d]
          BY <2>1, <2>5, <3>3, <5>1
        <5> QED BY <2>2, <3>1, <5>2, <5>3, <5>4
      <4> QED BY <3>1, <4>1, <4>2
    <3>6. typed'[d] = typed[d] /\ typed'[d] > 0
      BY <2>1, <3>1
    <3>7. lock' = d => left' = <<Byte(Message(d, typed'[d]), 2)>>
      BY <3>5, <3>6 DEF m
    <3> QED BY <3>3, <3>4, <3>5, <3>6, <3>7 DEF TypedInv
  <2> QED BY <2>3, <2>4, <2>5
<1> QED BY <1>2, <1>3, <1>4, <1>5, <1>6, <1>7 DEF PtyNext

\* A second byte ends what the last one written began.
LEMMA WriteEnds ==
  ASSUME TypeInv, HolderInv, WholeInv, WriteByte, Head(left).part = 2
  PROVE  Input!End
<1> DEFINE b == Head(left)
           n == Len(sent)
<1>1. /\ n \in Nat /\ left # <<>> /\ b = left[1] /\ b \in ByteSet /\ Len(left) > 0
      /\ Len(All) = n + Len(left) /\ n + 1 \in 1 .. Len(All)
      /\ \A i \in 1 .. Len(All) : All[i] = IF i <= n THEN sent[i] ELSE left[i - n]
  <2>1. left # <<>>
    BY DEF WriteByte, HolderInv
  <2>2. /\ n \in Nat /\ Len(left) \in Nat /\ Len(left) > 0 /\ Head(left) = left[1] /\ Head(left) \in ByteSet
    BY <2>1, HeadTailProperties, LenProperties, EmptySeq DEF TypeInv
  <2>3. /\ Len(All) = n + Len(left)
        /\ \A i \in 1 .. Len(All) : All[i] = IF i <= n THEN sent[i] ELSE left[i - n]
    BY ConcatProperties DEF TypeInv, All
  <2> QED BY <2>1, <2>2, <2>3
<1> HIDE DEF b
<1>2. All[n + 1] = b
  BY <1>1
<1>3. n > 0 /\ All[n] = Byte(b.of, 1)
  <2>1. n + 1 > 1 /\ All[n + 1 - 1] = Byte(b.of, 1)
    BY <1>1, <1>2 DEF WholeInv, Whole, b
  <2>2. n + 1 - 1 = n
    BY <1>1
  <2> QED BY <1>1, <2>1, <2>2
<1>4. sent[n] = Byte(b.of, 1) /\ sent # <<>>
  BY <1>1, <1>3, EmptySeq
<1>5. b = [of |-> sent[n].of, part |-> 2]
  <2>1. b.part = 2
    BY DEF b
  <2>2. sent[n].of = b.of
    BY <1>4 DEF Byte
  <2> QED BY <1>1, <2>1, <2>2 DEF ByteSet
<1>6. ~Input!Ended(n)
  BY <1>4 DEF Input!Ended, Byte
<1>7. sent' = Append(sent, b) /\ UNCHANGED <<asked, typed>>
  BY DEF WriteByte, b
<1> QED BY <1>4, <1>5, <1>6, <1>7 DEF Input!End

\* A first byte comes when no message is incomplete.
LEMMA WriteBegins ==
  ASSUME TypeInv, HolderInv, WholeInv, WriteByte, Head(left).part # 2
  PROVE  /\ Head(left) = Byte(Head(left).of, 1) /\ Len(left) > 1
         /\ left[2] = Byte(Head(left).of, 2)
         /\ Input!Begin(Head(left).of)
<1> DEFINE b == Head(left)
           n == Len(sent)
<1>1. /\ n \in Nat /\ left # <<>> /\ b = left[1] /\ b \in ByteSet /\ Len(left) \in Nat /\ Len(left) > 0
      /\ Len(All) = n + Len(left) /\ n + 1 \in 1 .. Len(All)
      /\ \A i \in 1 .. Len(All) : All[i] = IF i <= n THEN sent[i] ELSE left[i - n]
  <2>1. left # <<>>
    BY DEF WriteByte, HolderInv
  <2>2. /\ n \in Nat /\ Len(left) \in Nat /\ Len(left) > 0 /\ Head(left) = left[1] /\ Head(left) \in ByteSet
    BY <2>1, HeadTailProperties, LenProperties, EmptySeq DEF TypeInv
  <2>3. /\ Len(All) = n + Len(left)
        /\ \A i \in 1 .. Len(All) : All[i] = IF i <= n THEN sent[i] ELSE left[i - n]
    BY ConcatProperties DEF TypeInv, All
  <2> QED BY <2>1, <2>2, <2>3
<1>2. b.part = 1 /\ b = [of |-> b.of, part |-> 1]
  BY <1>1 DEF ByteSet
<1> HIDE DEF b
<1>3. All[n + 1] = b
  BY <1>1
<1>4. n + 1 < Len(All) /\ All[n + 1 + 1] = Byte(b.of, 2)
  BY <1>1, <1>2, <1>3 DEF WholeInv, Whole
<1>5. Len(left) > 1 /\ left[2] = Byte(b.of, 2)
  <2>1. n + 1 + 1 \in 1 .. Len(All) /\ ~ (n + 1 + 1 <= n) /\ n + 1 + 1 - n = 2
    BY <1>1, <1>4
  <2> QED BY <1>1, <1>4, <2>1
<1>6. sent # <<>> => Input!Ended(n)
  <2> SUFFICES ASSUME n > 0, sent[n].part # 2
               PROVE  FALSE
    BY <1>1, EmptySeq DEF Input!Ended, TypeInv
  <2>1. n \in 1 .. Len(All) /\ All[n] = sent[n]
    BY <1>1
  <2>2. All[n + 1] = Byte(All[n].of, 2)
    BY <2>1 DEF WholeInv, Whole
  <2> QED BY <1>2, <1>3, <2>2 DEF Byte
<1>7. sent' = Append(sent, b) /\ UNCHANGED <<asked, typed>>
  BY DEF WriteByte, b
<1>8. Input!Begin(b.of)
  BY <1>2, <1>6, <1>7 DEF Input!Begin
<1> QED BY <1>2, <1>5, <1>8 DEF b, Byte

\* Answers begin in the order of the queries; those passed over were dropped.
LEMMA AnswerBegins ==
  ASSUME TypeInv, HolderInv, WholeInv, OrderInv, KeptInv, TypedInv,
         WriteByte, Head(left).part # 2, lock = Reader
  PROVE  Input!BeginAnswer
<1> DEFINE m == Head(left).of
           k == Len(sent) + 2
<1>1. /\ Len(left) > 1 /\ left[2] = Byte(m, 2) /\ Input!Begin(m)
      /\ Head(left) = Byte(m, 1)
  BY WriteBegins
<1>2. /\ Len(sent) \in Nat /\ Len(left) \in Nat /\ Len(All) = Len(sent) + Len(left)
      /\ Head(left) = left[1] /\ Head(left) \in ByteSet
      /\ \A i \in 1 .. Len(All) : All[i] = IF i <= Len(sent) THEN sent[i] ELSE left[i - Len(sent)]
  <2>1. left # <<>>
    BY DEF WriteByte, HolderInv
  <2> QED BY <2>1, HeadTailProperties, ConcatProperties, LenProperties DEF TypeInv, All
<1> HIDE DEF m
<1>3. m = [from |-> Reader, n |-> m.n] /\ m.n \in Nat
  <2>1. left[1].of.from = Reader
    BY <1>1, <1>2 DEF TypedInv
  <2>2. m \in [from : Sender, n : Nat] /\ m.from = Reader
    BY <1>2, <2>1 DEF m, ByteSet
  <2> QED BY <2>2
<1>4. k \in Answering /\ All[k].of.n = m.n /\ All[k - 1].part = 1
  <2>1. /\ k \in 1 .. Len(All) /\ ~ (k <= Len(sent)) /\ k - Len(sent) = 2
        /\ k - 1 \in 1 .. Len(All) /\ ~ (k - 1 <= Len(sent)) /\ k - 1 - Len(sent) = 1
    BY <1>1, <1>2
  <2>2. All[k] = left[2] /\ All[k - 1] = left[1]
    BY <1>2, <2>1
  <2>3. All[k] = Byte(m, 2) /\ All[k - 1] = Byte(m, 1)
    BY <1>1, <1>2, <2>2
  <2>4. All[k].of = m /\ All[k].part = 2 /\ All[k - 1].part = 1
    BY <2>3 DEF Byte
  <2>5. m.from = Reader
    BY <1>3
  <2> QED BY <2>1, <2>4, <2>5 DEF Answering, IsAnswer
<1>5. m.n \in 1 .. asked /\ m.n \in Answered
  BY <1>4 DEF Answered, OrderInv
<1>6. Input!Received(Reader) = {All[i].of.n : i \in {i \in Answering : i <= Len(sent)}}
  <2>1. \A i \in 1 .. Len(sent) : i \in 1 .. Len(All) /\ All[i] = sent[i]
    BY <1>2
  <2>2. {i \in 1 .. Len(sent) : sent[i].of.from = Reader /\ Input!Ended(i)} = {i \in Answering : i <= Len(sent)}
    BY <1>2, <2>1 DEF Answering, IsAnswer, Input!Ended
  <2> QED BY <2>1, <2>2 DEF Input!Received
<1>7. \A q \in Input!Received(Reader) : q < m.n
  BY <1>2, <1>4, <1>6 DEF OrderInv, AnsweredInOrder, Answering
<1>8. ASSUME NEW q \in 1 .. m.n - 1
      PROVE  q \in Input!Received(Reader) \/ q + MAX_DEFERRED <= asked
  <2>1. q \in 1 .. asked /\ q < m.n
    BY <1>3, <1>5 DEF TypeInv
  <2>2. q \notin Held \cup Deferred \cup Asking
    <3>1. \A r \in Held \cup Deferred \cup Asking : m.n < r /\ r \in 1 .. asked
      BY <1>5 DEF OrderInv
    <3> QED BY <1>3, <2>1, <3>1
  <2>3. ASSUME q \in Answered
        PROVE  q \in Input!Received(Reader)
    <3>1. PICK i \in Answering : All[i].of.n = q
      BY <2>3 DEF Answered
    <3>2. i \in Nat /\ i # k /\ ~ (k < i) /\ All[i].part = 2
      <4>1. k < i => m.n < q
        BY <1>4, <3>1 DEF OrderInv, AnsweredInOrder
      <4> QED BY <1>3, <1>4, <2>1, <3>1, <4>1 DEF Answering, IsAnswer
    <3>3. i # k - 1
      BY <1>4, <3>2
    <3>4. i <= Len(sent)
      BY <1>2, <3>2, <3>3
    <3> QED BY <1>6, <3>1, <3>4
  <2> QED BY <2>1, <2>2, <2>3 DEF KeptInv
<1>9. Input!Begin([from |-> Reader, n |-> m.n])
  BY <1>1, <1>3
<1> QED BY <1>5, <1>7, <1>8, <1>9 DEF Input!BeginAnswer

LEMMA InputInit ==
  ASSUME PtyInit
  PROVE  Input!Init
BY DEF PtyInit, Input!Init

\* Each step of the PTY is a step of what it promises the program, or unseen.
LEMMA InputStep ==
  ASSUME TypeInv, HolderInv, WholeInv, OrderInv, KeptInv, TypedInv, [PtyNext]_ptyVars
  PROVE  [Input!Next]_(Input!vars)
<1>1. ASSUME UNCHANGED <<asked, typed, sent>>
      PROVE  [Input!Next]_(Input!vars)
  BY <1>1 DEF Input!vars
<1>2. CASE Emit
  <2>1. asked' = asked + 1 \/ asked' = asked
    BY <1>2 DEF Emit, TypeInv
  <2>2. UNCHANGED <<typed, sent>>
    BY <1>2 DEF Emit, UnchangedByProgram
  <2> QED BY <1>1, <2>1, <2>2 DEF Input!Next, Input!Ask
<1>3. CASE Resume \/ ReadInput \/ ReadOutput \/ Defer \/ Reply \/ Replace \/ UNCHANGED ptyVars
  BY <1>1, <1>3 DEF Resume, ReadInput, ReadOutput, Defer, Reply, Replace, ptyVars,
     UnchangedByProgram, UnchangedByClient
<1>4. ASSUME NEW c \in Clients, TakeWriter(c)
      PROVE  [Input!Next]_(Input!vars)
  BY <1>1, <1>4 DEF TakeWriter, UnchangedByClient
<1>5. CASE Type
  <2>1. client \in Clients /\ ~typing[client]
    BY <1>5 DEF Type, TypeInv
  <2>2. Input!Received(client) = 1 .. typed[client]
    BY <2>1 DEF TypedInv
  <2>3. Input!Type(client)
    BY <1>5, <2>2 DEF Type, UnchangedByClient, Input!Type
  <2> QED BY <2>1, <2>3 DEF Input!Next
<1>6. CASE WriteByte /\ Head(left).part = 2
  BY <1>6, WriteEnds DEF Input!Next
<1>7. CASE WriteByte /\ Head(left).part # 2 /\ lock = Reader
  BY <1>7, AnswerBegins DEF Input!Next
<1>8. ASSUME WriteByte, Head(left).part # 2, NEW c \in Clients, lock = c
      PROVE  [Input!Next]_(Input!vars)
  <2> DEFINE m == Message(c, typed[c])
  <2>1. left \in {Bytes(m), <<Byte(m, 2)>>} /\ typing[c] /\ typed[c] > 0 /\ typed[c] \in Nat
        /\ Input!Received(c) = 1 .. typed[c] - 1
    BY <1>8 DEF TypedInv, TypeInv
  <2>2. Head(left).of = m
    BY <2>1, TailOfBytes DEF Byte
  <2>3. Input!Begin([from |-> c, n |-> typed[c]])
    BY <1>8, <2>2, WriteBegins DEF Message
  <2>4. Input!BeginTyped(c)
    BY <2>1, <2>3 DEF Input!BeginTyped
  <2> QED BY <2>4 DEF Input!Next
<1>9. WriteByte => lock \in Clients \cup {Reader}
  BY DEF WriteByte, TypeInv, Sender
<1> QED BY <1>2, <1>3, <1>4, <1>5, <1>6, <1>7, <1>8, <1>9 DEF PtyNext

\* The PTY implements ProgramInput: the program reads whole messages, those of a
\* client in the order in which they were typed and none twice, and answers in
\* the order of its queries, for any number of clients, queries and messages.
THEOREM ImplementsInput == PtySpec => InputSpec
<1>1. PtyInit => TypeInv /\ HolderInv /\ WholeInv /\ OrderInv /\ KeptInv /\ TypedInv
  BY Starts, BytesStart, OrderStarts, TypedStarts
<1>2. TypeInv /\ HolderInv /\ WholeInv /\ OrderInv /\ KeptInv /\ TypedInv /\ [PtyNext]_ptyVars
        => (TypeInv /\ HolderInv /\ WholeInv /\ OrderInv /\ KeptInv /\ TypedInv)'
  BY TypeStep, HolderStep, WholeStep, QueriesStep, TypedStep
<1>3. TypeInv /\ HolderInv /\ WholeInv /\ OrderInv /\ KeptInv /\ TypedInv /\ [PtyNext]_ptyVars
        => [Input!Next]_(Input!vars)
  BY InputStep
<1>4. PtyInit => Input!Init
  BY InputInit
<1> QED BY <1>1, <1>2, <1>3, <1>4, PTL DEF PtySpec, InputSpec, Input!Spec

--------------------------------------------------------------------------------
(* The screen                                                                 *)

USE ScreenAssumption

\* The part of GridInv that speaks of a grid g of h rows.
Good(g, h) ==
  /\ g \in [cells : Seq(Line), back : Nat, pending : Nat, limit : Nat]
  /\ Len(g.cells) = g.back + h
  /\ g.pending <= g.back
  /\ g.back <= Limit

\* Scrollback and pending lines of g against the history o, of which s lines
\* were given to the client.
Ledger(g, o, s) ==
  /\ g.back <= Len(o) /\ s <= Len(o)
  /\ g.pending = Greater(g.back - (Len(o) - s), 0)
  /\ \A i \in 1 .. g.back : g.cells[i] = o[Len(o) - g.back + i]

\* The inductive invariant.
Inv == GridInv /\ Ledger(grid, off, seen)

\* What GridInv says of the grid, the cursor and the region, in one place.
LEMMA GoodGrid ==
  ASSUME GridInv
  PROVE  /\ Good(grid, rows)
         /\ grid.cells \in [1 .. grid.back + rows -> Line]
         /\ Len(grid.cells) = grid.back + rows
         /\ rows \in Nat /\ rows >= 1
         /\ y \in Nat /\ y < rows
         /\ top \in Nat /\ bottom \in Nat /\ top <= bottom /\ bottom < rows
         /\ grid.back \in Nat /\ grid.pending \in Nat /\ grid.limit \in Nat
         /\ Blank \in Line
<1>1. Len(grid.cells) = grid.back + rows /\ grid.cells \in Seq(Line)
  BY DEF GridInv
<1>2. grid.cells \in [1 .. grid.back + rows -> Line]
  BY <1>1, LenProperties
<1>3. Good(grid, rows)
  BY DEF GridInv, Good
<1>4. grid.back \in Nat /\ grid.pending \in Nat /\ grid.limit \in Nat
  BY DEF GridInv
<1>5. rows \in Nat /\ rows >= 1
  BY DEF GridInv
<1>6. y \in Nat /\ y < rows
  BY <1>5 DEF GridInv
<1>7. top \in Nat /\ bottom \in Nat /\ top <= bottom /\ bottom < rows
  BY <1>5 DEF GridInv
<1>8. Blank \in Line
  BY DEF Blank, Line
<1> QED BY <1>1, <1>2, <1>3, <1>4, <1>5, <1>6, <1>7, <1>8

\* A function over 1..n is a sequence of length n.
LEMMA Rebuilt ==
  ASSUME NEW n \in Nat, NEW f \in [1 .. n -> Line]
  PROVE  f \in Seq(Line) /\ Len(f) = n
  OBVIOUS


\* Grid::scroll_up keeps the shape of the grid, also when it drops the oldest
\* lines of a full scrollback.
LEMMA ScrolledUpGood ==
  ASSUME GridInv, NEW n \in Nat
  PROVE  /\ Good(ScrolledUp(n), rows)
         /\ ScrolledUp(n).limit = grid.limit
<1>0. /\ grid.cells \in [1 .. grid.back + rows -> Line]
      /\ Len(grid.cells) = grid.back + rows
      /\ grid.pending <= grid.back /\ grid.back <= Limit
      /\ rows \in Nat /\ bottom \in Nat /\ top \in Nat /\ bottom < rows
      /\ grid.back \in Nat /\ grid.pending \in Nat /\ grid.limit \in Nat
      /\ Blank \in Line
  BY GoodGrid DEF Good
<1>g. grid \in [cells : Seq(Line), back : Nat, pending : Nat, limit : Nat]
  BY GoodGrid DEF Good
<1>1. CASE Captures
  <2> DEFINE d == Greater(grid.back + n - grid.limit, 0)
             size == grid.back + rows + n - d
  <2>1. grid.limit = Limit
    BY <1>1 DEF Captures, GridInv
  <2>2. d \in Nat /\ grid.back + n - d \in Nat /\ grid.back + n - d <= Limit
    BY <1>0, <2>1 DEF Greater
  <2> HIDE DEF d
  <2>3. size \in Nat
    BY <1>0, <2>2
  <2>4. Captured(n, d) \in [1 .. size -> Line]
    <3>1. ASSUME NEW i \in 1 .. size, i + d <= grid.back + bottom + 1
          PROVE  i + d \in 1 .. grid.back + rows
      BY <1>0, <2>2, <3>1
    <3>2. ASSUME NEW i \in 1 .. size, ~(i + d <= grid.back + bottom + 1 + n)
          PROVE  i + d - n \in 1 .. grid.back + rows
      BY <1>0, <2>2, <3>2
    <3>3. Captured(n, d) = [i \in 1 .. size |->
                             IF i + d <= grid.back + bottom + 1 THEN grid.cells[i + d]
                             ELSE IF i + d <= grid.back + bottom + 1 + n THEN Blank
                             ELSE grid.cells[i + d - n]]
      BY <1>0 DEF Captured
    <3> HIDE DEF size
    <3> QED BY <1>0, <3>1, <3>2, <3>3
  <2>5. Captured(n, d) \in Seq(Line) /\ Len(Captured(n, d)) = size
    <3> HIDE DEF size
    <3> QED BY <2>3, <2>4, Rebuilt
  <2>6. ScrolledUp(n) = [grid EXCEPT !.cells = Captured(n, d), !.back = grid.back + n - d,
                                     !.pending = Greater(grid.pending - d, 0)]
    BY <1>1 DEF ScrolledUp, d
  <2>7. Greater(grid.pending - d, 0) \in Nat /\ Greater(grid.pending - d, 0) <= grid.back + n - d
    BY <1>0, <2>2 DEF Greater
  <2>8. size = grid.back + n - d + rows
    BY <1>0, <2>2
  <2> HIDE DEF size
  <2> QED BY <1>0, <1>g, <2>2, <2>5, <2>6, <2>7, <2>8 DEF Good
<1>2. CASE ~Captures
  <2> DEFINE moved == MovedUp(grid.cells, grid.back + top + 1, grid.back + bottom + 1, n)
             size == grid.back + rows
  <2>1. moved \in [1 .. size -> Line]
    <3>1. ASSUME NEW i \in 1 .. size, i + n <= grid.back + bottom + 1
          PROVE  i + n \in 1 .. size
      BY <1>0, <3>1
    <3> QED BY <1>0, <3>1 DEF MovedUp
  <2>2. size \in Nat
    BY <1>0
  <2>3. moved \in Seq(Line) /\ Len(moved) = size
    <3> HIDE DEF moved, size
    <3> QED BY <2>1, <2>2, Rebuilt
  <2>4. ScrolledUp(n) = [grid EXCEPT !.cells = moved]
    BY <1>2 DEF ScrolledUp
  <2> HIDE DEF moved
  <2> QED BY <1>0, <1>g, <2>3, <2>4 DEF Good
<1> QED BY <1>1, <1>2

\* The fields of a grid that is in shape.
LEMMA GoodFields ==
  ASSUME NEW g, NEW h \in Nat, Good(g, h)
  PROVE  /\ g.back \in Nat /\ g.pending \in Nat /\ g.limit \in Nat
         /\ g.cells \in [1 .. g.back + h -> Line]
         /\ Len(g.cells) = g.back + h
         /\ g.pending <= g.back /\ g.back <= Limit
         /\ Blank \in Line
<1>1. g.cells \in Seq(Line) /\ Len(g.cells) = g.back + h
  BY DEF Good
<1>2. g.cells \in [1 .. g.back + h -> Line]
  BY <1>1, LenProperties
<1> QED BY <1>1, <1>2 DEF Good, Blank, Line

\* New visible rows leave the shape and the ledger of a grid.
LEMMA Redrawn ==
  ASSUME NEW g, NEW h \in Nat, Good(g, h),
         NEW o, NEW s, Ledger(g, o, s),
         NEW f \in [1 .. g.back + h -> Line],
         \A i \in 1 .. g.back : f[i] = g.cells[i]
  PROVE  LET new == [g EXCEPT !.cells = f]
         IN  Good(new, h) /\ Ledger(new, o, s) /\ new.limit = g.limit
<1> DEFINE new == [g EXCEPT !.cells = f]
           size == g.back + h
<1>1. /\ g.back \in Nat /\ size \in Nat
      /\ g \in [cells : Seq(Line), back : Nat, pending : Nat, limit : Nat]
      /\ g.pending <= g.back /\ g.back <= Limit
  BY GoodFields DEF Good
<1>2. f \in Seq(Line) /\ Len(f) = size
  <2>1. f \in [1 .. size -> Line]
    OBVIOUS
  <2> HIDE DEF size
  <2> QED BY <1>1, <2>1, Rebuilt
<1>3. Good(new, h)
  BY <1>1, <1>2 DEF Good
<1>4. /\ new.cells = f /\ new.back = g.back /\ new.pending = g.pending
      /\ new.limit = g.limit
  BY <1>1
<1>5. Ledger(new, o, s)
  BY <1>4 DEF Ledger
<1> QED BY <1>3, <1>4, <1>5

\* Grid::clear_scrollback leaves no lines and no history.
LEMMA Emptied ==
  ASSUME NEW g, NEW h \in Nat, Good(g, h)
  PROVE  /\ Good(NoScrollback(g), h)
         /\ Ledger(NoScrollback(g), <<>>, 0)
         /\ NoScrollback(g).limit = g.limit
<1> DEFINE kept == SubSeq(g.cells, g.back + 1, Len(g.cells))
<1>1. /\ g.back \in Nat /\ g.cells \in [1 .. g.back + h -> Line]
      /\ Len(g.cells) = g.back + h
      /\ g \in [cells : Seq(Line), back : Nat, pending : Nat, limit : Nat]
  BY GoodFields DEF Good
<1>2. kept \in Seq(Line) /\ Len(kept) = h
  <2>1. \A i \in g.back + 1 .. Len(g.cells) : g.cells[i] \in Line
    BY <1>1
  <2>2. g.back + 1 \in Int /\ Len(g.cells) \in Int
    BY <1>1
  <2>3. kept \in Seq(Line)
        /\ Len(kept) = IF g.back + 1 <= Len(g.cells) THEN Len(g.cells) - (g.back + 1) + 1 ELSE 0
    BY <2>1, <2>2, SubSeqProperties
  <2> HIDE DEF kept
  <2> QED BY <1>1, <2>3
<1>3. NoScrollback(g) = [g EXCEPT !.cells = kept, !.back = 0, !.pending = 0]
  BY DEF NoScrollback
<1> HIDE DEF kept
<1>4. NoScrollback(g) = [cells |-> kept, back |-> 0, pending |-> 0, limit |-> g.limit]
  BY <1>1, <1>3
<1>5. Good(NoScrollback(g), h) /\ NoScrollback(g).limit = g.limit
  BY <1>1, <1>2, <1>4 DEF Good
<1>6. Ledger(NoScrollback(g), <<>>, 0)
  <2>1. NoScrollback(g).back = 0 /\ NoScrollback(g).pending = 0
    BY <1>4
  <2>2. Len(<<>>) = 0 /\ 1 .. 0 = {}
    OBVIOUS
  <2>3. Greater(0 - (0 - 0), 0) = 0
    BY DEF Greater
  <2> QED BY <2>1, <2>2, <2>3 DEF Ledger
<1> QED BY <1>5, <1>6

\* Other visible rows behind the scrollback (drain_visible, exit_alt_screen).
LEMMA Switched ==
  ASSUME Inv, NEW s \in Seq(Line), NEW l \in Nat, Len(s) \in Nat
  PROVE  LET new == [grid EXCEPT !.cells = Scrollback \o s, !.limit = l]
         IN  Good(new, Len(s)) /\ Ledger(new, off, seen) /\ new.limit = l
<1> DEFINE new == [grid EXCEPT !.cells = Scrollback \o s, !.limit = l]
<1>1. /\ grid.back \in Nat /\ rows \in Nat /\ grid.pending <= grid.back /\ grid.back <= Limit
      /\ grid.cells \in [1 .. grid.back + rows -> Line]
      /\ grid \in [cells : Seq(Line), back : Nat, pending : Nat, limit : Nat]
  BY GoodGrid DEF Inv, Good
<1>2. /\ Scrollback \in Seq(Line) /\ Len(Scrollback) = grid.back
      /\ \A i \in 1 .. grid.back : Scrollback[i] = grid.cells[i]
  <2>1. \A i \in 1 .. grid.back : grid.cells[i] \in Line
    BY <1>1
  <2>2. /\ Scrollback \in Seq(Line)
        /\ Len(Scrollback) = IF 1 <= grid.back THEN grid.back - 1 + 1 ELSE 0
        /\ \A i \in 1 .. grid.back - 1 + 1 : Scrollback[i] = grid.cells[1 + i - 1]
    BY <1>1, <2>1, SubSeqProperties DEF Scrollback
  <2> QED BY <1>1, <2>2
<1> HIDE DEF Scrollback
<1>3. /\ Scrollback \o s \in Seq(Line)
      /\ Len(Scrollback \o s) = grid.back + Len(s)
      /\ \A i \in 1 .. grid.back : (Scrollback \o s)[i] = grid.cells[i]
  <2>1. /\ Scrollback \o s \in Seq(Line)
        /\ Len(Scrollback \o s) = Len(Scrollback) + Len(s)
        /\ \A i \in 1 .. Len(Scrollback) + Len(s) :
             (Scrollback \o s)[i] = IF i <= Len(Scrollback) THEN Scrollback[i]
                                     ELSE s[i - Len(Scrollback)]
    BY <1>2, ConcatProperties
  <2> QED BY <1>1, <1>2, <2>1
<1>4. /\ new.cells = Scrollback \o s /\ new.back = grid.back
      /\ new.pending = grid.pending /\ new.limit = l
  BY <1>1
<1>5. Good(new, Len(s))
  BY <1>1, <1>3 DEF Good
<1>6. Ledger(new, off, seen)
  <2> HIDE DEF new
  <2> QED BY <1>3, <1>4 DEF Ledger, Inv
<1> QED BY <1>4, <1>5, <1>6

\* Scrolling adds to the history what it moves over the boundary.
LEMMA ScrolledUpLedger ==
  ASSUME Inv, NEW n \in Nat
  PROVE  /\ off \o PushedOff(n) \in Seq(Line)
         /\ Ledger(ScrolledUp(n), off \o PushedOff(n), seen)
<1>0. /\ grid.cells \in [1 .. grid.back + rows -> Line]
      /\ grid.pending <= grid.back /\ grid.back <= Limit
      /\ rows \in Nat /\ bottom \in Nat /\ top \in Nat /\ bottom < rows
      /\ grid.back \in Nat /\ grid.pending \in Nat /\ grid.limit \in Nat
      /\ Blank \in Line
  BY GoodGrid DEF Inv, Good
<1>g. grid \in [cells : Seq(Line), back : Nat, pending : Nat, limit : Nat]
  BY GoodGrid DEF Inv, Good
<1>o. off \in Seq(Line) /\ seen \in Nat /\ Len(off) \in Nat
  BY DEF Inv, GridInv
<1>n. /\ grid.back <= Len(off) /\ grid.back \in Nat /\ Len(off) \in Nat
      /\ rows \in Nat /\ bottom \in Nat /\ bottom < rows
      /\ Len(grid.cells) = grid.back + rows
  BY GoodGrid DEF Inv, GridInv, Ledger
<1>l. /\ grid.back <= Len(off) /\ seen <= Len(off)
      /\ grid.pending = Greater(grid.back - (Len(off) - seen), 0)
      /\ \A i \in 1 .. grid.back : grid.cells[i] = off[Len(off) - grid.back + i]
  BY DEF Inv, Ledger
<1>1. CASE Captures
  <2> DEFINE d == Greater(grid.back + n - grid.limit, 0)
             new == ScrolledUp(n)
             p == PushedOff(n)
  <2>1. p = [i \in 1 .. n |-> IF i <= bottom + 1 THEN grid.cells[grid.back + i] ELSE Blank]
    BY <1>1 DEF PushedOff
  <2>2. p \in Seq(Line) /\ Len(p) = n
    <3>1. \A i \in 1 .. n : i <= bottom + 1 => grid.back + i \in 1 .. grid.back + rows
      BY <1>0
    <3>2. p \in [1 .. n -> Line]
      BY <1>0, <2>1, <3>1
    <3> HIDE DEF p
    <3> QED BY <3>2, Rebuilt
  <2>3. d \in Nat /\ grid.back + n - d \in Nat
    BY <1>0 DEF Greater
  <2>4. /\ new.back = grid.back + n - d
        /\ new.pending = Greater(grid.pending - d, 0)
        /\ new.cells = Captured(n, d)
    BY <1>1, <1>g DEF ScrolledUp
  <2> HIDE DEF d, new, p
  <2>5. /\ off \o p \in Seq(Line)
        /\ Len(off \o p) = Len(off) + n
        /\ \A i \in 1 .. Len(off) + n :
             (off \o p)[i] = IF i <= Len(off) THEN off[i] ELSE p[i - Len(off)]
    BY <1>o, <2>2, ConcatProperties
  <2>6. new.pending = Greater(new.back - (Len(off \o p) - seen), 0)
    BY <1>0, <1>o, <1>l, <2>3, <2>4, <2>5, SMTT(60) DEF Greater
  <2>7. ASSUME NEW i \in 1 .. new.back
        PROVE  new.cells[i] = (off \o p)[Len(off \o p) - new.back + i]
    <3>0. i \in 1 .. grid.back + n - d /\ i + d \in Nat
      BY <2>3, <2>4
    <3>1. new.cells[i] = IF i + d <= grid.back + bottom + 1 THEN grid.cells[i + d]
                         ELSE IF i + d <= grid.back + bottom + 1 + n THEN Blank
                         ELSE grid.cells[i + d - n]
      <4>1. i \in 1 .. Len(grid.cells) + n - d
        BY <1>n, <2>3, <3>0
      <4> QED BY <2>4, <4>1 DEF Captured
    <3>2. Len(off \o p) - new.back + i = Len(off) - grid.back + (i + d)
      <4>1. Len(off \o p) = Len(off) + n /\ new.back = grid.back + n - d
        BY <2>4, <2>5
      <4> QED BY <1>n, <2>3, <3>0, <4>1, SMTT(60)
    <3>3. CASE i + d <= grid.back
      <4>1. /\ i + d \in 1 .. grid.back
            /\ Len(off) - grid.back + (i + d) \in 1 .. Len(off) + n
            /\ Len(off) - grid.back + (i + d) <= Len(off)
        BY <1>n, <2>3, <3>0, <3>3
      <4>2. (off \o p)[Len(off) - grid.back + (i + d)] = off[Len(off) - grid.back + (i + d)]
        BY <2>5, <4>1
      <4>3. new.cells[i] = grid.cells[i + d]
        BY <1>0, <3>0, <3>1, <3>3
      <4> QED BY <1>l, <3>2, <4>1, <4>2, <4>3
    <3>4. CASE ~(i + d <= grid.back)
      <4> DEFINE j == i + d - grid.back
                 k == Len(off) - grid.back + (i + d)
      <4>1. j \in 1 .. n /\ grid.back + j = i + d
        BY <1>n, <2>3, <3>0, <3>4, SMTT(60)
      <4>2. k \in 1 .. Len(off) + n /\ ~(k <= Len(off)) /\ k - Len(off) = j
        BY <1>n, <2>3, <3>0, <3>4, SMTT(60)
      <4>3. (off \o p)[k] = p[j]
        <5> HIDE DEF j, k
        <5> QED BY <2>5, <4>2
      <4>4. p[j] = IF j <= bottom + 1 THEN grid.cells[i + d] ELSE Blank
        BY <2>1, <4>1
      <4>5. /\ (i + d <= grid.back + bottom + 1) <=> (j <= bottom + 1)
            /\ i + d <= grid.back + bottom + 1 + n
        BY <1>n, <2>3, <3>0, SMTT(60)
      <4> QED BY <3>1, <3>2, <4>3, <4>4, <4>5
    <3> QED BY <3>3, <3>4
  <2>8. new.back <= Len(off \o p) /\ seen <= Len(off \o p)
    BY <1>0, <1>o, <1>l, <2>3, <2>4, <2>5, SMTT(60)
  <2>9. Ledger(new, off \o p, seen)
    BY <2>6, <2>7, <2>8 DEF Ledger
  <2> QED BY <2>5, <2>9 DEF new, p
<1>2. CASE ~Captures
  <2> DEFINE moved == MovedUp(grid.cells, grid.back + top + 1, grid.back + bottom + 1, n)
  <2>1. off \o PushedOff(n) = off
    BY <1>2, <1>o, ConcatEmptySeq DEF PushedOff
  <2>2. \A i \in 1 .. grid.back : moved[i] = grid.cells[i]
    <3>1. \A i \in 1 .. grid.back : i \in 1 .. Len(grid.cells)
                                 /\ i \notin grid.back + top + 1 .. grid.back + bottom + 1
      BY <1>0, GoodGrid DEF Inv
    <3> QED BY <3>1 DEF MovedUp
  <2>3. ScrolledUp(n) = [grid EXCEPT !.cells = moved]
    BY <1>2 DEF ScrolledUp
  <2> HIDE DEF moved
  <2>4. /\ ScrolledUp(n).cells = moved /\ ScrolledUp(n).back = grid.back
        /\ ScrolledUp(n).pending = grid.pending
    BY <1>g, <2>3
  <2>5. Ledger(ScrolledUp(n), off, seen)
    BY <1>l, <2>2, <2>4 DEF Ledger
  <2> QED BY <1>o, <2>1, <2>5
<1> QED BY <1>1, <1>2

\* A new screen is blank and its history empty (Grid::new).
LEMMA InvInit == Init => Inv
<1> SUFFICES ASSUME Init PROVE Inv
  OBVIOUS
<1>1. rows \in Nat /\ rows >= 1 /\ rows \in 1 .. MaxRows
  BY DEF Init
<1>2. BlankRows(rows) \in Seq(Line) /\ Len(BlankRows(rows)) = rows
  <2>1. BlankRows(rows) \in [1 .. rows -> Line]
    BY DEF BlankRows, Blank, Line
  <2> QED BY <1>1, <2>1, Rebuilt
<1>3. Nothing \in [cells : Seq(Line), limit : Nat, top : Nat, bottom : Nat]
  BY DEF Nothing
<1>4. Len(<<>>) = 0 /\ <<>> \in Seq(Line)
  OBVIOUS
<1>5. GridInv
  <2>1. grid = [cells |-> BlankRows(rows), back |-> 0, pending |-> 0, limit |-> Limit]
    BY DEF Init
  <2>2. /\ grid \in [cells : Seq(Line), back : Nat, pending : Nat, limit : Nat]
        /\ Len(grid.cells) = grid.back + rows
        /\ grid.pending <= grid.back /\ grid.back <= Limit /\ grid.limit = Limit
    BY <1>1, <1>2, <2>1
  <2>3. /\ y \in 0 .. rows - 1 /\ bottom \in 0 .. rows - 1 /\ top \in 0 .. bottom
        /\ written \in Line /\ seen \in Nat /\ off \in Seq(Line)
    BY <1>1, <1>4 DEF Init, Line
  <2> QED BY <1>1, <1>3, <2>2, <2>3 DEF Init, GridInv
<1>6. Ledger(grid, off, seen)
  BY <1>4 DEF Init, Ledger, Greater
<1> QED BY <1>5, <1>6 DEF Inv

\* A step that leaves the window and the screen alone.
LEMMA SameScreen ==
  ASSUME Inv, Good(grid', rows), Ledger(grid', off', seen'), grid'.limit = grid.limit,
         UNCHANGED <<rows, alt, saved>>,
         written' \in Line, y' \in 0 .. rows - 1,
         bottom' \in 0 .. rows - 1, top' \in 0 .. bottom',
         off' \in Seq(Line), seen' \in Nat
  PROVE  Inv'
BY DEF Inv, GridInv, Good

\* A line feed keeps the cursor on the screen.
LEMMA Feed ==
  ASSUME Inv
  PROVE  Feeds \in Nat /\ FedY \in 0 .. rows - 1
BY GoodGrid DEF Inv, Feeds, FedY, Lesser

\* A step that scrolls up by n rows (scroll_up, line feed).
LEMMA ScrollUpStep ==
  ASSUME Inv, NEW n \in Nat, ScrollUp(n),
         y' \in 0 .. rows - 1, UNCHANGED <<rows, top, bottom, alt, saved, written, seen>>
  PROVE  Inv'
<1>1. Good(grid', rows) /\ grid'.limit = grid.limit
  BY ScrolledUpGood DEF ScrollUp, Inv
<1>2. off' \in Seq(Line) /\ Ledger(grid', off', seen')
  BY ScrolledUpLedger DEF ScrollUp
<1> QED BY <1>1, <1>2, SameScreen DEF Inv, GridInv

\* A step that redraws visible rows.
LEMMA RedrawStep ==
  ASSUME Inv, NEW f \in [1 .. grid.back + rows -> Line],
         \A i \in 1 .. grid.back : f[i] = grid.cells[i],
         grid' = [grid EXCEPT !.cells = f],
         y' \in 0 .. rows - 1, bottom' \in 0 .. rows - 1, top' \in 0 .. bottom',
         UNCHANGED <<rows, alt, saved, written, off, seen>>
  PROVE  Inv'
<1>1. Good(grid, rows) /\ rows \in Nat
  BY GoodGrid DEF Inv
<1>2. Good(grid', rows) /\ Ledger(grid', off, seen) /\ grid'.limit = grid.limit
  BY <1>1, Redrawn DEF Inv
<1> QED BY <1>2, SameScreen DEF Inv, GridInv

\* Rows that move behind the boundary leave the scrollback.
LEMMA MovesType ==
  ASSUME Inv, NEW lo \in Nat, NEW hi \in Nat, NEW n \in Nat,
         lo > grid.back, hi <= grid.back + rows
  PROVE  /\ MovedUp(grid.cells, lo, hi, n) \in [1 .. grid.back + rows -> Line]
         /\ MovedDown(grid.cells, lo, hi, n) \in [1 .. grid.back + rows -> Line]
         /\ \A i \in 1 .. grid.back : /\ MovedUp(grid.cells, lo, hi, n)[i] = grid.cells[i]
                                      /\ MovedDown(grid.cells, lo, hi, n)[i] = grid.cells[i]
<1>1. /\ grid.cells \in [1 .. grid.back + rows -> Line] /\ Blank \in Line
      /\ Len(grid.cells) = grid.back + rows /\ grid.back \in Nat /\ rows \in Nat
  BY GoodGrid DEF Inv
<1>2. ASSUME NEW i \in 1 .. grid.back + rows, i \in lo .. hi
      PROVE  /\ i + n <= hi => i + n \in 1 .. grid.back + rows
             /\ i - n >= lo => i - n \in 1 .. grid.back + rows
  BY <1>1, <1>2
<1>3. ASSUME NEW i \in 1 .. grid.back
      PROVE  i \notin lo .. hi /\ i \in 1 .. grid.back + rows
  BY <1>1
<1>4. MovedUp(grid.cells, lo, hi, n) \in [1 .. grid.back + rows -> Line]
  BY <1>1, <1>2 DEF MovedUp
<1>5. MovedDown(grid.cells, lo, hi, n) \in [1 .. grid.back + rows -> Line]
  BY <1>1, <1>2 DEF MovedDown
<1> QED BY <1>1, <1>3, <1>4, <1>5 DEF MovedUp, MovedDown

\* Erasing visible rows (erase_in_display, erase_in_line).
LEMMA ErasedStep ==
  ASSUME Inv, NEW S \in SUBSET (0 .. rows - 1)
  PROVE  /\ Good(Erased(S), rows) /\ Ledger(Erased(S), off, seen)
         /\ Erased(S).limit = grid.limit
<1> DEFINE f == [i \in 1 .. grid.back + rows |->
                   IF i - grid.back - 1 \in S THEN Blank ELSE grid.cells[i]]
<1>1. /\ grid.cells \in [1 .. grid.back + rows -> Line] /\ Blank \in Line
      /\ grid.back \in Nat /\ rows \in Nat /\ Good(grid, rows)
  BY GoodGrid DEF Inv
<1>2. f \in [1 .. grid.back + rows -> Line]
  BY <1>1
<1>3. ASSUME NEW i \in 1 .. grid.back PROVE f[i] = grid.cells[i]
  BY <1>1
<1>4. Erased(S) = [grid EXCEPT !.cells = f]
  BY <1>1 DEF Erased
<1> HIDE DEF f
<1> QED BY <1>1, <1>2, <1>3, <1>4, Redrawn DEF Inv

\* Line feed, reverse index and the two scrolls by n preserve the invariant.
LEMMA LineStep ==
  ASSUME Inv, LineFeed \/ ReverseIndex \/ ScrollUpN \/ ScrollDownN
  PROVE  Inv'
<1>0. /\ grid.back \in Nat /\ rows \in Nat /\ y \in Nat /\ y < rows
      /\ top \in Nat /\ bottom \in Nat /\ top <= bottom /\ bottom < rows
      /\ bottom \in 0 .. rows - 1 /\ top \in 0 .. bottom
  BY GoodGrid DEF Inv, GridInv
<1>d. ASSUME NEW n \in Nat, grid' = ScrolledDown(n), y' \in 0 .. rows - 1,
             UNCHANGED <<rows, top, bottom, alt, saved, written, off, seen>>
      PROVE  Inv'
  <2> DEFINE f == MovedDown(grid.cells, grid.back + top + 1, grid.back + bottom + 1, n)
  <2>1. /\ grid.back + top + 1 \in Nat /\ grid.back + top + 1 > grid.back
        /\ grid.back + bottom + 1 \in Nat /\ grid.back + bottom + 1 <= grid.back + rows
    BY <1>0
  <2>2. f \in [1 .. grid.back + rows -> Line] /\ \A i \in 1 .. grid.back : f[i] = grid.cells[i]
    BY <2>1, MovesType
  <2>3. grid' = [grid EXCEPT !.cells = f]
    BY <1>d DEF ScrolledDown
  <2> HIDE DEF f
  <2> QED BY <1>0, <1>d, <2>2, <2>3, RedrawStep
<1>1. CASE LineFeed
  BY <1>1, Feed, ScrollUpStep DEF LineFeed
<1>2. CASE ReverseIndex
  <2>1. y' \in 0 .. rows - 1
    BY <1>0, <1>2 DEF ReverseIndex, Greater
  <2>2. CASE y = top
    BY <1>2, <1>d, <2>1, <2>2 DEF ReverseIndex
  <2>3. CASE y # top
    BY <1>2, <1>d, <2>1, <2>3 DEF ReverseIndex
  <2> QED BY <2>2, <2>3
<1>3. CASE ScrollUpN
  BY <1>0, <1>3, ScrollUpStep DEF ScrollUpN
<1>4. CASE ScrollDownN
  <2>1. PICK n \in 1 .. rows : grid' = ScrolledDown(n)
    BY <1>4 DEF ScrollDownN
  <2> QED BY <1>0, <1>4, <1>d, <2>1 DEF ScrollDownN
<1> QED BY <1>1, <1>2, <1>3, <1>4

\* Insertion and deletion of lines preserve the invariant.
LEMMA EditStep ==
  ASSUME Inv, DeleteLines \/ InsertLines
  PROVE  Inv'
<1>0. /\ grid.back \in Nat /\ rows \in Nat /\ y \in Nat /\ y < rows
      /\ bottom \in Nat /\ bottom < rows
      /\ bottom \in 0 .. rows - 1 /\ top \in 0 .. bottom /\ y \in 0 .. rows - 1
  BY GoodGrid DEF Inv, GridInv
<1>1. /\ grid.back + y + 1 \in Nat /\ grid.back + y + 1 > grid.back
      /\ grid.back + bottom + 1 \in Nat /\ grid.back + bottom + 1 <= grid.back + rows
  BY <1>0
<1>2. CASE DeleteLines
  <2>1. PICK n \in 1 .. bottom - y + 1 :
          grid' = [grid EXCEPT !.cells =
                     MovedUp(grid.cells, grid.back + y + 1, grid.back + bottom + 1, n)]
    BY <1>2 DEF DeleteLines
  <2> DEFINE f == MovedUp(grid.cells, grid.back + y + 1, grid.back + bottom + 1, n)
  <2>2. n \in Nat
    BY <1>0
  <2>3. f \in [1 .. grid.back + rows -> Line] /\ \A i \in 1 .. grid.back : f[i] = grid.cells[i]
    BY <1>1, <2>2, MovesType
  <2>4. grid' = [grid EXCEPT !.cells = f]
    BY <2>1
  <2> HIDE DEF f
  <2> QED BY <1>0, <1>2, <2>3, <2>4, RedrawStep DEF DeleteLines
<1>3. CASE InsertLines
  <2>1. PICK n \in 1 .. bottom - y + 1 :
          grid' = [grid EXCEPT !.cells =
                     MovedDown(grid.cells, grid.back + y + 1, grid.back + bottom + 1, n)]
    BY <1>3 DEF InsertLines
  <2> DEFINE f == MovedDown(grid.cells, grid.back + y + 1, grid.back + bottom + 1, n)
  <2>2. n \in Nat
    BY <1>0
  <2>3. f \in [1 .. grid.back + rows -> Line] /\ \A i \in 1 .. grid.back : f[i] = grid.cells[i]
    BY <1>1, <2>2, MovesType
  <2>4. grid' = [grid EXCEPT !.cells = f]
    BY <2>1
  <2> HIDE DEF f
  <2> QED BY <1>0, <1>3, <2>3, <2>4, RedrawStep DEF InsertLines
<1> QED BY <1>2, <1>3

\* Printing, with or without a wrap that was pending, preserves the invariant.
LEMMA PrintStep ==
  ASSUME Inv, PrintLine
  PROVE  Inv'
<1>0. /\ rows \in Nat /\ y \in 0 .. rows - 1 /\ Good(grid, rows)
      /\ bottom \in 0 .. rows - 1 /\ top \in 0 .. bottom /\ seen \in Nat /\ off \in Seq(Line)
  BY GoodGrid DEF Inv, GridInv
<1>1. written' \in Line
  BY DEF PrintLine, Inv, GridInv, Line
<1>2. ASSUME NEW g, NEW o \in Seq(Line), Good(g, rows), Ledger(g, o, seen), g.limit = grid.limit,
             grid' = Put(g, y', written'), off' = o, y' \in 0 .. rows - 1
      PROVE  Inv'
  <2> DEFINE f == [g.cells EXCEPT ![g.back + y' + 1] = written']
  <2>1. g.back \in Nat /\ g.cells \in [1 .. g.back + rows -> Line]
    BY <1>0, <1>2, GoodFields
  <2>2. f \in [1 .. g.back + rows -> Line] /\ \A i \in 1 .. g.back : f[i] = g.cells[i]
    BY <1>0, <1>1, <1>2, <2>1
  <2>3. grid' = [g EXCEPT !.cells = f]
    BY <1>2 DEF Put
  <2> HIDE DEF f
  <2>4. Good(grid', rows) /\ Ledger(grid', o, seen) /\ grid'.limit = grid.limit
    <3>1. LET new == [g EXCEPT !.cells = f]
          IN  Good(new, rows) /\ Ledger(new, o, seen) /\ new.limit = g.limit
      BY <1>0, <1>2, <2>2, Redrawn
    <3> QED BY <1>2, <2>3, <3>1
  <2> QED BY <1>0, <1>1, <1>2, <2>4, SameScreen DEF PrintLine
<1>3. PICK wrap \in BOOLEAN :
        LET n == IF wrap THEN Feeds ELSE 0 IN
        /\ y' = IF wrap THEN FedY ELSE y
        /\ grid' = Put(IF n = 0 THEN grid ELSE ScrolledUp(1), y', written')
        /\ off' = IF n = 0 THEN off ELSE off \o PushedOff(1)
  BY DEF PrintLine
<1>4. y' \in 0 .. rows - 1
  BY <1>0, <1>3, Feed
<1>5. CASE (IF wrap THEN Feeds ELSE 0) = 0
  BY <1>0, <1>2, <1>3, <1>4, <1>5 DEF Inv
<1>6. CASE (IF wrap THEN Feeds ELSE 0) # 0
  <2>1. 1 \in Nat
    OBVIOUS
  <2>2. Good(ScrolledUp(1), rows) /\ ScrolledUp(1).limit = grid.limit
    BY <2>1, ScrolledUpGood DEF Inv
  <2>3. off \o PushedOff(1) \in Seq(Line) /\ Ledger(ScrolledUp(1), off \o PushedOff(1), seen)
    BY <2>1, ScrolledUpLedger
  <2> QED BY <1>2, <1>3, <1>4, <1>6, <2>2, <2>3
<1> QED BY <1>5, <1>6

\* Erasing, DECALN, movements and regions preserve the invariant.
LEMMA CursorStep ==
  ASSUME Inv, Erase \/ Align \/ MoveCursor \/ SetRegion \/ EraseScrollback
  PROVE  Inv'
<1>0. /\ rows \in Nat /\ rows >= 1 /\ y \in 0 .. rows - 1 /\ Good(grid, rows)
      /\ Ledger(grid, off, seen) /\ written \in Line
      /\ bottom \in 0 .. rows - 1 /\ top \in 0 .. bottom /\ seen \in Nat /\ off \in Seq(Line)
  BY GoodGrid DEF Inv, GridInv
<1>1. CASE Erase
  <2>1. PICK S \in {{y}, y .. rows - 1, y + 1 .. rows - 1, 0 .. y, 0 .. y - 1, 0 .. rows - 1} :
          grid' = Erased(S)
    BY <1>1 DEF Erase
  <2>2. S \in SUBSET (0 .. rows - 1)
    BY <1>0
  <2> QED BY <1>0, <1>1, <2>1, <2>2, ErasedStep, SameScreen DEF Erase
<1>2. CASE Align
  <2>1. 0 .. rows - 1 \in SUBSET (0 .. rows - 1)
    OBVIOUS
  <2>2. y' \in 0 .. rows - 1 /\ bottom' \in 0 .. rows - 1 /\ top' \in 0 .. bottom'
    BY <1>0, <1>2 DEF Align
  <2> QED BY <1>0, <1>2, <2>1, <2>2, ErasedStep, SameScreen DEF Align
<1>3. CASE MoveCursor
  BY <1>0, <1>3, SameScreen DEF MoveCursor
<1>4. CASE SetRegion
  <2>1. y' \in 0 .. rows - 1 /\ bottom' \in 0 .. rows - 1 /\ top' \in 0 .. bottom'
    BY <1>0, <1>4 DEF SetRegion
  <2> QED BY <1>0, <1>4, <2>1, SameScreen DEF SetRegion
<1>5. CASE EraseScrollback
  <2>1. <<>> \in Seq(Line) /\ 0 \in Nat
    OBVIOUS
  <2> QED BY <1>0, <1>5, <2>1, Emptied, SameScreen DEF EraseScrollback
<1> QED BY <1>1, <1>2, <1>3, <1>4, <1>5

\* Rows cut or padded to n are n rows (Grid::resize, restored rows).
LEMMA FittedType ==
  ASSUME NEW n \in Nat, NEW s \in Seq(Line)
  PROVE  Fitted(s, n) \in Seq(Line) /\ Len(Fitted(s, n)) = n
<1>1. \A i \in 1 .. n : i <= Len(s) => s[i] \in Line
  <2>1. Len(s) \in Nat /\ s \in [1 .. Len(s) -> Line]
    BY LenProperties
  <2> QED BY <2>1
<1>2. Fitted(s, n) \in [1 .. n -> Line]
  BY <1>1 DEF Fitted, Blank, Line
<1> QED BY <1>2, Rebuilt

\* The alternate screen takes over with the scrollback as it is.
LEMMA EnterAltStep == Inv /\ EnterAlt => Inv'
<1> SUFFICES ASSUME Inv, EnterAlt PROVE Inv'
  OBVIOUS
<1>0. /\ rows \in Nat /\ rows >= 1 /\ rows \in 1 .. MaxRows /\ written \in Line
      /\ grid.back \in Nat /\ grid.cells \in [1 .. grid.back + rows -> Line]
      /\ Len(grid.cells) = grid.back + rows /\ top <= bottom
      /\ bottom \in Nat /\ top \in Nat /\ seen \in Nat /\ off \in Seq(Line)
      /\ grid.limit = Limit
  BY GoodGrid DEF EnterAlt, Inv, GridInv
<1>1. BlankRows(rows) \in Seq(Line) /\ Len(BlankRows(rows)) = rows
  <2>1. BlankRows(rows) \in [1 .. rows -> Line]
    BY DEF BlankRows, Blank, Line
  <2> QED BY <1>0, <2>1, Rebuilt
<1>2. Good(grid', rows) /\ Ledger(grid', off, seen) /\ grid'.limit = 0
  <2>1. LET new == [grid EXCEPT !.cells = Scrollback \o BlankRows(rows), !.limit = 0]
        IN  Good(new, Len(BlankRows(rows))) /\ Ledger(new, off, seen) /\ new.limit = 0
    BY <1>0, <1>1, Switched
  <2> QED BY <1>1, <2>1 DEF EnterAlt
<1>3. SavedRows \in Seq(Line)
  <2>1. \A i \in grid.back + 1 .. Len(grid.cells) : grid.cells[i] \in Line
    BY <1>0
  <2> QED BY <1>0, <2>1, SubSeqProperties DEF SavedRows, Visible
<1>4. /\ saved' \in [cells : Seq(Line), limit : Nat, top : Nat, bottom : Nat]
      /\ saved'.limit = Limit /\ saved'.top <= saved'.bottom
  BY <1>0, <1>3 DEF EnterAlt
<1>5. y' \in 0 .. rows' - 1 /\ bottom' \in 0 .. rows' - 1 /\ top' \in 0 .. bottom'
  BY <1>0 DEF EnterAlt
<1> QED BY <1>0, <1>2, <1>4, <1>5 DEF EnterAlt, Inv, GridInv, Good

\* The saved rows come back at the height of the window.
LEMMA ExitAltStep == Inv /\ ExitAlt => Inv'
<1> SUFFICES ASSUME Inv, ExitAlt PROVE Inv'
  OBVIOUS
<1>0. /\ rows \in Nat /\ rows >= 1 /\ rows \in 1 .. MaxRows /\ written \in Line
      /\ saved \in [cells : Seq(Line), limit : Nat, top : Nat, bottom : Nat]
      /\ saved.limit = Limit /\ saved.top <= saved.bottom
      /\ seen \in Nat /\ off \in Seq(Line)
  BY GoodGrid DEF ExitAlt, Inv, GridInv
<1>1. Fitted(saved.cells, rows) \in Seq(Line) /\ Len(Fitted(saved.cells, rows)) = rows
  BY <1>0, FittedType
<1>2. Good(grid', rows) /\ Ledger(grid', off, seen) /\ grid'.limit = Limit
  <2> DEFINE s == Fitted(saved.cells, rows)
  <2>1. LET new == [grid EXCEPT !.cells = Scrollback \o s, !.limit = saved.limit]
        IN  Good(new, Len(s)) /\ Ledger(new, off, seen) /\ new.limit = saved.limit
    BY <1>0, <1>1, Switched
  <2> QED BY <1>0, <1>1, <2>1 DEF ExitAlt
<1>3. /\ Nothing \in [cells : Seq(Line), limit : Nat, top : Nat, bottom : Nat]
  BY DEF Nothing
<1>4. bottom' \in 0 .. rows - 1 /\ top' \in 0 .. bottom'
  BY <1>0 DEF ExitAlt, Greater, Lesser
<1> QED BY <1>0, <1>2, <1>3, <1>4 DEF ExitAlt, Inv, GridInv, Good

\* RIS restores the limit and leaves nothing.
LEMMA ResetStep == Inv /\ Reset => Inv'
<1> SUFFICES ASSUME Inv, Reset PROVE Inv'
  OBVIOUS
<1>0. /\ rows \in Nat /\ rows >= 1 /\ rows \in 1 .. MaxRows /\ written \in Line
      /\ ResetLimit = Limit
  BY GoodGrid DEF Inv, GridInv, ResetLimit
<1> DEFINE g == [Erased(0 .. rows - 1) EXCEPT !.limit = ResetLimit]
<1>1. Good(g, rows) /\ g.limit = Limit
  <2>1. Good(Erased(0 .. rows - 1), rows)
    BY ErasedStep
  <2> QED BY <1>0, <2>1 DEF Good
<1> HIDE DEF g
<1>2. /\ Good(grid', rows) /\ Ledger(grid', <<>>, 0) /\ grid'.limit = Limit
  BY <1>0, <1>1, Emptied DEF Reset, g
<1>3. /\ Nothing \in [cells : Seq(Line), limit : Nat, top : Nat, bottom : Nat]
      /\ <<>> \in Seq(Line)
  BY DEF Nothing
<1>4. y' \in 0 .. rows' - 1 /\ bottom' \in 0 .. rows' - 1 /\ top' \in 0 .. bottom'
  BY <1>0 DEF Reset
<1> QED BY <1>0, <1>2, <1>3, <1>4 DEF Reset, Inv, GridInv, Good

\* A take gives the client every pending line (take_pending_scrollback).
LEMMA TakeStep == Inv /\ TakePending => Inv'
<1> SUFFICES ASSUME Inv, TakePending PROVE Inv'
  OBVIOUS
<1>0. /\ grid.back \in Nat /\ Len(off) \in Nat /\ grid.back <= Limit
      /\ Len(grid.cells) = grid.back + rows
      /\ grid \in [cells : Seq(Line), back : Nat, pending : Nat, limit : Nat]
  BY GoodGrid DEF Inv, GridInv
<1>1. grid' = [grid EXCEPT !.pending = grid.back]
  BY DEF TakePending
<1>2. /\ grid'.cells = grid.cells /\ grid'.back = grid.back /\ grid'.pending = grid.back
      /\ grid'.limit = grid.limit
      /\ grid' \in [cells : Seq(Line), back : Nat, pending : Nat, limit : Nat]
  BY <1>0, <1>1
<1>3. Good(grid', rows)
  BY <1>0, <1>2 DEF Good
<1>4. Ledger(grid', off', seen')
  BY <1>0, <1>2 DEF Inv, Ledger, TakePending, Greater
<1> QED BY <1>0, <1>2, <1>3, <1>4, SameScreen DEF TakePending, Inv, GridInv

\* A taller window takes rows back from the scrollback, which leave the history.
LEMMA ResizeStep == Inv /\ Resize => Inv'
<1> SUFFICES ASSUME Inv, Resize PROVE Inv'
  OBVIOUS
<1>0. /\ grid.back \in Nat /\ grid.pending \in Nat /\ grid.back <= Limit
      /\ rows \in Nat /\ y \in Nat /\ Blank \in Line
      /\ Len(grid.cells) = grid.back + rows
      /\ grid.cells \in [1 .. grid.back + rows -> Line]
      /\ off \in Seq(Line) /\ seen \in Nat /\ Len(off) \in Nat
      /\ off \in [1 .. Len(off) -> Line]
      /\ grid \in [cells : Seq(Line), back : Nat, pending : Nat, limit : Nat]
  BY GoodGrid, LenProperties DEF Inv, GridInv
<1>l. /\ grid.back <= Len(off) /\ seen <= Len(off)
      /\ grid.pending = Greater(grid.back - (Len(off) - seen), 0)
  BY DEF Inv, Ledger
<1>q. /\ grid.back \in Nat /\ grid.pending \in Nat /\ rows \in Nat /\ y \in Nat
      /\ seen \in Nat /\ Len(off) \in Nat
  BY <1>0
<1>1. PICK n \in 1 .. MaxRows :
        LET k == Restored(n)
            b == grid.back - k
        IN  /\ rows' = n
            /\ grid' = [grid EXCEPT
                          !.cells = SubSeq(grid.cells, 1, b)
                                      \o Fitted(SubSeq(grid.cells, b + 1, Len(grid.cells)), n),
                          !.back = b,
                          !.pending = Lesser(grid.pending, b)]
            /\ y' = ResizedY(n)
            /\ off' = SubSeq(off, 1, Len(off) - k)
            /\ seen' = Lesser(seen, Len(off'))
            /\ top' = 0 /\ bottom' = n - 1
  BY DEF Resize
<1> DEFINE k == Restored(n)
           b == grid.back - k
           kept == SubSeq(grid.cells, 1, b)
           shown == Fitted(SubSeq(grid.cells, b + 1, Len(grid.cells)), n)
<1>2. n \in Nat /\ n >= 1
  OBVIOUS
<1>3. k \in Nat /\ k <= grid.back /\ b \in Nat
  <2>1. CASE alt \/ n <= rows
    BY <1>q, <2>1 DEF Restored
  <2>2. CASE ~(alt \/ n <= rows)
    BY <1>q, <1>2, <2>2 DEF Restored, Lesser
  <2> QED BY <2>1, <2>2
<1>4. /\ grid'.cells = kept \o shown /\ grid'.back = b
      /\ grid'.pending = Lesser(grid.pending, b) /\ grid'.limit = grid.limit
      /\ off' = SubSeq(off, 1, Len(off) - k) /\ seen' = Lesser(seen, Len(off'))
      /\ rows' = n /\ y' = ResizedY(n) /\ top' = 0 /\ bottom' = n - 1
  BY <1>0, <1>1
<1>5. y' \in 0 .. n - 1
  <2>1. y' = Lesser(y + k, n - 1)
    BY <1>4 DEF ResizedY
  <2> HIDE DEF k
  <2> QED BY <1>q, <1>2, <1>3, <2>1 DEF Lesser
<1> HIDE DEF k
<1>6. /\ kept \in Seq(Line) /\ Len(kept) = b
      /\ \A i \in 1 .. b : kept[i] = grid.cells[i]
  <2> HIDE DEF b
  <2>1. \A i \in 1 .. b : grid.cells[i] \in Line
    BY <1>0, <1>3 DEF b
  <2>2. /\ kept \in Seq(Line)
        /\ Len(kept) = IF 1 <= b THEN b - 1 + 1 ELSE 0
        /\ \A i \in 1 .. b - 1 + 1 : kept[i] = grid.cells[1 + i - 1]
    BY <1>3, <2>1, SubSeqProperties
  <2> HIDE DEF kept
  <2> QED BY <1>3, <2>2
<1>7. shown \in Seq(Line) /\ Len(shown) = n
  <2>1. \A i \in b + 1 .. Len(grid.cells) : grid.cells[i] \in Line
    BY <1>0, <1>3
  <2>2. SubSeq(grid.cells, b + 1, Len(grid.cells)) \in Seq(Line)
    BY <1>0, <1>3, <2>1, SubSeqProperties
  <2> QED BY <1>2, <2>2, FittedType
<1>8. /\ off' \in Seq(Line) /\ Len(off') = Len(off) - k
      /\ \A i \in 1 .. Len(off) - k : off'[i] = off[i]
  <2> DEFINE m == Len(off) - k
  <2>1. m \in Nat /\ m <= Len(off)
    BY <1>0, <1>l, <1>3
  <2> HIDE DEF m
  <2>2. \A i \in 1 .. m : off[i] \in Line
    BY <1>0, <2>1
  <2>3. /\ SubSeq(off, 1, m) \in Seq(Line)
        /\ Len(SubSeq(off, 1, m)) = IF 1 <= m THEN m - 1 + 1 ELSE 0
        /\ \A i \in 1 .. m - 1 + 1 : SubSeq(off, 1, m)[i] = off[1 + i - 1]
    BY <2>1, <2>2, SubSeqProperties
  <2>4. off' = SubSeq(off, 1, m)
    BY <1>4 DEF m
  <2>5. off' \in Seq(Line) /\ Len(off') = m /\ \A i \in 1 .. m : off'[i] = off[i]
    BY <2>1, <2>3, <2>4
  <2> QED BY <2>5 DEF m
<1> HIDE DEF kept, shown
<1>9. /\ kept \o shown \in Seq(Line) /\ Len(kept \o shown) = b + n
      /\ \A i \in 1 .. b : (kept \o shown)[i] = grid.cells[i]
  <2>1. /\ kept \o shown \in Seq(Line)
        /\ Len(kept \o shown) = Len(kept) + Len(shown)
        /\ \A i \in 1 .. Len(kept) + Len(shown) :
             (kept \o shown)[i] = IF i <= Len(kept) THEN kept[i] ELSE shown[i - Len(kept)]
    BY <1>6, <1>7, ConcatProperties
  <2> HIDE DEF b
  <2> QED BY <1>2, <1>3, <1>6, <1>7, <2>1
<1>10. Good(grid', n)
  <2>1. Lesser(grid.pending, b) \in Nat /\ Lesser(grid.pending, b) <= b /\ b <= Limit
    BY <1>0, <1>3 DEF Lesser
  <2> HIDE DEF b
  <2>2. grid' \in [cells : Seq(Line), back : Nat, pending : Nat, limit : Nat]
    <3>1. grid' = [grid EXCEPT !.cells = kept \o shown, !.back = b,
                               !.pending = Lesser(grid.pending, b)]
      BY <1>1 DEF b, k, kept, shown
    <3> QED BY <1>0, <1>3, <1>9, <2>1, <3>1
  <2> QED BY <1>4, <1>9, <2>1, <2>2 DEF Good
<1>11. Ledger(grid', off', seen')
  <2>0. seen' = Lesser(seen, Len(off')) /\ Len(off') = Len(off) - k
    BY <1>4, <1>8
  <2>1. b <= Len(off') /\ seen' <= Len(off')
    BY <1>q, <1>l, <1>3, <2>0 DEF Lesser
  <2>2. Lesser(grid.pending, b) = Greater(b - (Len(off') - seen'), 0)
    <3> DEFINE u == grid.back - (Len(off) - seen)
               v == b - (Len(off') - seen')
    <3>1. u \in Int /\ grid.pending = (IF u >= 0 THEN u ELSE 0)
      BY <1>q, <1>l DEF Greater
    <3>2. CASE seen <= Len(off) - k
      <4>1. seen' = seen
        BY <2>0, <3>2 DEF Lesser
      <4>2. v = u
        <5>1. b - ((Len(off) - k) - seen) = grid.back - (Len(off) - seen)
          BY <1>q, <1>3
        <5> QED BY <2>0, <4>1, <5>1
      <4>3. u <= b
        BY <1>q, <1>3, <3>2
      <4> HIDE DEF u, v, b
      <4> QED BY <1>3, <3>1, <4>2, <4>3 DEF Lesser, Greater, v
    <3>3. CASE ~(seen <= Len(off) - k)
      <4>1. seen' = Len(off')
        BY <2>0, <3>3 DEF Lesser
      <4>2. v = b /\ u > b
        BY <1>q, <1>3, <2>0, <3>3, <4>1
      <4> HIDE DEF u, v, b
      <4> QED BY <1>3, <3>1, <4>2 DEF Lesser, Greater, v
    <3> QED BY <3>2, <3>3
  <2>3. ASSUME NEW i \in 1 .. b
        PROVE  (kept \o shown)[i] = off'[Len(off') - b + i]
    <3>1. /\ Len(off') - b + i = Len(off) - grid.back + i
          /\ Len(off) - grid.back + i \in 1 .. Len(off) - k
          /\ i \in 1 .. grid.back
      BY <1>0, <1>l, <1>3, <1>8, SMTT(60)
    <3>2. grid.cells[i] = off[Len(off) - grid.back + i]
      BY <3>1 DEF Inv, Ledger
    <3> QED BY <1>8, <1>9, <3>1, <3>2
  <2> HIDE DEF b
  <2> QED BY <1>4, <2>1, <2>2, <2>3 DEF Ledger
<1>12. seen' \in Nat
  <2>1. seen' = Lesser(seen, Len(off')) /\ Len(off') = Len(off) - k
    BY <1>4, <1>8
  <2> QED BY <1>q, <1>l, <1>3, <2>1 DEF Lesser
<1>13. bottom' \in 0 .. rows' - 1 /\ top' \in 0 .. bottom' /\ rows' \in 1 .. MaxRows
  BY <1>1, <1>2
<1> QED BY <1>4, <1>5, <1>8, <1>10, <1>11, <1>12, <1>13 DEF Resize, Inv, GridInv, Good

\* Every step of the screen preserves the invariant.
LEMMA Inductive == Inv /\ [Next]_vars => Inv'
<1> SUFFICES ASSUME Inv, [Next]_vars PROVE Inv'
  OBVIOUS
<1>1. CASE UNCHANGED vars
  BY <1>1 DEF vars, Inv, GridInv, Ledger
<1>2. CASE Next
  BY <1>2, LineStep, EditStep, PrintStep, CursorStep, EnterAltStep, ExitAltStep,
     ResetStep, TakeStep, ResizeStep DEF Next
<1> QED BY <1>1, <1>2

\* Grid::check_invariants never fails: buffer, boundaries, cursor, region and
\* limit agree in every reachable state.
THEOREM GridCorrect == Spec => []GridInv
<1>1. Inv => GridInv
  BY DEF Inv
<1> QED BY <1>1, InvInit, Inductive, PTL DEF Spec

\* The pending lines are exactly the kept ones that the client was not given,
\* through scrolling at the limit, resizes and both screens.
THEOREM PendingCorrect == Spec => []PendingIsUnsent
<1>1. Inv => PendingIsUnsent
  BY DEF Inv, Ledger, PendingIsUnsent
<1> QED BY <1>1, InvInit, Inductive, PTL DEF Spec

\* The scrollback holds what scrolled off the main screen last, in order.
THEOREM HistoryCorrect == Spec => []ScrollbackIsHistory
<1>1. ASSUME Inv PROVE ScrollbackIsHistory
  <2>0. /\ grid.back \in Nat /\ Len(off) \in Nat /\ grid.back <= Len(off)
        /\ grid.cells \in [1 .. grid.back + rows -> Line] /\ rows \in Nat
        /\ off \in [1 .. Len(off) -> Line]
    BY <1>1, GoodGrid, LenProperties DEF Inv, GridInv, Ledger
  <2> DEFINE m == Len(off) - grid.back
             t == SubSeq(off, m + 1, Len(off))
  <2>1. m \in Nat
    BY <2>0
  <2>2. /\ Scrollback \in Seq(Line) /\ Len(Scrollback) = grid.back
        /\ \A i \in 1 .. grid.back : Scrollback[i] = grid.cells[i]
    <3>1. \A i \in 1 .. grid.back : grid.cells[i] \in Line
      BY <2>0, SMTT(60)
    <3>2. /\ Scrollback \in Seq(Line)
          /\ Len(Scrollback) = IF 1 <= grid.back THEN grid.back - 1 + 1 ELSE 0
          /\ \A i \in 1 .. grid.back - 1 + 1 : Scrollback[i] = grid.cells[1 + i - 1]
      BY <2>0, <3>1, SubSeqProperties DEF Scrollback
    <3> QED BY <2>0, <3>2
  <2>3. /\ t \in Seq(Line) /\ Len(t) = grid.back
        /\ \A i \in 1 .. grid.back : t[i] = off[m + i]
    <3>1. \A i \in m + 1 .. Len(off) : off[i] \in Line
      BY <2>0, <2>1
    <3>2. /\ t \in Seq(Line)
          /\ Len(t) = IF m + 1 <= Len(off) THEN Len(off) - (m + 1) + 1 ELSE 0
          /\ \A i \in 1 .. Len(off) - (m + 1) + 1 : t[i] = off[m + 1 + i - 1]
      <4> HIDE DEF m
      <4> QED BY <2>0, <2>1, <3>1, SubSeqProperties
    <3>3. Len(off) - (m + 1) + 1 = grid.back /\ (m + 1 <= Len(off) <=> grid.back # 0)
      BY <2>0
    <3>4. \A i \in 1 .. grid.back : m + 1 + i - 1 = m + i
      BY <2>0, <2>1
    <3> HIDE DEF t, m
    <3> QED BY <2>0, <3>2, <3>3, <3>4
  <2>4. \A i \in 1 .. grid.back : grid.cells[i] = off[m + i]
    BY <1>1 DEF Inv, Ledger
  <2> HIDE DEF t, m
  <2>5. Scrollback = t
    BY <2>2, <2>3, <2>4, SeqEqual
  <2> QED BY <2>0, <2>5 DEF ScrollbackIsHistory, t, m
<1> QED BY <1>1, InvInit, Inductive, PTL DEF Spec

\* A window that grows moves the cursor with its line (Grid::resize).
LEMMA CursorResize ==
  ASSUME Inv, Resize, rows' > rows
  PROVE  Visible'[y' + 1] = Visible[y + 1]
<1>0. /\ grid.back \in Nat /\ rows \in Nat /\ y \in Nat /\ y < rows
      /\ Len(grid.cells) = grid.back + rows
      /\ grid \in [cells : Seq(Line), back : Nat, pending : Nat, limit : Nat]
      /\ grid.cells \in [1 .. grid.back + rows -> Line]
  BY GoodGrid DEF Inv, GridInv
<1>q. grid.back \in Nat /\ rows \in Nat /\ y \in Nat /\ y < rows
  BY <1>0
<1> DEFINE n == rows'
           k == Restored(n)
           b == grid.back - k
           kept == SubSeq(grid.cells, 1, b)
           old == SubSeq(grid.cells, b + 1, Len(grid.cells))
           shown == Fitted(old, n)
<1>1. n \in Nat /\ n > rows
  BY DEF Resize
<1>2. /\ grid' = [grid EXCEPT !.cells = kept \o shown, !.back = b,
                              !.pending = Lesser(grid.pending, b)]
      /\ y' = Lesser(y + k, n - 1)
  BY DEF Resize, ResizedY
<1>3. k \in Nat /\ k <= grid.back /\ k <= n - rows
  <2> HIDE DEF n
  <2>1. CASE alt \/ n <= rows
    BY <1>q, <1>1, <2>1 DEF Restored
  <2>2. CASE ~(alt \/ n <= rows)
    BY <1>q, <1>1, <2>2 DEF Restored, Lesser
  <2> QED BY <2>1, <2>2
<1> HIDE DEF k, n
<1>4. b \in Nat /\ b <= grid.back
  BY <1>q, <1>3
<1>5. y' = y + k /\ y + k + 1 \in 1 .. n /\ y + k + 1 <= k + rows
  BY <1>q, <1>1, <1>2, <1>3 DEF Lesser
<1>6. /\ old \in Seq(Line) /\ Len(old) = k + rows
      /\ \A i \in 1 .. k + rows : old[i] = grid.cells[b + 1 + i - 1]
  <2>1. \A i \in b + 1 .. Len(grid.cells) : grid.cells[i] \in Line
    BY <1>0, <1>3
  <2>2. /\ old \in Seq(Line)
        /\ Len(old) = IF b + 1 <= Len(grid.cells) THEN Len(grid.cells) - (b + 1) + 1 ELSE 0
        /\ \A i \in 1 .. Len(grid.cells) - (b + 1) + 1 : old[i] = grid.cells[b + 1 + i - 1]
    <3> HIDE DEF b
    <3> QED BY <1>0, <1>4, <2>1, SubSeqProperties, SMTT(60)
  <2>3. Len(grid.cells) - (b + 1) + 1 = k + rows /\ b + 1 <= Len(grid.cells)
    BY <1>0, <1>3
  <2> HIDE DEF old, b
  <2> QED BY <2>2, <2>3
<1>7. kept \in Seq(Line) /\ Len(kept) = b
  <2>1. \A i \in 1 .. b : grid.cells[i] \in Line
    BY <1>0, <1>3
  <2> HIDE DEF b
  <2>2. /\ kept \in Seq(Line)
        /\ Len(kept) = IF 1 <= b THEN b - 1 + 1 ELSE 0
    BY <1>4, <2>1, SubSeqProperties
  <2> HIDE DEF kept
  <2> QED BY <1>4, <2>2
<1> HIDE DEF kept, old
<1>8. /\ shown \in Seq(Line) /\ Len(shown) = n
      /\ shown[y + k + 1] = old[y + k + 1]
  <2>1. shown \in Seq(Line) /\ Len(shown) = n
    BY <1>1, <1>6, FittedType
  <2> QED BY <1>5, <1>6, <2>1 DEF Fitted
<1> HIDE DEF shown
<1>9. /\ Len(kept \o shown) = b + n
      /\ (kept \o shown)[b + (y + k + 1)] = shown[y + k + 1]
      /\ \A i \in 1 .. b + n : (kept \o shown)[i] \in Line
  <2>1. /\ kept \o shown \in Seq(Line)
        /\ Len(kept \o shown) = Len(kept) + Len(shown)
        /\ \A i \in 1 .. Len(kept) + Len(shown) :
             (kept \o shown)[i] = IF i <= Len(kept) THEN kept[i] ELSE shown[i - Len(kept)]
    BY <1>7, <1>8, ConcatProperties
  <2>2. /\ b + (y + k + 1) \in 1 .. b + n /\ ~(b + (y + k + 1) <= b)
        /\ b + (y + k + 1) - b = y + k + 1
    BY <1>q, <1>1, <1>3, <1>4, <1>5
  <2>3. Len(kept \o shown) = b + n
    BY <1>7, <1>8, <2>1
  <2> DEFINE all == kept \o shown
  <2>4. all \in [1 .. Len(all) -> Line]
    BY <2>1, LenProperties
  <2>5. (kept \o shown)[b + (y + k + 1)] = shown[y + k + 1]
    <3> DEFINE j == b + (y + k + 1)
    <3> HIDE DEF b
    <3>1. j \in 1 .. Len(kept) + Len(shown) /\ ~(j <= Len(kept)) /\ j - Len(kept) = y + k + 1
      BY <1>q, <1>1, <1>3, <1>4, <1>7, <1>8, <2>2
    <3> HIDE DEF j
    <3>2. (kept \o shown)[j] = shown[j - Len(kept)]
      BY <2>1, <3>1
    <3> QED BY <3>1, <3>2 DEF j
  <2> HIDE DEF b
  <2> QED BY <2>3, <2>4, <2>5
<1>10. Visible'[y' + 1] = (kept \o shown)[b + (y + k + 1)]
  <2> DEFINE all == kept \o shown
             w == SubSeq(all, b + 1, b + n)
  <2>1. Visible' = w
    BY <1>0, <1>2, <1>9 DEF Visible
  <2>2. \A i \in b + 1 .. b + n : all[i] \in Line
    BY <1>4, <1>9
  <2>3. \A i \in 1 .. (b + n) - (b + 1) + 1 : w[i] = all[b + 1 + i - 1]
    <3> HIDE DEF b, all
    <3> QED BY <1>1, <1>4, <2>2, SubSeqProperties
  <2>4. /\ y + k + 1 \in 1 .. (b + n) - (b + 1) + 1
        /\ b + 1 + (y + k + 1) - 1 = b + (y + k + 1)
    BY <1>q, <1>1, <1>3, <1>4, <1>5
  <2> HIDE DEF w, all, b
  <2> QED BY <1>5, <2>1, <2>3, <2>4 DEF all
<1>11. Visible[y + 1] = grid.cells[grid.back + 1 + (y + 1) - 1]
  <2>1. \A i \in grid.back + 1 .. Len(grid.cells) : grid.cells[i] \in Line
    BY <1>0
  <2>2. y + 1 \in 1 .. Len(grid.cells) - (grid.back + 1) + 1
    BY <1>0
  <2>3. grid.back + 1 \in Int /\ Len(grid.cells) \in Int
    BY <1>0
  <2> QED BY <2>1, <2>2, <2>3, SubSeqProperties DEF Visible
<1>12. grid.back + 1 + (y + 1) - 1 = b + 1 + (y + k + 1) - 1
  BY <1>q, <1>3
<1>13. old[y + k + 1] = grid.cells[b + 1 + (y + k + 1) - 1]
  <2>1. y + k + 1 \in 1 .. k + rows
    BY <1>q, <1>3
  <2> HIDE DEF b
  <2> QED BY <1>6, <2>1
<1> QED BY <1>8, <1>9, <1>10, <1>11, <1>12, <1>13

\* Whenever the window grows the cursor stays on its line, whatever comes back
\* from the scrollback.
THEOREM CursorCorrect == Spec => CursorKeepsLine
<1>1. ASSUME Inv, [Next]_vars, rows' > rows
      PROVE  Visible'[y' + 1] = Visible[y + 1]
  <2>1. rows \in Nat
    BY <1>1, GoodGrid DEF Inv
  <2>2. rows' # rows
    BY <1>1, <2>1
  <2>3. Resize
    BY <1>1, <2>2 DEF Next, vars, LineFeed, ReverseIndex, ScrollUpN, ScrollDownN,
       DeleteLines, InsertLines, PrintLine, Erase, EraseScrollback, MoveCursor,
       SetRegion, Align, EnterAlt, ExitAlt, Reset, TakePending
  <2> QED BY <1>1, <2>3, CursorResize
<1>2. Inv /\ [Next]_vars => [rows' > rows => Visible'[y' + 1] = Visible[y + 1]]_vars
  BY <1>1
<1> QED BY <1>2, InvInit, Inductive, PTL DEF Spec, CursorKeepsLine

-----------------------------------------------------------------------------
(* Where the lines are.                                                       *)

\* Buffer c and saved rows s hold lines up to w, none of them twice.
Apart(c, s, w) ==
  /\ \A i \in 1 .. Len(c) : c[i] <= w
  /\ \A i \in 1 .. Len(s) : s[i] <= w
  /\ \A i, j \in 1 .. Len(c) : i # j /\ c[i] = c[j] => c[i] = Blank
  /\ \A i, j \in 1 .. Len(s) : i # j /\ s[i] = s[j] => s[i] = Blank
  /\ \A i \in 1 .. Len(c), j \in 1 .. Len(s) : c[i] = s[j] => c[i] = Blank

\* Row i of new is blank or row f[i] of old, and no row of old is used twice.
Picks(new, old, f) ==
  /\ \A i \in 1 .. Len(new) : new[i] = Blank \/ (f[i] \in 1 .. Len(old) /\ new[i] = old[f[i]])
  /\ \A i, j \in 1 .. Len(new) : i # j /\ f[i] = f[j] => new[i] = Blank \/ new[j] = Blank

\* The inductive invariant.
LinesInv == Inv /\ Apart(grid.cells, saved.cells, written)

\* A choice of rows keeps them apart.
LEMMA Picked ==
  ASSUME NEW c, NEW s, NEW w \in Nat, NEW new, NEW f, Apart(c, s, w), Picks(new, c, f)
  PROVE  Apart(new, s, w)
<1>1. ASSUME NEW i \in 1 .. Len(new) PROVE new[i] <= w
  BY <1>1 DEF Apart, Picks, Blank
<1>2. ASSUME NEW i \in 1 .. Len(new), NEW j \in 1 .. Len(new), i # j, new[i] = new[j],
             new[i] # Blank
      PROVE  FALSE
  <2>1. /\ f[i] \in 1 .. Len(c) /\ new[i] = c[f[i]]
        /\ f[j] \in 1 .. Len(c) /\ new[j] = c[f[j]]
    BY <1>2 DEF Picks
  <2>2. f[i] # f[j]
    BY <1>2 DEF Picks
  <2> QED BY <1>2, <2>1, <2>2 DEF Apart
<1>3. ASSUME NEW i \in 1 .. Len(new), NEW j \in 1 .. Len(s), new[i] = s[j], new[i] # Blank
      PROVE  FALSE
  <2>1. f[i] \in 1 .. Len(c) /\ new[i] = c[f[i]]
    BY <1>3 DEF Picks
  <2> QED BY <1>3, <2>1 DEF Apart
<1>4. /\ \A i \in 1 .. Len(s) : s[i] <= w
      /\ \A i, j \in 1 .. Len(s) : i # j /\ s[i] = s[j] => s[i] = Blank
  BY DEF Apart
<1> QED BY <1>1, <1>2, <1>3, <1>4 DEF Apart

\* Rows that stay where they are or go blank.
LEMMA Thinned ==
  ASSUME NEW c, NEW s, NEW w \in Nat, NEW new, Apart(c, s, w), Len(new) \in Nat,
         \A i \in 1 .. Len(new) : new[i] = Blank \/ (i \in 1 .. Len(c) /\ new[i] = c[i])
  PROVE  Apart(new, s, w)
<1> DEFINE f == [i \in 1 .. Len(new) |-> i]
<1>1. \A i \in 1 .. Len(new) : f[i] = i
  OBVIOUS
<1> HIDE DEF f
<1>2. Picks(new, c, f)
  BY <1>1 DEF Picks
<1> QED BY <1>2, Picked

\* Without the saved rows the buffer still holds no line twice.
LEMMA Forgotten ==
  ASSUME NEW c, NEW s, NEW w, Apart(c, s, w)
  PROVE  Apart(c, <<>>, w)
<1>1. Len(<<>>) = 0 /\ 1 .. 0 = {}
  OBVIOUS
<1> QED BY <1>1 DEF Apart

\* Buffer and saved rows as one sequence hold no line twice.
LEMMA Joined ==
  ASSUME NEW c \in Seq(Line), NEW s \in Seq(Line), NEW w, Apart(c, s, w)
  PROVE  Apart(c \o s, <<>>, w)
<1>1. /\ Len(c) \in Nat /\ Len(s) \in Nat
      /\ Len(c \o s) = Len(c) + Len(s)
      /\ \A i \in 1 .. Len(c) + Len(s) :
           (c \o s)[i] = IF i <= Len(c) THEN c[i] ELSE s[i - Len(c)]
  BY ConcatProperties, LenProperties
<1> DEFINE all == c \o s
<1> HIDE DEF all
<1>2. \A i \in 1 .. Len(all) : \/ i \in 1 .. Len(c) /\ all[i] = c[i]
                               \/ i - Len(c) \in 1 .. Len(s) /\ all[i] = s[i - Len(c)]
  BY <1>1 DEF all
<1>3. \A i \in 1 .. Len(all) : all[i] <= w
  BY <1>2 DEF Apart
<1>4. ASSUME NEW i \in 1 .. Len(all), NEW j \in 1 .. Len(all), i # j, all[i] = all[j]
      PROVE  all[i] = Blank
  <2>1. CASE i \in 1 .. Len(c) /\ all[i] = c[i]
    BY <1>2, <1>4, <2>1 DEF Apart
  <2>2. CASE i - Len(c) \in 1 .. Len(s) /\ all[i] = s[i - Len(c)]
    <3>1. CASE j \in 1 .. Len(c) /\ all[j] = c[j]
      BY <1>4, <2>2, <3>1 DEF Apart
    <3>2. CASE j - Len(c) \in 1 .. Len(s) /\ all[j] = s[j - Len(c)]
      <4>1. i - Len(c) # j - Len(c)
        BY <1>1, <1>4
      <4> QED BY <1>4, <2>2, <3>2, <4>1 DEF Apart
    <3> QED BY <1>2, <3>1, <3>2
  <2> QED BY <1>2, <2>1, <2>2
<1>5. Len(<<>>) = 0 /\ 1 .. 0 = {}
  OBVIOUS
<1> QED BY <1>3, <1>4, <1>5 DEF Apart, all

\* Moving rows within lo..hi uses each row once.
LEMMA MovesApart ==
  ASSUME Inv, NEW s, NEW w \in Nat, Apart(grid.cells, s, w),
         NEW lo \in Nat, NEW hi \in Nat, NEW n \in Nat,
         lo > grid.back, hi <= grid.back + rows
  PROVE  /\ Apart(MovedUp(grid.cells, lo, hi, n), s, w)
         /\ Apart(MovedDown(grid.cells, lo, hi, n), s, w)
<1> DEFINE N == grid.back + rows
           up == MovedUp(grid.cells, lo, hi, n)
           down == MovedDown(grid.cells, lo, hi, n)
           f == [i \in 1 .. N |-> IF i \notin lo .. hi THEN i ELSE i + n]
           g == [i \in 1 .. N |-> IF i \notin lo .. hi THEN i ELSE i - n]
<1>1. Len(grid.cells) = N /\ N \in Nat /\ grid.back \in Nat
  BY GoodGrid DEF Inv
<1>2. Len(up) = N /\ Len(down) = N
  <2>1. up \in [1 .. N -> Line] /\ down \in [1 .. N -> Line]
    BY MovesType
  <2> HIDE DEF up, down, N
  <2> QED BY <1>1, <2>1, Rebuilt
<1>3. \A i \in 1 .. N : /\ f[i] = IF i \notin lo .. hi THEN i ELSE i + n
                        /\ g[i] = IF i \notin lo .. hi THEN i ELSE i - n
  OBVIOUS
<1>4. \A i \in 1 .. N :
        /\ up[i] = IF i \notin lo .. hi THEN grid.cells[i]
                   ELSE IF i + n <= hi THEN grid.cells[i + n] ELSE Blank
        /\ down[i] = IF i \notin lo .. hi THEN grid.cells[i]
                     ELSE IF i - n >= lo THEN grid.cells[i - n] ELSE Blank
  BY <1>1 DEF MovedUp, MovedDown
<1>5. lo > 0 /\ hi <= N
  BY <1>1
<1> HIDE DEF f, g, up, down, N
<1>6. Picks(up, grid.cells, f)
  BY <1>1, <1>2, <1>3, <1>4, <1>5 DEF Picks
<1>7. Picks(down, grid.cells, g)
  BY <1>1, <1>2, <1>3, <1>4, <1>5 DEF Picks
<1> QED BY <1>6, <1>7, Picked DEF up, down

\* Grid::scroll_up uses each row once, also when it drops the oldest lines.
LEMMA ScrolledUpApart ==
  ASSUME Inv, NEW s, NEW w \in Nat, Apart(grid.cells, s, w), NEW n \in Nat
  PROVE  Apart(ScrolledUp(n).cells, s, w)
<1>0. /\ Len(grid.cells) = grid.back + rows /\ grid.back \in Nat /\ rows \in Nat
      /\ top \in Nat /\ bottom \in Nat /\ bottom < rows /\ grid.limit \in Nat
      /\ grid \in [cells : Seq(Line), back : Nat, pending : Nat, limit : Nat]
  BY GoodGrid DEF Inv, Good
<1>1. CASE Captures
  <2> DEFINE d == Greater(grid.back + n - grid.limit, 0)
             N == grid.back + rows
             new == Captured(n, d)
             last == grid.back + bottom + 1
             f == [i \in 1 .. N + n - d |-> IF i + d <= last THEN i + d ELSE i + d - n]
  <2>1. d \in Nat /\ N \in Nat /\ last \in Nat /\ last <= N
    BY <1>0 DEF Greater
  <2>2. new = ScrolledUp(n).cells
    BY <1>0, <1>1 DEF ScrolledUp
  <2>3. \A i \in 1 .. N + n - d : f[i] = IF i + d <= last THEN i + d ELSE i + d - n
    OBVIOUS
  <2>4. \A i \in 1 .. N + n - d :
          new[i] = IF i + d <= last THEN grid.cells[i + d]
                   ELSE IF i + d <= last + n THEN Blank ELSE grid.cells[i + d - n]
    BY <1>0 DEF Captured
  <2>5. Len(new) = N + n - d
    <3>1. Good(ScrolledUp(n), rows)
      BY ScrolledUpGood DEF Inv
    <3>2. Len(ScrolledUp(n).cells) = ScrolledUp(n).back + rows
      BY <3>1 DEF Good
    <3>3. ScrolledUp(n).back = grid.back + n - d
      BY <1>0, <1>1 DEF ScrolledUp
    <3> HIDE DEF d, new
    <3> QED BY <1>0, <2>1, <2>2, <3>2, <3>3
  <2> HIDE DEF d, N, new, last, f
  <2>6. Len(grid.cells) = N
    BY <1>0 DEF N
  <2>7. ASSUME NEW i \in 1 .. Len(new)
        PROVE  new[i] = Blank \/ (f[i] \in 1 .. Len(grid.cells) /\ new[i] = grid.cells[f[i]])
    <3>1. CASE i + d <= last
      <4>1. i + d \in 1 .. N
        BY <2>1, <2>5, <3>1
      <4> QED BY <2>3, <2>4, <2>5, <2>6, <3>1, <4>1
    <3>2. CASE ~(i + d <= last) /\ i + d <= last + n
      BY <2>4, <2>5, <3>2
    <3>3. CASE ~(i + d <= last) /\ ~(i + d <= last + n)
      <4>1. i + d - n \in 1 .. N
        BY <2>1, <2>5, <3>3
      <4> QED BY <2>3, <2>4, <2>5, <2>6, <3>3, <4>1
    <3> QED BY <3>1, <3>2, <3>3
  <2>8. ASSUME NEW i \in 1 .. Len(new), NEW j \in 1 .. Len(new), i # j, f[i] = f[j]
        PROVE  new[i] = Blank \/ new[j] = Blank
    BY <2>1, <2>3, <2>4, <2>5, <2>8, SMTT(60)
  <2>9. Picks(new, grid.cells, f)
    BY <2>7, <2>8 DEF Picks
  <2> QED BY <2>2, <2>9, Picked
<1>2. CASE ~Captures
  <2>1. ScrolledUp(n).cells = MovedUp(grid.cells, grid.back + top + 1, grid.back + bottom + 1, n)
    BY <1>0, <1>2 DEF ScrolledUp
  <2>2. /\ grid.back + top + 1 \in Nat /\ grid.back + top + 1 > grid.back
        /\ grid.back + bottom + 1 \in Nat /\ grid.back + bottom + 1 <= grid.back + rows
    BY <1>0
  <2> QED BY <2>1, <2>2, MovesApart
<1> QED BY <1>1, <1>2

\* A line that is newer than all others can take any row.
LEMMA PutApart ==
  ASSUME NEW c, NEW s, NEW w \in Nat, Apart(c, s, w), NEW h \in Nat, Len(c) = h,
         NEW new, Len(new) = h, NEW r \in 1 .. h, c \in [1 .. h -> Line],
         s \in Seq(Line), new = [c EXCEPT ![r] = w + 1]
  PROVE  Apart(new, s, w + 1)
<1>1. Len(s) \in Nat /\ s \in [1 .. Len(s) -> Line]
  BY LenProperties
<1>2. \A i \in 1 .. h : c[i] \in Nat /\ c[i] <= w
  BY DEF Apart, Line
<1>3. \A i \in 1 .. Len(s) : s[i] \in Nat /\ s[i] <= w
  BY <1>1 DEF Apart, Line
<1>4. \A i \in 1 .. h : new[i] = IF i = r THEN w + 1 ELSE c[i]
  OBVIOUS
<1>5. \A i \in 1 .. Len(new) : new[i] <= w + 1
  BY <1>2, <1>4
<1>6. \A i \in 1 .. Len(s) : s[i] <= w + 1
  BY <1>3
<1>7. ASSUME NEW i \in 1 .. Len(new), NEW j \in 1 .. Len(new), i # j, new[i] = new[j]
      PROVE  new[i] = Blank
  <2>1. i # r /\ j # r
    BY <1>2, <1>4, <1>7
  <2>2. c[i] = c[j] /\ new[i] = c[i]
    BY <1>4, <1>7, <2>1
  <2> QED BY <1>7, <2>2 DEF Apart
<1>8. ASSUME NEW i \in 1 .. Len(new), NEW j \in 1 .. Len(s), new[i] = s[j]
      PROVE  new[i] = Blank
  <2>1. i # r /\ new[i] = c[i]
    BY <1>3, <1>4, <1>8
  <2> QED BY <1>8, <2>1 DEF Apart
<1> QED BY <1>5, <1>6, <1>7, <1>8 DEF Apart

\* Erasing rows brings no line back (erase_in_display, erase_in_line).
LEMMA ErasedApart ==
  ASSUME Inv, NEW s, NEW w \in Nat, Apart(grid.cells, s, w), NEW S
  PROVE  Apart(Erased(S).cells, s, w)
<1>1. /\ Len(grid.cells) = grid.back + rows /\ grid.back \in Nat /\ rows \in Nat
      /\ grid \in [cells : Seq(Line), back : Nat, pending : Nat, limit : Nat]
      /\ grid.cells \in [1 .. grid.back + rows -> Line] /\ Blank \in Line
  BY GoodGrid DEF Inv, Good
<1> DEFINE N == grid.back + rows
           new == [i \in 1 .. N |-> IF i - grid.back - 1 \in S THEN Blank ELSE grid.cells[i]]
<1>2. Erased(S).cells = new
  BY <1>1 DEF Erased
<1>3. new \in [1 .. N -> Line] /\ N \in Nat
  BY <1>1
<1>4. \A i \in 1 .. N : new[i] = Blank \/ new[i] = grid.cells[i]
  OBVIOUS
<1> HIDE DEF new, N
<1>5. Len(new) = N
  BY <1>3, Rebuilt
<1>6. Len(grid.cells) = N
  BY <1>1 DEF N
<1>7. \A i \in 1 .. Len(new) : new[i] = Blank \/ (i \in 1 .. Len(grid.cells) /\ new[i] = grid.cells[i])
  BY <1>4, <1>5, <1>6
<1> QED BY <1>2, <1>3, <1>5, <1>7, Thinned

\* Dropping the scrollback keeps the visible rows (clear_scrollback).
LEMMA EmptiedApart ==
  ASSUME NEW g, NEW h \in Nat, Good(g, h), NEW s, NEW w \in Nat, Apart(g.cells, s, w)
  PROVE  Apart(NoScrollback(g).cells, s, w)
<1>1. /\ g.back \in Nat /\ Len(g.cells) = g.back + h
      /\ g.cells \in [1 .. g.back + h -> Line]
      /\ g \in [cells : Seq(Line), back : Nat, pending : Nat, limit : Nat]
  BY GoodFields DEF Good
<1> DEFINE new == SubSeq(g.cells, g.back + 1, Len(g.cells))
           f == [i \in 1 .. h |-> g.back + i]
<1>2. NoScrollback(g).cells = new
  BY <1>1 DEF NoScrollback
<1>3. Len(new) = h /\ \A i \in 1 .. h : new[i] = g.cells[g.back + i]
  <2>1. \A i \in g.back + 1 .. Len(g.cells) : g.cells[i] \in Line
    BY <1>1
  <2>2. g.back + 1 \in Int /\ Len(g.cells) \in Int
    BY <1>1
  <2>3. /\ Len(new) = IF g.back + 1 <= Len(g.cells) THEN Len(g.cells) - (g.back + 1) + 1 ELSE 0
        /\ \A i \in 1 .. Len(g.cells) - (g.back + 1) + 1 : new[i] = g.cells[g.back + 1 + i - 1]
    BY <2>1, <2>2, SubSeqProperties
  <2>4. Len(g.cells) - (g.back + 1) + 1 = h /\ (g.back + 1 <= Len(g.cells) <=> h # 0)
    BY <1>1
  <2>5. \A i \in 1 .. h : g.back + 1 + i - 1 = g.back + i
    BY <1>1
  <2> HIDE DEF new
  <2> QED BY <1>1, <2>3, <2>4, <2>5
<1>4. \A i \in 1 .. h : f[i] = g.back + i
  OBVIOUS
<1> HIDE DEF new, f
<1>5. Picks(new, g.cells, f)
  <2>1. \A i \in 1 .. h : g.back + i \in 1 .. Len(g.cells)
    BY <1>1
  <2>2. \A i, j \in 1 .. h : g.back + i = g.back + j => i = j
    BY <1>1
  <2> QED BY <1>3, <1>4, <2>1, <2>2 DEF Picks
<1> QED BY <1>2, <1>5, Picked

\* What LinesInv says of the lines, in one place.
LEMMA LinesFacts ==
  ASSUME LinesInv
  PROVE  /\ Inv /\ Apart(grid.cells, saved.cells, written)
         /\ written \in Nat /\ Blank <= written /\ saved.cells \in Seq(Line)
         /\ grid.cells \in Seq(Line)
         /\ Nothing.cells = <<>>
BY DEF LinesInv, Inv, GridInv, Line, Blank, Nothing

\* Every line operation keeps the lines apart.
LEMMA LineApart ==
  ASSUME LinesInv, LineFeed \/ ReverseIndex \/ ScrollUpN \/ ScrollDownN
  PROVE  Apart(grid'.cells, saved'.cells, written')
<1>0. /\ Inv /\ Apart(grid.cells, saved.cells, written) /\ written \in Nat
      /\ grid.back \in Nat /\ rows \in Nat
      /\ top \in Nat /\ bottom \in Nat /\ bottom < rows
      /\ grid \in [cells : Seq(Line), back : Nat, pending : Nat, limit : Nat]
  BY LinesFacts, GoodGrid DEF Inv, Good
<1>u. ASSUME NEW n \in Nat
      PROVE  Apart(ScrolledUp(n).cells, saved.cells, written)
  BY <1>0, ScrolledUpApart
<1>d. ASSUME NEW n \in Nat
      PROVE  Apart(ScrolledDown(n).cells, saved.cells, written)
  <2>1. ScrolledDown(n).cells
          = MovedDown(grid.cells, grid.back + top + 1, grid.back + bottom + 1, n)
    BY <1>0 DEF ScrolledDown
  <2>2. /\ grid.back + top + 1 \in Nat /\ grid.back + top + 1 > grid.back
        /\ grid.back + bottom + 1 \in Nat /\ grid.back + bottom + 1 <= grid.back + rows
    BY <1>0
  <2> QED BY <1>0, <2>1, <2>2, MovesApart
<1>1. CASE LineFeed
  BY <1>0, <1>1, <1>u, Feed DEF LineFeed, ScrollUp
<1>2. CASE ReverseIndex
  <2>1. (IF y = top THEN 1 ELSE 0) \in Nat
    OBVIOUS
  <2> QED BY <1>2, <1>d, <2>1 DEF ReverseIndex
<1>3. CASE ScrollUpN
  BY <1>0, <1>3, <1>u DEF ScrollUpN, ScrollUp
<1>4. CASE ScrollDownN
  BY <1>0, <1>4, <1>d DEF ScrollDownN
<1> QED BY <1>1, <1>2, <1>3, <1>4

\* Inserting and deleting lines keep the lines apart.
LEMMA EditApart ==
  ASSUME LinesInv, DeleteLines \/ InsertLines
  PROVE  Apart(grid'.cells, saved'.cells, written')
<1>0. /\ Inv /\ Apart(grid.cells, saved.cells, written) /\ written \in Nat
      /\ grid.back \in Nat /\ rows \in Nat /\ y \in Nat /\ y < rows
      /\ bottom \in Nat /\ bottom < rows
      /\ grid \in [cells : Seq(Line), back : Nat, pending : Nat, limit : Nat]
  BY LinesFacts, GoodGrid DEF Inv, Good
<1>1. /\ grid.back + y + 1 \in Nat /\ grid.back + y + 1 > grid.back
      /\ grid.back + bottom + 1 \in Nat /\ grid.back + bottom + 1 <= grid.back + rows
  BY <1>0
<1>2. PICK n \in 1 .. bottom - y + 1 :
        \/ grid' = [grid EXCEPT !.cells =
                      MovedUp(grid.cells, grid.back + y + 1, grid.back + bottom + 1, n)]
        \/ grid' = [grid EXCEPT !.cells =
                      MovedDown(grid.cells, grid.back + y + 1, grid.back + bottom + 1, n)]
  BY DEF DeleteLines, InsertLines
<1>3. n \in Nat
  BY <1>0
<1>4. \/ grid'.cells = MovedUp(grid.cells, grid.back + y + 1, grid.back + bottom + 1, n)
      \/ grid'.cells = MovedDown(grid.cells, grid.back + y + 1, grid.back + bottom + 1, n)
  BY <1>0, <1>2
<1>5. saved' = saved /\ written' = written
  BY DEF DeleteLines, InsertLines
<1> QED BY <1>0, <1>1, <1>3, <1>4, <1>5, MovesApart

\* A printed line is new, on whatever row it goes.
LEMMA PrintApart ==
  ASSUME LinesInv, PrintLine
  PROVE  Apart(grid'.cells, saved'.cells, written')
<1>0. /\ Inv /\ Apart(grid.cells, saved.cells, written) /\ written \in Nat
      /\ rows \in Nat /\ y \in 0 .. rows - 1 /\ Good(grid, rows) /\ saved.cells \in Seq(Line)
      /\ grid.cells \in Seq(Line)
  BY LinesFacts, GoodGrid DEF Inv, GridInv
<1>1. written' = written + 1 /\ saved' = saved
  BY DEF PrintLine
<1>2. ASSUME NEW g, Good(g, rows), Apart(g.cells, saved.cells, written),
             grid' = Put(g, y', written'), y' \in 0 .. rows - 1
      PROVE  Apart(grid'.cells, saved'.cells, written')
  <2> DEFINE h == g.back + rows
             r == g.back + y' + 1
             new == [g.cells EXCEPT ![r] = written + 1]
  <2>1. /\ g.back \in Nat /\ g.cells \in [1 .. h -> Line] /\ Len(g.cells) = h
        /\ g \in [cells : Seq(Line), back : Nat, pending : Nat, limit : Nat]
    BY <1>0, <1>2, GoodFields DEF Good
  <2>2. h \in Nat /\ r \in 1 .. h
    BY <1>0, <1>2, <2>1
  <2>3. grid'.cells = new
    BY <1>1, <1>2, <2>1 DEF Put
  <2>4. Len(new) = h
    <3>1. written + 1 \in Line
      BY <1>0 DEF PrintLine, Line
    <3>2. new \in [1 .. h -> Line]
      BY <2>1, <3>1
    <3> HIDE DEF new, h
    <3> QED BY <2>2, <3>2, Rebuilt
  <2> HIDE DEF h, r
  <2> QED BY <1>0, <1>1, <1>2, <2>1, <2>2, <2>3, <2>4, PutApart
<1>3. PICK wrap \in BOOLEAN :
        LET n == IF wrap THEN Feeds ELSE 0 IN
        /\ y' = IF wrap THEN FedY ELSE y
        /\ grid' = Put(IF n = 0 THEN grid ELSE ScrolledUp(1), y', written')
  BY DEF PrintLine
<1>4. y' \in 0 .. rows - 1
  BY <1>0, <1>3, Feed
<1>5. Good(ScrolledUp(1), rows) /\ Apart(ScrolledUp(1).cells, saved.cells, written)
  BY <1>0, ScrolledUpGood, ScrolledUpApart DEF Inv
<1> QED BY <1>0, <1>2, <1>3, <1>4, <1>5

\* So do erasures, DECALN, the cursor, the region, the take and RIS.
LEMMA CursorApart ==
  ASSUME LinesInv,
         Erase \/ Align \/ MoveCursor \/ SetRegion \/ EraseScrollback \/ TakePending \/ Reset
  PROVE  Apart(grid'.cells, saved'.cells, written')
<1>0. /\ Inv /\ Apart(grid.cells, saved.cells, written) /\ written \in Nat
      /\ rows \in Nat /\ Good(grid, rows)
      /\ grid \in [cells : Seq(Line), back : Nat, pending : Nat, limit : Nat]
  BY LinesFacts, GoodGrid DEF Inv, Good
<1>1. \A S : Apart(Erased(S).cells, saved.cells, written)
  BY <1>0, ErasedApart
<1>2. CASE Erase
  BY <1>1, <1>2 DEF Erase
<1>3. CASE Align
  BY <1>1, <1>3 DEF Align
<1>4. CASE MoveCursor \/ SetRegion
  BY <1>0, <1>4 DEF MoveCursor, SetRegion
<1>5. CASE EraseScrollback
  BY <1>0, <1>5, EmptiedApart DEF EraseScrollback
<1>6. CASE TakePending
  BY <1>0, <1>6 DEF TakePending
<1>7. CASE Reset
  <2> DEFINE e == Erased(0 .. rows - 1)
             g == [e EXCEPT !.limit = ResetLimit]
  <2>1. Good(e, rows) /\ Apart(e.cells, saved.cells, written)
    BY <1>0, <1>1, ErasedStep
  <2>2. ResetLimit \in Nat
    BY <1>0 DEF ResetLimit, Inv, GridInv
  <2> HIDE DEF e
  <2>3. Good(g, rows) /\ g.cells = e.cells
    BY <2>1, <2>2 DEF Good
  <2> HIDE DEF g
  <2>4. Apart(NoScrollback(g).cells, saved.cells, written)
    BY <1>0, <2>1, <2>3, EmptiedApart
  <2>5. grid' = NoScrollback(g) /\ saved' = Nothing /\ written' = written
    BY <1>7 DEF Reset, g, e
  <2> QED BY <2>4, <2>5, Forgotten, LinesFacts
<1> QED BY <1>2, <1>3, <1>4, <1>5, <1>6, <1>7

\* The scrollback in front of other rows.
LEMMA Fronted ==
  ASSUME Inv, NEW t \in Seq(Line)
  PROVE  /\ Scrollback \o t \in Seq(Line)
         /\ Len(Scrollback \o t) = grid.back + Len(t)
         /\ Len(t) \in Nat /\ grid.back \in Nat
         /\ \A i \in 1 .. grid.back + Len(t) :
              (Scrollback \o t)[i] = IF i <= grid.back THEN grid.cells[i] ELSE t[i - grid.back]
<1>1. /\ grid.back \in Nat /\ rows \in Nat
      /\ grid.cells \in [1 .. grid.back + rows -> Line]
  BY GoodGrid DEF Inv
<1>2. /\ Scrollback \in Seq(Line) /\ Len(Scrollback) = grid.back
      /\ \A i \in 1 .. grid.back : Scrollback[i] = grid.cells[i]
  <2>1. \A i \in 1 .. grid.back : grid.cells[i] \in Line
    <3> SUFFICES ASSUME NEW i \in 1 .. grid.back PROVE grid.cells[i] \in Line
      OBVIOUS
    <3>1. i \in 1 .. grid.back + rows
      BY <1>1
    <3> QED BY <1>1, <3>1
  <2>2. /\ Scrollback \in Seq(Line)
        /\ Len(Scrollback) = IF 1 <= grid.back THEN grid.back - 1 + 1 ELSE 0
        /\ \A i \in 1 .. grid.back - 1 + 1 : Scrollback[i] = grid.cells[1 + i - 1]
    BY <1>1, <2>1, SubSeqProperties DEF Scrollback
  <2> QED BY <1>1, <2>2
<1> HIDE DEF Scrollback
<1>3. Len(t) \in Nat
  BY LenProperties
<1>4. /\ Scrollback \o t \in Seq(Line)
      /\ Len(Scrollback \o t) = Len(Scrollback) + Len(t)
      /\ \A i \in 1 .. Len(Scrollback) + Len(t) :
           (Scrollback \o t)[i] = IF i <= Len(Scrollback) THEN Scrollback[i]
                                   ELSE t[i - Len(Scrollback)]
  BY <1>2, ConcatProperties
<1> QED BY <1>1, <1>2, <1>3, <1>4

\* The visible rows of a grid in shape.
LEMMA VisibleRows ==
  ASSUME Inv
  PROVE  /\ Visible \in Seq(Line) /\ Len(Visible) = rows
         /\ \A i \in 1 .. rows : Visible[i] = grid.cells[grid.back + i]
<1>1. /\ grid.back \in Nat /\ Len(grid.cells) = grid.back + rows /\ rows \in Nat
      /\ grid.cells \in [1 .. grid.back + rows -> Line]
  BY GoodGrid DEF Inv
<1>2. \A i \in grid.back + 1 .. Len(grid.cells) : grid.cells[i] \in Line
  BY <1>1
<1>3. grid.back + 1 \in Int /\ Len(grid.cells) \in Int
  BY <1>1
<1>4. /\ Visible \in Seq(Line)
      /\ Len(Visible) = IF grid.back + 1 <= Len(grid.cells)
                        THEN Len(grid.cells) - (grid.back + 1) + 1 ELSE 0
      /\ \A i \in 1 .. Len(grid.cells) - (grid.back + 1) + 1 :
           Visible[i] = grid.cells[grid.back + 1 + i - 1]
  BY <1>2, <1>3, SubSeqProperties DEF Visible
<1>5. /\ Len(grid.cells) - (grid.back + 1) + 1 = rows
      /\ grid.back + 1 <= Len(grid.cells) <=> rows # 0
  BY <1>1
<1>6. \A i \in 1 .. rows : grid.back + 1 + i - 1 = grid.back + i
  BY <1>1
<1> HIDE DEF Visible
<1> QED BY <1>1, <1>4, <1>5, <1>6

\* The alternate screen: the scrollback stays, the visible rows go to be saved.
LEMMA EnterAltApart ==
  ASSUME LinesInv, EnterAlt
  PROVE  Apart(grid'.cells, saved'.cells, written')
<1>0. /\ Inv /\ Apart(grid.cells, saved.cells, written) /\ written \in Nat /\ Blank <= written
      /\ rows \in Nat /\ grid.back \in Nat /\ Len(grid.cells) = grid.back + rows
      /\ grid \in [cells : Seq(Line), back : Nat, pending : Nat, limit : Nat]
  BY LinesFacts, GoodGrid DEF Inv, Good
<1> DEFINE t == BlankRows(rows)
           c == Scrollback \o t
           s == SavedRows
<1>1. /\ t \in Seq(Line) /\ Len(t) = rows /\ \A i \in 1 .. rows : t[i] = Blank
  <2>1. t \in [1 .. rows -> Line]
    BY DEF BlankRows, Blank, Line
  <2> QED BY <1>0, <2>1, Rebuilt DEF BlankRows
<1>2. grid'.cells = c /\ saved'.cells = s /\ written' = written
  BY <1>0 DEF EnterAlt
<1> HIDE DEF t
<1>3. /\ Len(c) = grid.back + rows
      /\ \A i \in 1 .. grid.back + rows : c[i] = IF i <= grid.back THEN grid.cells[i] ELSE Blank
  <2>1. \A i \in 1 .. grid.back + rows : ~(i <= grid.back) => i - grid.back \in 1 .. rows
    BY <1>0
  <2> QED BY <1>0, <1>1, <2>1, Fronted
<1>4. Len(s) = rows /\ \A i \in 1 .. rows : s[i] = grid.cells[grid.back + i]
  BY <1>0, VisibleRows DEF SavedRows
<1> HIDE DEF c, s
<1> DEFINE N == grid.back + rows
           old == grid.cells
<1>5. /\ \A i \in 1 .. N : old[i] <= written
      /\ \A i, j \in 1 .. N : i # j /\ old[i] = old[j] => old[i] = Blank
  BY <1>0 DEF Apart
<1>6. \A i \in 1 .. rows : grid.back + i \in 1 .. N
  BY <1>0
<1>7. Apart(c, s, written)
  <2> HIDE DEF old
  <2>c. \A i \in 1 .. N : c[i] = IF i <= grid.back THEN old[i] ELSE Blank
    BY <1>3 DEF old
  <2>s. \A i \in 1 .. rows : s[i] = old[grid.back + i]
    BY <1>4 DEF old
  <2>n. Len(c) = N
    BY <1>3
  <2> HIDE DEF N
  <2>1. \A i \in 1 .. Len(c) : c[i] <= written
    BY <1>0, <1>5, <2>c, <2>n
  <2>2. \A i \in 1 .. Len(s) : s[i] <= written
    BY <1>4, <1>5, <1>6, <2>s
  <2>3. \A i, j \in 1 .. Len(c) : i # j /\ c[i] = c[j] => c[i] = Blank
    BY <1>5, <2>c, <2>n
  <2>4. ASSUME NEW i \in 1 .. Len(s), NEW j \in 1 .. Len(s), i # j, s[i] = s[j]
        PROVE  s[i] = Blank
    <3>1. grid.back + i # grid.back + j
      BY <1>0, <1>4, <2>4
    <3> QED BY <1>4, <1>5, <1>6, <2>4, <2>s, <3>1
  <2>5. ASSUME NEW i \in 1 .. Len(c), NEW j \in 1 .. Len(s), c[i] = s[j]
        PROVE  c[i] = Blank
    <3>1. CASE i <= grid.back
      <4>1. i # grid.back + j
        BY <1>0, <1>4, <2>n, <3>1 DEF N
      <4> QED BY <1>4, <1>5, <1>6, <2>5, <2>c, <2>n, <2>s, <3>1, <4>1
    <3>2. CASE ~(i <= grid.back)
      BY <2>c, <2>n, <3>2
    <3> QED BY <3>1, <3>2
  <2> QED BY <2>1, <2>2, <2>3, <2>4, <2>5 DEF Apart
<1> QED BY <1>2, <1>7

\* Back on the main screen the saved rows follow the scrollback.
LEMMA ExitAltApart ==
  ASSUME LinesInv, ExitAlt
  PROVE  Apart(grid'.cells, saved'.cells, written')
<1>0. /\ Inv /\ Apart(grid.cells, saved.cells, written) /\ written \in Nat
      /\ rows \in Nat /\ grid.back \in Nat /\ Len(grid.cells) = grid.back + rows
      /\ grid \in [cells : Seq(Line), back : Nat, pending : Nat, limit : Nat]
      /\ saved.cells \in Seq(Line) /\ grid.cells \in Seq(Line)
      /\ Nothing.cells = <<>>
  BY LinesFacts, GoodGrid DEF Inv, Good
<1> DEFINE s == saved.cells
           t == Fitted(s, rows)
           c == Scrollback \o t
           all == grid.cells \o s
           N == grid.back + rows
           f == [i \in 1 .. N |-> IF i <= grid.back THEN i ELSE N + (i - grid.back)]
<1>1. /\ t \in Seq(Line) /\ Len(t) = rows
      /\ \A i \in 1 .. rows : t[i] = IF i <= Len(s) THEN s[i] ELSE Blank
  BY <1>0, FittedType DEF Fitted
<1>2. grid'.cells = c /\ saved'.cells = <<>> /\ written' = written
  BY <1>0 DEF ExitAlt
<1> HIDE DEF t
<1>3. /\ Len(c) = N
      /\ \A i \in 1 .. N : c[i] = IF i <= grid.back THEN grid.cells[i] ELSE t[i - grid.back]
  BY <1>0, <1>1, Fronted
<1>4. /\ Len(all) = N + Len(s) /\ Len(s) \in Nat
      /\ \A i \in 1 .. N + Len(s) : all[i] = IF i <= N THEN grid.cells[i] ELSE s[i - N]
  <2>1. Len(s) \in Nat
    BY <1>0, LenProperties
  <2>2. /\ Len(all) = Len(grid.cells) + Len(s)
        /\ \A i \in 1 .. Len(grid.cells) + Len(s) :
             all[i] = IF i <= Len(grid.cells) THEN grid.cells[i] ELSE s[i - Len(grid.cells)]
    <3>1. grid.cells \in Seq(Line) /\ s \in Seq(Line)
      BY <1>0
    <3> HIDE DEF s
    <3> QED BY <3>1, ConcatProperties
  <2> HIDE DEF all
  <2> QED BY <1>0, <2>1, <2>2
<1>5. Apart(all, <<>>, written)
  BY <1>0, Joined
<1>6. \A i \in 1 .. N : f[i] = IF i <= grid.back THEN i ELSE N + (i - grid.back)
  OBVIOUS
<1>7. N = grid.back + rows /\ N \in Nat
  BY <1>0
<1> HIDE DEF c, all, f, N, s
<1>8. ASSUME NEW i \in 1 .. Len(c)
      PROVE  c[i] = Blank \/ (f[i] \in 1 .. Len(all) /\ c[i] = all[f[i]])
  <2>1. CASE i <= grid.back
    <3>1. f[i] = i /\ i \in 1 .. N + Len(s) /\ i <= N
      BY <1>0, <1>3, <1>4, <1>6, <1>7, <2>1
    <3> QED BY <1>3, <1>4, <2>1, <3>1
  <2>2. CASE ~(i <= grid.back)
    <3>1. i - grid.back \in 1 .. rows /\ c[i] = t[i - grid.back]
      BY <1>0, <1>3, <1>7, <2>2
    <3>2. CASE i - grid.back <= Len(s)
      <4> DEFINE j == i - grid.back
      <4>1. f[i] = N + j
        BY <1>3, <1>6, <2>2
      <4>2. j \in 1 .. Len(s)
        BY <1>0, <1>4, <3>1, <3>2
      <4> HIDE DEF j
      <4> DEFINE q == N + j
      <4>3. q \in 1 .. N + Len(s) /\ ~(q <= N) /\ q - N = j
        BY <1>4, <1>7, <4>2
      <4> HIDE DEF q
      <4>4. all[q] = s[j]
        BY <1>4, <4>3
      <4>5. c[i] = s[j]
        BY <1>1, <3>1, <3>2 DEF j
      <4>6. f[i] = q /\ q \in 1 .. Len(all)
        BY <1>4, <4>1, <4>3 DEF q
      <4> QED BY <4>4, <4>5, <4>6
    <3>3. CASE ~(i - grid.back <= Len(s))
      BY <1>1, <3>1, <3>3
    <3> QED BY <3>2, <3>3
  <2> QED BY <2>1, <2>2
<1>9. ASSUME NEW i \in 1 .. Len(c), NEW j \in 1 .. Len(c), i # j
      PROVE  f[i] # f[j]
  <2>1. i \in 1 .. N /\ j \in 1 .. N /\ grid.back \in Nat
    BY <1>0, <1>3
  <2>2. /\ f[i] = IF i <= grid.back THEN i ELSE N + (i - grid.back)
        /\ f[j] = IF j <= grid.back THEN j ELSE N + (j - grid.back)
    BY <1>6, <2>1
  <2> QED BY <1>7, <1>9, <2>1, <2>2
<1>10. Picks(c, all, f)
  BY <1>8, <1>9 DEF Picks
<1> QED BY <1>0, <1>2, <1>5, <1>10, Picked

\* The buffer after a resize to n rows: rows stay, are cut off or are added.
LEMMA ResizedCells ==
  ASSUME Inv, Resize
  PROVE  LET k == Restored(rows')
             b == grid.back - k
         IN  /\ k \in Nat /\ b \in Nat /\ rows' \in Nat
             /\ grid'.back = b /\ Len(grid'.cells) = b + rows'
             /\ \A i \in 1 .. b + rows' :
                  grid'.cells[i] = IF i <= grid.back + rows THEN grid.cells[i] ELSE Blank
<1>0. /\ grid.back \in Nat /\ rows \in Nat /\ Len(grid.cells) = grid.back + rows
      /\ grid.cells \in [1 .. grid.back + rows -> Line]
      /\ grid \in [cells : Seq(Line), back : Nat, pending : Nat, limit : Nat]
  BY GoodGrid DEF Inv, Good
<1>q. grid.back \in Nat /\ rows \in Nat
  BY <1>0
<1> DEFINE n == rows'
           k == Restored(n)
           b == grid.back - k
           kept == SubSeq(grid.cells, 1, b)
           rest == SubSeq(grid.cells, b + 1, Len(grid.cells))
           shown == Fitted(rest, n)
<1>1. /\ n \in Nat
      /\ grid' = [grid EXCEPT !.cells = kept \o shown, !.back = b,
                              !.pending = Lesser(grid.pending, b)]
  BY DEF Resize
<1> HIDE DEF n
<1>2. k \in Nat /\ k <= grid.back
  <2>1. CASE alt \/ n <= rows
    BY <1>q, <1>1, <2>1 DEF Restored
  <2>2. CASE ~(alt \/ n <= rows)
    BY <1>q, <1>1, <2>2 DEF Restored, Lesser
  <2> QED BY <2>1, <2>2
<1> HIDE DEF k
<1>3. b \in Nat /\ b <= grid.back
  BY <1>q, <1>2
<1>4. grid'.cells = kept \o shown /\ grid'.back = b
  BY <1>0, <1>1
<1> HIDE DEF b
<1>5. /\ kept \in Seq(Line) /\ Len(kept) = b
      /\ \A i \in 1 .. b : kept[i] = grid.cells[i]
  <2>1. \A i \in 1 .. b : grid.cells[i] \in Line
    BY <1>0, <1>3
  <2>2. /\ kept \in Seq(Line)
        /\ Len(kept) = IF 1 <= b THEN b - 1 + 1 ELSE 0
        /\ \A i \in 1 .. b - 1 + 1 : kept[i] = grid.cells[1 + i - 1]
    BY <1>3, <2>1, SubSeqProperties
  <2> HIDE DEF kept
  <2> QED BY <1>3, <2>2
<1> DEFINE m == grid.back + rows - b
<1>6. /\ rest \in Seq(Line) /\ Len(rest) = m /\ m \in Nat
      /\ \A i \in 1 .. m : rest[i] = grid.cells[b + i]
  <2>1. \A i \in b + 1 .. Len(grid.cells) : grid.cells[i] \in Line
    BY <1>0, <1>3
  <2>2. b + 1 \in Int /\ Len(grid.cells) \in Int
    BY <1>0, <1>3
  <2>3. /\ rest \in Seq(Line)
        /\ Len(rest) = IF b + 1 <= Len(grid.cells) THEN Len(grid.cells) - (b + 1) + 1 ELSE 0
        /\ \A i \in 1 .. Len(grid.cells) - (b + 1) + 1 : rest[i] = grid.cells[b + 1 + i - 1]
    BY <2>1, <2>2, SubSeqProperties
  <2>4. /\ Len(grid.cells) - (b + 1) + 1 = m /\ m \in Nat
        /\ b + 1 <= Len(grid.cells) <=> m # 0
    BY <1>0, <1>3
  <2>5. \A i \in 1 .. m : b + 1 + i - 1 = b + i
    BY <1>0, <1>3
  <2> HIDE DEF rest, m
  <2> QED BY <2>3, <2>4, <2>5
<1> HIDE DEF kept, rest
<1>7. /\ shown \in Seq(Line) /\ Len(shown) = n
      /\ \A i \in 1 .. n : shown[i] = IF i <= m THEN grid.cells[b + i] ELSE Blank
  <2>1. shown \in Seq(Line) /\ Len(shown) = n
    BY <1>1, <1>6, FittedType
  <2>2. \A i \in 1 .. n : shown[i] = IF i <= Len(rest) THEN rest[i] ELSE Blank
    BY DEF Fitted
  <2> HIDE DEF shown, m
  <2> QED BY <1>1, <1>6, <2>1, <2>2
<1> HIDE DEF shown
<1>8. /\ Len(kept \o shown) = b + n
      /\ \A i \in 1 .. b + n :
           (kept \o shown)[i] = IF i <= b THEN kept[i] ELSE shown[i - b]
  <2>1. /\ Len(kept \o shown) = Len(kept) + Len(shown)
        /\ \A i \in 1 .. Len(kept) + Len(shown) :
             (kept \o shown)[i] = IF i <= Len(kept) THEN kept[i] ELSE shown[i - Len(kept)]
    BY <1>5, <1>7, ConcatProperties
  <2> QED BY <1>5, <1>7, <2>1
<1>9. ASSUME NEW i \in 1 .. b + n
      PROVE  (kept \o shown)[i] = IF i <= grid.back + rows THEN grid.cells[i] ELSE Blank
  <2>1. CASE i <= b
    <3>1. i \in 1 .. b /\ i <= grid.back + rows
      BY <1>1, <1>3, <1>q, <2>1
    <3> QED BY <1>5, <1>8, <2>1, <3>1
  <2>2. CASE ~(i <= b)
    <3>1. /\ i - b \in 1 .. n /\ b + (i - b) = i
          /\ i - b <= m <=> i <= grid.back + rows
      BY <1>1, <1>3, <1>q, <2>2
    <3>2. (kept \o shown)[i] = shown[i - b]
      BY <1>8, <2>2
    <3>3. shown[i - b] = IF i - b <= m THEN grid.cells[b + (i - b)] ELSE Blank
      BY <1>7, <3>1
    <3> QED BY <3>1, <3>2, <3>3
  <2> QED BY <2>1, <2>2
<1> QED BY <1>1, <1>2, <1>3, <1>4, <1>8, <1>9 DEF b, k, n

\* A resize shows no line twice, also when rows come back from the scrollback.
LEMMA ResizeApart ==
  ASSUME LinesInv, Resize
  PROVE  Apart(grid'.cells, saved'.cells, written')
<1>0. /\ Inv /\ Apart(grid.cells, saved.cells, written) /\ written \in Nat
      /\ grid.back \in Nat /\ rows \in Nat /\ Len(grid.cells) = grid.back + rows
  BY LinesFacts, GoodGrid DEF Inv
<1> DEFINE new == grid'.cells
           N == grid.back - Restored(rows') + rows'
<1>1. /\ N \in Nat /\ Len(new) = N
      /\ \A i \in 1 .. N : new[i] = IF i <= grid.back + rows THEN grid.cells[i] ELSE Blank
  <2> DEFINE b == grid.back - Restored(rows')
  <2>1. /\ b \in Nat /\ rows' \in Nat /\ Len(new) = b + rows'
        /\ \A i \in 1 .. b + rows' : new[i] = IF i <= grid.back + rows THEN grid.cells[i] ELSE Blank
    BY <1>0, ResizedCells
  <2> HIDE DEF b, new
  <2>2. N = b + rows'
    BY DEF b
  <2> QED BY <2>1, <2>2
<1>2. saved' = saved /\ written' = written
  BY DEF Resize
<1> HIDE DEF new, N
<1>3. \A i \in 1 .. Len(new) : new[i] = Blank \/ (i \in 1 .. Len(grid.cells) /\ new[i] = grid.cells[i])
  BY <1>0, <1>1
<1>4. Apart(new, saved.cells, written)
  BY <1>0, <1>1, <1>3, Thinned
<1> QED BY <1>2, <1>4 DEF new

\* A new screen has no lines.
LEMMA LinesInit == Init => LinesInv
<1> SUFFICES ASSUME Init PROVE LinesInv
  OBVIOUS
<1>1. grid.cells = BlankRows(rows) /\ saved.cells = <<>> /\ written = 0 /\ rows \in Nat
  BY DEF Init, Nothing
<1>2. Len(BlankRows(rows)) = rows /\ \A i \in 1 .. rows : BlankRows(rows)[i] = Blank
  <2>1. BlankRows(rows) \in [1 .. rows -> Line]
    BY DEF BlankRows, Blank, Line
  <2> QED BY <1>1, <2>1, Rebuilt DEF BlankRows
<1>3. Len(<<>>) = 0 /\ 1 .. 0 = {}
  OBVIOUS
<1>4. Apart(BlankRows(rows), <<>>, 0)
  BY <1>2, <1>3 DEF Apart, Blank
<1> QED BY <1>1, <1>4, InvInit DEF LinesInv

\* Every step keeps the lines apart.
LEMMA LinesInductive == LinesInv /\ [Next]_vars => LinesInv'
<1> SUFFICES ASSUME LinesInv, [Next]_vars PROVE LinesInv'
  OBVIOUS
<1>1. Inv'
  BY Inductive DEF LinesInv
<1>2. Apart(grid'.cells, saved'.cells, written')
  <2>1. CASE UNCHANGED vars
    BY <2>1 DEF vars, LinesInv
  <2>2. CASE Next
    BY <2>2, LineApart, EditApart, PrintApart, CursorApart, EnterAltApart, ExitAltApart,
       ResizeApart DEF Next
  <2> QED BY <2>1, <2>2
<1> QED BY <1>1, <1>2 DEF LinesInv

\* No line is shown or kept twice: scrollback, screen and saved screen hold
\* every line the program printed at most once.
THEOREM OncePlaced == Spec => []OnePlace
<1>1. ASSUME LinesInv PROVE OnePlace
  <2>1. Apart(grid.cells \o saved.cells, <<>>, written)
    BY <1>1, LinesFacts, Joined
  <2> QED BY <2>1 DEF Apart, OnePlace
<1> QED BY <1>1, LinesInit, LinesInductive, PTL DEF Spec

\* Visible row i of a grid, from 0.
Row(g, i) == g.cells[g.back + i + 1]


\* A scroll up moves no row below the region, nor one above it.
LEMMA ScrolledUpOutside ==
  ASSUME Inv, NEW n \in Nat, NEW i \in 0 .. rows - 1, i \notin top .. bottom
  PROVE  Row(ScrolledUp(n), i) = Row(grid, i)
<1>0. /\ Len(grid.cells) = grid.back + rows /\ grid.back \in Nat /\ rows \in Nat
      /\ top \in Nat /\ bottom \in Nat /\ bottom < rows /\ grid.limit \in Nat
      /\ grid \in [cells : Seq(Line), back : Nat, pending : Nat, limit : Nat]
  BY GoodGrid DEF Inv, Good
<1>1. CASE Captures
  <2> DEFINE d == Greater(grid.back + n - grid.limit, 0)
             N == grid.back + rows
             last == grid.back + bottom + 1
             p == grid.back + n - d + i + 1
  <2>1. d \in Nat /\ grid.back + n - d \in Nat
    BY <1>0 DEF Greater
  <2>2. ScrolledUp(n).cells = Captured(n, d) /\ ScrolledUp(n).back = grid.back + n - d
    BY <1>0, <1>1 DEF ScrolledUp
  <2>3. \A j \in 1 .. N + n - d :
          Captured(n, d)[j] = IF j + d <= last THEN grid.cells[j + d]
                              ELSE IF j + d <= last + n THEN Blank ELSE grid.cells[j + d - n]
    BY <1>0 DEF Captured
  <2>4. i > bottom
    BY <1>0, <1>1 DEF Captures
  <2> HIDE DEF d
  <2>5. /\ p \in 1 .. N + n - d /\ ~(p + d <= last) /\ ~(p + d <= last + n)
        /\ p + d - n = grid.back + i + 1
    <3>1. /\ grid.back \in Nat /\ rows \in Nat /\ bottom \in Nat
          /\ i \in Nat /\ i < rows /\ i > bottom
      BY <1>0, <2>4
    <3>2. p \in Nat /\ p >= 1 /\ p + d = grid.back + n + i + 1
      BY <2>1, <3>1
    <3>3. p <= N + n - d
      BY <2>1, <3>1
    <3> HIDE DEF p
    <3>4. ~(p + d <= last) /\ ~(p + d <= last + n) /\ p + d - n = grid.back + i + 1
      BY <2>1, <3>1, <3>2
    <3>5. N + n - d \in Int
      BY <2>1, <3>1
    <3> HIDE DEF N, last
    <3> QED BY <3>2, <3>3, <3>4, <3>5
  <2> HIDE DEF p, N, last
  <2>6. Captured(n, d)[p] = grid.cells[p + d - n]
    BY <2>3, <2>5
  <2> QED BY <2>2, <2>5, <2>6 DEF Row, p
<1>2. CASE ~Captures
  <2>1. /\ ScrolledUp(n).cells
             = MovedUp(grid.cells, grid.back + top + 1, grid.back + bottom + 1, n)
        /\ ScrolledUp(n).back = grid.back
    BY <1>0, <1>2 DEF ScrolledUp
  <2>2. /\ grid.back + i + 1 \in 1 .. Len(grid.cells)
        /\ grid.back + i + 1 \notin grid.back + top + 1 .. grid.back + bottom + 1
    BY <1>0
  <2> QED BY <2>1, <2>2 DEF MovedUp, Row
<1> QED BY <1>1, <1>2

\* Rows that move within the region, or a part of it, pass none outside it.
LEMMA MovesOutside ==
  ASSUME Inv, NEW n \in Nat, NEW i \in 0 .. rows - 1, NEW a \in Nat, i \notin a .. bottom
  PROVE  /\ MovedUp(grid.cells, grid.back + a + 1, grid.back + bottom + 1, n)[grid.back + i + 1]
              = Row(grid, i)
         /\ MovedDown(grid.cells, grid.back + a + 1, grid.back + bottom + 1, n)[grid.back + i + 1]
              = Row(grid, i)
<1>0. /\ Len(grid.cells) = grid.back + rows /\ grid.back \in Nat /\ rows \in Nat
      /\ bottom \in Nat
  BY GoodGrid DEF Inv
<1>1. /\ grid.back + i + 1 \in 1 .. Len(grid.cells)
      /\ grid.back + i + 1 \notin grid.back + a + 1 .. grid.back + bottom + 1
  BY <1>0
<1> QED BY <1>1 DEF MovedUp, MovedDown, Row

\* An erasure leaves a row or makes it blank.
LEMMA ErasedRow ==
  ASSUME Inv, NEW S, NEW i \in 0 .. rows - 1
  PROVE  Row(Erased(S), i) \in {Row(grid, i), Blank}
<1>0. /\ Len(grid.cells) = grid.back + rows /\ grid.back \in Nat /\ rows \in Nat
      /\ grid.cells \in [1 .. grid.back + rows -> Line]
      /\ grid \in [cells : Seq(Line), back : Nat, pending : Nat, limit : Nat]
  BY GoodGrid DEF Inv, Good
<1>1. Erased(S).back = grid.back
      /\ \A j \in 1 .. grid.back + rows :
           Erased(S).cells[j] = IF j - grid.back - 1 \in S THEN Blank ELSE grid.cells[j]
  BY <1>0 DEF Erased
<1>2. grid.back + i + 1 \in 1 .. grid.back + rows
  BY <1>0
<1> QED BY <1>1, <1>2 DEF Row

\* Dropping the scrollback moves no visible row.
LEMMA EmptiedRow ==
  ASSUME NEW g, Good(g, rows), rows \in Nat, NEW i \in 0 .. rows - 1
  PROVE  Row(NoScrollback(g), i) = Row(g, i)
<1>1. /\ g.back \in Nat /\ Len(g.cells) = g.back + rows
      /\ g.cells \in [1 .. g.back + rows -> Line]
      /\ g \in [cells : Seq(Line), back : Nat, pending : Nat, limit : Nat]
  BY GoodFields DEF Good
<1> DEFINE new == SubSeq(g.cells, g.back + 1, Len(g.cells))
<1>2. NoScrollback(g).cells = new /\ NoScrollback(g).back = 0
  BY <1>1 DEF NoScrollback
<1>3. \A j \in 1 .. Len(g.cells) - (g.back + 1) + 1 : new[j] = g.cells[g.back + 1 + j - 1]
  <2>1. \A j \in g.back + 1 .. Len(g.cells) : g.cells[j] \in Line
    BY <1>1
  <2>2. g.back + 1 \in Int /\ Len(g.cells) \in Int
    BY <1>1
  <2> QED BY <2>1, <2>2, SubSeqProperties
<1>4. /\ 0 + i + 1 \in 1 .. Len(g.cells) - (g.back + 1) + 1
      /\ g.back + 1 + (0 + i + 1) - 1 = g.back + i + 1
  BY <1>1
<1> HIDE DEF new
<1>5. new[0 + i + 1] = g.cells[g.back + 1 + (0 + i + 1) - 1]
  BY <1>3, <1>4
<1> QED BY <1>2, <1>4, <1>5 DEF Row

\* No step moves a line over a row outside the region.
LEMMA StepKeeps ==
  ASSUME Inv, Next, rows' = rows, alt' = alt, NEW i \in 0 .. rows - 1, i \notin top .. bottom
  PROVE  Row(grid', i) \in {Row(grid, i), Blank, written + 1}
<1>0. /\ rows \in Nat /\ Good(grid, rows) /\ grid.back \in Nat
      /\ y \in 0 .. rows - 1 /\ top \in Nat /\ bottom \in Nat /\ y \in Nat
      /\ bottom \in 0 .. rows - 1
      /\ grid \in [cells : Seq(Line), back : Nat, pending : Nat, limit : Nat]
  BY GoodGrid DEF Inv, GridInv
<1>u. ASSUME NEW n \in Nat, grid' = ScrolledUp(n) PROVE Row(grid', i) = Row(grid, i)
  BY <1>u, ScrolledUpOutside
<1>d. ASSUME NEW n \in Nat, grid' = ScrolledDown(n) PROVE Row(grid', i) = Row(grid, i)
  <2>1. /\ ScrolledDown(n).cells
             = MovedDown(grid.cells, grid.back + top + 1, grid.back + bottom + 1, n)
        /\ ScrolledDown(n).back = grid.back
    BY <1>0 DEF ScrolledDown
  <2>2. Row(ScrolledDown(n), i)
          = MovedDown(grid.cells, grid.back + top + 1, grid.back + bottom + 1, n)[grid.back + i + 1]
    BY <2>1 DEF Row
  <2> QED BY <1>0, <1>d, <2>2, MovesOutside
<1>e. \A S : Row(Erased(S), i) \in {Row(grid, i), Blank}
  BY ErasedRow
<1>1. CASE LineFeed \/ ScrollUpN
  <2>1. \E n \in Nat : grid' = ScrolledUp(n)
    <3>1. CASE LineFeed
      BY <3>1, Feed DEF LineFeed, ScrollUp
    <3>2. CASE ScrollUpN
      BY <1>0, <3>2 DEF ScrollUpN, ScrollUp
    <3> QED BY <1>1, <3>1, <3>2
  <2> QED BY <1>u, <2>1
<1>2. CASE ReverseIndex \/ ScrollDownN
  <2>1. \E n \in Nat : grid' = ScrolledDown(n)
    <3>1. CASE ReverseIndex
      <4>1. (IF y = top THEN 1 ELSE 0) \in Nat
        OBVIOUS
      <4> QED BY <3>1, <4>1 DEF ReverseIndex
    <3>2. CASE ScrollDownN
      BY <1>0, <3>2 DEF ScrollDownN
    <3> QED BY <1>2, <3>1, <3>2
  <2> QED BY <1>d, <2>1
<1>3. CASE DeleteLines \/ InsertLines
  <2> DEFINE lo == grid.back + y + 1
             hi == grid.back + bottom + 1
  <2>1. PICK n \in 1 .. bottom - y + 1 :
          \/ grid' = [grid EXCEPT !.cells = MovedUp(grid.cells, lo, hi, n)]
          \/ grid' = [grid EXCEPT !.cells = MovedDown(grid.cells, lo, hi, n)]
    BY <1>3 DEF DeleteLines, InsertLines
  <2>2. n \in Nat /\ i \notin y .. bottom
    <3>1. y \in top .. bottom
      BY <1>3 DEF DeleteLines, InsertLines
    <3> QED BY <1>0, <3>1
  <2>3. /\ MovedUp(grid.cells, lo, hi, n)[grid.back + i + 1] = Row(grid, i)
        /\ MovedDown(grid.cells, lo, hi, n)[grid.back + i + 1] = Row(grid, i)
    BY <1>0, <2>2, MovesOutside
  <2> HIDE DEF lo, hi
  <2>4. /\ grid'.back = grid.back
        /\ \/ grid'.cells = MovedUp(grid.cells, lo, hi, n)
           \/ grid'.cells = MovedDown(grid.cells, lo, hi, n)
    BY <1>0, <2>1
  <2> QED BY <2>3, <2>4 DEF Row
<1>4. CASE PrintLine
  <2>1. PICK wrap \in BOOLEAN :
          LET n == IF wrap THEN Feeds ELSE 0 IN
          /\ y' = IF wrap THEN FedY ELSE y
          /\ grid' = Put(IF n = 0 THEN grid ELSE ScrolledUp(1), y', written')
    BY <1>4 DEF PrintLine
  <2>2. y' \in 0 .. rows - 1 /\ written' = written + 1
    BY <1>0, <1>4, <2>1, Feed DEF PrintLine
  <2>3. Good(ScrolledUp(1), rows) /\ Row(ScrolledUp(1), i) = Row(grid, i)
    BY ScrolledUpGood, ScrolledUpOutside DEF Inv
  <2>4. PICK g : Good(g, rows) /\ Row(g, i) = Row(grid, i) /\ grid' = Put(g, y', written + 1)
    BY <1>0, <2>1, <2>2, <2>3
  <2>5. /\ g.back \in Nat /\ g.cells \in [1 .. g.back + rows -> Line]
        /\ g \in [cells : Seq(Line), back : Nat, pending : Nat, limit : Nat]
    BY <1>0, <2>4, GoodFields DEF Good
  <2>6. /\ grid'.cells = [g.cells EXCEPT ![g.back + y' + 1] = written + 1]
        /\ grid'.back = g.back
    BY <2>4, <2>5 DEF Put
  <2>7. g.back + i + 1 \in 1 .. g.back + rows
    BY <1>0, <2>5
  <2> QED BY <2>4, <2>5, <2>6, <2>7 DEF Row
<1>5. CASE Erase \/ Align
  BY <1>5, <1>e DEF Erase, Align
<1>6. CASE MoveCursor \/ SetRegion
  BY <1>6 DEF MoveCursor, SetRegion
<1>7. CASE TakePending
  BY <1>0, <1>7 DEF TakePending, Row
<1>8. CASE EraseScrollback
  BY <1>0, <1>8, EmptiedRow DEF EraseScrollback
<1>9. CASE Reset
  <2> DEFINE e == Erased(0 .. rows - 1)
             g == [e EXCEPT !.limit = ResetLimit]
  <2>1. Good(e, rows) /\ Row(e, i) \in {Row(grid, i), Blank}
    BY <1>e, ErasedStep
  <2>2. ResetLimit \in Nat
    BY <1>0 DEF ResetLimit, Inv, GridInv
  <2> HIDE DEF e
  <2>3. Good(g, rows) /\ g.cells = e.cells /\ g.back = e.back
    BY <2>1, <2>2 DEF Good
  <2> HIDE DEF g
  <2>4. Row(NoScrollback(g), i) = Row(g, i)
    BY <1>0, <2>3, EmptiedRow
  <2>5. grid' = NoScrollback(g)
    BY <1>9 DEF Reset, g, e
  <2> QED BY <2>1, <2>3, <2>4, <2>5 DEF Row
<1>10. CASE Resize
  <2> DEFINE k == Restored(rows')
  <2>1. k = 0
    BY <1>0 DEF Restored
  <2>2. /\ grid'.back = grid.back - k
        /\ \A j \in 1 .. grid.back - k + rows' :
             grid'.cells[j] = IF j <= grid.back + rows THEN grid.cells[j] ELSE Blank
    BY <1>10, ResizedCells
  <2> HIDE DEF k
  <2>3. grid'.back = grid.back /\ grid.back - k + rows' = grid.back + rows
    BY <1>0, <2>1, <2>2
  <2>4. grid.back + i + 1 \in 1 .. grid.back + rows /\ grid.back + i + 1 <= grid.back + rows
    BY <1>0
  <2> QED BY <2>2, <2>3, <2>4 DEF Row
<1>11. CASE EnterAlt \/ ExitAlt
  <2>1. alt \in BOOLEAN
    BY DEF Inv, GridInv
  <2> QED BY <1>11, <2>1 DEF EnterAlt, ExitAlt
<1> QED BY <1>1, <1>2, <1>3, <1>4, <1>5, <1>6, <1>7, <1>8, <1>9, <1>10, <1>11 DEF Next

\* The visible rows as rows of the buffer, in this state and in the next.
RowsShown == \A j \in 1 .. rows : Visible[j] = grid.cells[grid.back + j]

\* As a formula, so that it holds of the next state too.
LEMMA RowsAreShown == Inv => RowsShown
BY VisibleRows DEF RowsShown

\* Whatever scrolls, inserts or deletes within a region, the rows outside it
\* keep their lines, but for a line printed there or an erasure.
THEOREM OutsideKept == Spec => OutsideStays
<1>1. ASSUME Inv, Inv', [Next]_vars, rows' = rows, alt' = alt,
             NEW i \in 0 .. rows - 1, i \notin top .. bottom
      PROVE  Visible'[i + 1] \in {Visible[i + 1], Blank, written + 1}
  <2>1. rows \in Nat /\ grid.back \in Nat /\ grid'.back \in Nat
    BY <1>1, GoodGrid DEF Inv, GridInv
  <2>2. i + 1 \in 1 .. rows
    BY <2>1
  <2>3. Visible[i + 1] = grid.cells[grid.back + (i + 1)]
    BY <1>1, <2>2, VisibleRows
  <2>4. \A j \in 1 .. rows' : Visible'[j] = grid'.cells[grid'.back + j]
    <3>1. Inv' => RowsShown'
      BY RowsAreShown, PTL
    <3> QED BY <1>1, <3>1 DEF RowsShown
  <2>5. Visible'[i + 1] = grid'.cells[grid'.back + (i + 1)]
    BY <1>1, <2>2, <2>4
  <2>6. grid.back + (i + 1) = grid.back + i + 1 /\ grid'.back + (i + 1) = grid'.back + i + 1
    BY <2>1
  <2>7. Visible[i + 1] = Row(grid, i) /\ Visible'[i + 1] = Row(grid', i)
    BY <2>3, <2>5, <2>6 DEF Row
  <2>8. CASE Next
    BY <1>1, <2>7, <2>8, StepKeeps
  <2>9. CASE UNCHANGED vars
    BY <2>7, <2>9 DEF vars
  <2> QED BY <1>1, <2>8, <2>9
<1>2. Inv /\ Inv' /\ [Next]_vars =>
        [rows' = rows /\ alt' = alt =>
           \A i \in 0 .. rows - 1 :
             i \notin top .. bottom => Visible'[i + 1] \in {Visible[i + 1], Blank, written + 1}]_vars
  BY <1>1
<1> QED BY <1>2, InvInit, Inductive, PTL DEF Spec, OutsideStays
=============================================================================
