------------------------- MODULE CommandLineProofs --------------------------
(***************************************************************************)
(* What the command line keeps to: its interactive session, for any lines, *)
(* tools, cards, rounds and calls, and the rewind of a session's files,    *)
(* for any files, contents, turns and changes.                             *)
(***************************************************************************)
EXTENDS Repl, Rewind, SequenceTheorems, FiniteSetTheorems, TLAPS

-----------------------------------------------------------------------------
(* The interactive session. *)

-----------------------------------------------------------------------------
(* Induction over numbers, from the well-founded order of the numbers.     *)

LEMMA LeastOf ==
  ASSUME NEW T, T \subseteq Nat, T # {}
  PROVE  \E m \in T : \A n \in T : m <= n
<1> DEFINE R == OpToRel(<, Nat)
<1>1. IsWellFoundedOn(R, Nat)
  BY NatLessThanWellFounded
<1>2. R = {ss \in Nat \X Nat : ss[1] < ss[2]}
  BY DEF OpToRel, R
<1> HIDE DEF R
<1>3. PICK x \in T : \A y \in T : ~(<<y, x>> \in R)
  BY <1>1, WFMin
<1>4. ASSUME NEW y \in T PROVE x <= y
  <2>1. x \in Nat /\ y \in Nat /\ <<y, x>> \in Nat \X Nat
    OBVIOUS
  <2>2. ~(<<y, x>>[1] < <<y, x>>[2])
    BY <2>1, <1>3, <1>2
  <2> QED
    BY <2>1, <2>2
<1> QED
  BY <1>4

LEMMA NatInd ==
  ASSUME NEW S, 0 \in S, \A n \in Nat : n \in S => n + 1 \in S
  PROVE  Nat \subseteq S
<1> DEFINE T == Nat \ S
<1> SUFFICES ASSUME T # {} PROVE FALSE
  OBVIOUS
<1>1. PICK m \in T : \A n \in T : m <= n
  BY LeastOf
<1>2. m \in Nat \ {0} /\ m - 1 \in Nat
  BY <1>1
<1>3. m - 1 \in S
  BY <1>1, <1>2
<1>4. (m - 1) + 1 = m
  BY <1>2
<1> QED
  BY <1>2, <1>3, <1>4

-----------------------------------------------------------------------------
(* The lines of inputs in a row.                                           *)

Part(f, q, n) == f = [i \in 0..n |-> IF i = 0 THEN <<>> ELSE f[i - 1] \o q[i]]
UpTo(f, q) == Part(f, q, Len(q))

LEMMA FlatExists ==
  ASSUME NEW q, Len(q) \in Nat
  PROVE  \E f : UpTo(f, q)
<1> DEFINE S == {n \in Nat : \E f : Part(f, q, n)}
<1>1. 0 \in S
  <2> DEFINE f == [i \in 0..0 |-> <<>>]
  <2>1. Part(f, q, 0)
    BY DEF Part
  <2> QED
    BY <2>1
<1>2. ASSUME NEW n \in Nat, n \in S PROVE n + 1 \in S
  <2>1. PICK f : Part(f, q, n)
    BY <1>2
  <2> DEFINE h == [i \in 0..(n + 1) |-> IF i = 0 THEN <<>> ELSE f[i - 1] \o q[i]]
  <2>2. \A i \in 0..n : h[i] = f[i]
    BY <2>1 DEF Part
  <2>3. \A i \in 0..(n + 1) : i # 0 => i - 1 \in 0..n
    OBVIOUS
  <2> HIDE DEF h
  <2>4. h = [i \in 0..(n + 1) |-> IF i = 0 THEN <<>> ELSE h[i - 1] \o q[i]]
    BY <2>2, <2>3 DEF h
  <2>5. Part(h, q, n + 1)
    BY <2>4 DEF Part
  <2> QED
    BY <2>5
<1> HIDE DEF S
<1>3. Nat \subseteq S
  BY <1>1, <1>2, NatInd
<1> QED
  BY <1>3 DEF S, UpTo

LEMMA FlatUnfolds ==
  ASSUME NEW q, Len(q) \in Nat
  PROVE  \E f : UpTo(f, q) /\ Flat(q) = f[Len(q)]
<1> DEFINE g == CHOOSE f : UpTo(f, q)
<1>1. UpTo(g, q)
  BY FlatExists
<1>2. Flat(q) = g[Len(q)]
  BY DEF Flat, UpTo, Part
<1> QED
  BY <1>1, <1>2

(* The same sum, whatever follows.                                         *)
LEMMA UpToFacts ==
  ASSUME NEW L, NEW q \in Seq(Seq(L)), NEW f, UpTo(f, q)
  PROVE  /\ f[0] = <<>>
         /\ \A i \in 1..Len(q) : f[i] = f[i - 1] \o q[i]
         /\ \A i \in 0..Len(q) : f[i] \in Seq(L)
<1>1. f[0] = <<>> /\ \A i \in 1..Len(q) : f[i] = f[i - 1] \o q[i]
  BY DEF UpTo, Part
<1> DEFINE S == {i \in Nat : i <= Len(q) => f[i] \in Seq(L)}
<1>2. 0 \in S
  BY <1>1, EmptySeq
<1>3. ASSUME NEW n \in Nat, n \in S PROVE n + 1 \in S
  <2> SUFFICES ASSUME n + 1 <= Len(q) PROVE f[n + 1] \in Seq(L)
    OBVIOUS
  <2>1. n + 1 \in 1..Len(q) /\ f[n] \in Seq(L) /\ (n + 1) - 1 = n
    BY <1>3
  <2>2. q[n + 1] \in Seq(L)
    BY <2>1
  <2>3. f[n + 1] = f[n] \o q[n + 1]
    BY <1>1, <2>1
  <2> QED
    BY <2>1, <2>2, <2>3, ConcatProperties
<1> HIDE DEF S
<1>4. Nat \subseteq S
  BY <1>2, <1>3, NatInd
<1>5. \A i \in 0..Len(q) : i \in Nat /\ i <= Len(q)
  OBVIOUS
<1>6. \A i \in 0..Len(q) : f[i] \in Seq(L)
  BY <1>4, <1>5 DEF S
<1> QED
  BY <1>1, <1>6

LEMMA FlatFacts ==
  ASSUME NEW L, NEW q \in Seq(Seq(L))
  PROVE  Flat(q) \in Seq(L) /\ (q = <<>> => Flat(q) = <<>>)
<1>1. Len(q) \in Nat /\ (q = <<>> => Len(q) = 0)
  OBVIOUS
<1>2. PICK f : UpTo(f, q) /\ Flat(q) = f[Len(q)]
  BY <1>1, FlatUnfolds
<1>3. f[0] = <<>> /\ \A i \in 0..Len(q) : f[i] \in Seq(L)
  BY <1>2, UpToFacts
<1> QED
  BY <1>1, <1>2, <1>3

LEMMA FlatAppend ==
  ASSUME NEW L, NEW q \in Seq(Seq(L)), NEW x \in Seq(L)
  PROVE  Flat(Append(q, x)) = Flat(q) \o x
<1> DEFINE r == Append(q, x)
<1>1. /\ r \in Seq(Seq(L)) /\ Len(r) = Len(q) + 1 /\ r[Len(q) + 1] = x
      /\ \A i \in 1..Len(q) : r[i] = q[i]
      /\ Len(q) \in Nat
  BY AppendProperties, LenProperties
<1> HIDE DEF r
<1>2. PICK f : UpTo(f, q) /\ Flat(q) = f[Len(q)]
  BY <1>1, FlatUnfolds
<1>3. PICK g : UpTo(g, r) /\ Flat(r) = g[Len(r)]
  BY <1>1, FlatUnfolds
<1>4. f[0] = <<>> /\ \A i \in 1..Len(q) : f[i] = f[i - 1] \o q[i]
  BY <1>2, UpToFacts
<1>5. g[0] = <<>> /\ \A i \in 1..Len(r) : g[i] = g[i - 1] \o r[i]
  BY <1>1, <1>3, UpToFacts
<1> DEFINE S == {i \in Nat : i <= Len(q) => g[i] = f[i]}
<1>6. 0 \in S
  BY <1>4, <1>5
<1>7. ASSUME NEW n \in Nat, n \in S PROVE n + 1 \in S
  <2> SUFFICES ASSUME n + 1 <= Len(q) PROVE g[n + 1] = f[n + 1]
    OBVIOUS
  <2>0. n <= Len(q) /\ g[n] = f[n]
    <3>1. n <= Len(q)
      BY <1>1
    <3> QED
      BY <1>7, <3>1
  <2>1. n + 1 \in 1..Len(q) /\ n + 1 \in 1..Len(r) /\ g[n] = f[n] /\ (n + 1) - 1 = n
    <3>1. PICK m \in Nat : m = Len(q)
      BY <1>1
    <3>2. n + 1 \in 1..m /\ n + 1 \in 1..(m + 1) /\ (n + 1) - 1 = n
      BY <3>1
    <3>3. Len(r) = m + 1
      BY <1>1, <3>1
    <3> QED
      BY <2>0, <3>1, <3>2, <3>3
  <2> QED
    BY <1>1, <1>4, <1>5, <2>1
<1> HIDE DEF S
<1>8. Nat \subseteq S
  BY <1>6, <1>7, NatInd
<1>9. g[Len(q)] = f[Len(q)]
  BY <1>1, <1>8 DEF S
<1>10. Len(r) \in 1..Len(r) /\ Len(r) - 1 = Len(q)
  BY <1>1
<1>11. g[Len(r)] = g[Len(q)] \o x
  BY <1>1, <1>5, <1>10
<1> QED
  BY <1>2, <1>3, <1>9, <1>11 DEF r

(* One sequence after another, for the provers to see as one thing.        *)
Joined(s, t) == s \o t

LEMMA Associative ==
  \A L : \A s, t, u \in Seq(L) : Joined(Joined(s, t), u) = Joined(s, Joined(t, u))
<1> SUFFICES ASSUME NEW L, NEW s \in Seq(L), NEW t \in Seq(L), NEW u \in Seq(L)
             PROVE  (s \o t) \o u = s \o (t \o u)
  BY DEF Joined
<1> QED
  BY ConcatAssociative

(* What goes before a row goes before its sum.                             *)
LEMMA FlatShift ==
  ASSUME NEW L, NEW q \in Seq(Seq(L)), NEW r \in Seq(Seq(L)), NEW h \in Seq(L),
         Len(q) = Len(r) + 1, q[1] = h, \A i \in 1..Len(r) : r[i] = q[i + 1]
  PROVE  Flat(q) = h \o Flat(r)
<1>1. Len(q) \in Nat \ {0} /\ Len(r) \in Nat
  BY LenProperties
<1>2. PICK f : UpTo(f, q) /\ Flat(q) = f[Len(q)]
  BY <1>1, FlatUnfolds
<1>3. PICK g : UpTo(g, r) /\ Flat(r) = g[Len(r)]
  BY <1>1, FlatUnfolds
<1>4. f[0] = <<>> /\ \A i \in 1..Len(q) : f[i] = f[i - 1] \o q[i]
  BY <1>2, UpToFacts
<1>5. /\ g[0] = <<>> /\ \A i \in 1..Len(r) : g[i] = g[i - 1] \o r[i]
      /\ \A i \in 0..Len(r) : g[i] \in Seq(L)
  BY <1>3, UpToFacts
<1> DEFINE Shifted(i) == f[i + 1] = h \o g[i]
           S == {i \in Nat : i <= Len(r) => Shifted(i)}
<1>6. Shifted(0)
  <2>1. 1 \in 1..Len(q) /\ 1 - 1 = 0
    BY <1>1
  <2>2. f[1] = <<>> \o h
    BY <1>4, <2>1
  <2>3. <<>> \o h = h /\ h \o <<>> = h
    BY ConcatEmptySeq
  <2> QED
    BY <1>5, <2>2, <2>3
<1>7. ASSUME NEW n \in Nat, Shifted(n), n + 1 <= Len(r) PROVE Shifted(n + 1)
  <2>1. PICK m \in Nat : m = n + 1
    OBVIOUS
  <2>2. /\ m \in 1..Len(r) /\ m + 1 \in 1..Len(q) /\ f[m] = h \o g[n]
        /\ m - 1 = n /\ (m + 1) - 1 = m /\ n \in 0..Len(r)
    <3>1. /\ m \in 1..Len(r) /\ m + 1 \in 1..Len(q)
          /\ m - 1 = n /\ (m + 1) - 1 = m /\ n \in 0..Len(r)
      <4>1. PICK k \in Nat : k = Len(r) /\ k + 1 = Len(q)
        BY <1>1
      <4>2. m \in 1..k /\ m + 1 \in 1..(k + 1) /\ n \in 0..k
        BY <1>7, <2>1, <4>1, SMTT(30)
      <4>3. m - 1 = n /\ (m + 1) - 1 = m
        BY <2>1
      <4> QED
        BY <4>1, <4>2, <4>3
    <3>2. f[m] = h \o g[n]
      BY <1>7, <2>1
    <3> QED
      BY <3>1, <3>2
  <2>3. f[m + 1] = f[m] \o q[m + 1]
    BY <1>4, <2>2
  <2>4. g[m] = g[n] \o r[m] /\ r[m] = q[m + 1]
    BY <1>5, <2>2
  <2>5. q[m + 1] \in Seq(L) /\ g[n] \in Seq(L)
    BY <1>5, <2>2
  <2>6. Joined(f[m], q[m + 1]) = Joined(h, Joined(g[n], q[m + 1]))
    <3>1. f[m] = Joined(h, g[n])
      BY <2>2 DEF Joined
    <3> QED
      BY <2>5, <3>1, Associative
  <2> QED
    BY <2>1, <2>3, <2>4, <2>6 DEF Joined
<1> HIDE DEF Shifted
<1>8. \A n \in Nat : n \in S => n + 1 \in S
  BY <1>1, <1>7
<1>9. 0 \in S
  BY <1>6
<1> HIDE DEF S
<1>10. Nat \subseteq S
  BY <1>8, <1>9, NatInd
<1>11. Shifted(Len(r))
  BY <1>1, <1>10 DEF S
<1> QED
  BY <1>2, <1>3, <1>11 DEF Shifted

LEMMA FlatTail ==
  ASSUME NEW L, NEW q \in Seq(Seq(L)), q # <<>>
  PROVE  Flat(q) = Head(q) \o Flat(Tail(q))
<1>1. Head(q) \in Seq(L) /\ Tail(q) \in Seq(Seq(L)) /\ Len(Tail(q)) = Len(q) - 1
      /\ \A i \in 1..Len(Tail(q)) : Tail(q)[i] = q[i + 1]
  BY HeadTailProperties
<1>2. q[1] = Head(q)
  OBVIOUS
<1>3. Len(q) \in Nat
  BY LenProperties
<1>4. Len(q) = Len(Tail(q)) + 1
  BY <1>1, <1>3
<1> QED
  BY <1>1, <1>2, <1>4, FlatShift

-----------------------------------------------------------------------------
(* Lines.                                                                  *)

Lines == Texts \cup {"blank"}

LineTypes ==
  /\ line \in Lines /\ pending \in Seq(Lines) /\ queue \in Seq(Seq(Lines))
  /\ owed \in Seq(Lines) /\ open \in BOOLEAN

(* Nothing is pending once readline is closed, and the session that ended  *)
(* with its input had begun every input.                                   *)
LinesInv ==
  /\ LineTypes /\ InputsAreKept /\ NothingLostAtClose
  /\ ~open => pending = <<>>
  /\ exited # "no" => ~Alive

LEMMA InputsUnchanged ==
  ASSUME LinesInv, UNCHANGED <<pending, queue, owed, open>>, line' \in Lines,
         exited' # "no" => stage' = "gone",
         exited' = "close" => owed = <<>>
  PROVE  LinesInv'
BY DEF LinesInv, LineTypes, InputsAreKept, NothingLostAtClose, Alive

LEMMA FlushKept ==
  ASSUME LinesInv, Flush, owed' = owed
  PROVE  queue' \in Seq(Seq(Lines)) /\ pending' = <<>> /\ InputsAreKept'
<1>1. queue \in Seq(Seq(Lines)) /\ pending \in Seq(Lines) /\ Flat(queue) \o pending = owed
  BY DEF LinesInv, LineTypes, InputsAreKept
<1>2. Flat(queue) \in Seq(Lines) /\ pending' = <<>>
  BY <1>1, FlatFacts DEF Flush
<1>3. CASE pending = <<>>
  BY <1>1, <1>2, <1>3 DEF Flush, InputsAreKept
<1>4. CASE pending # <<>>
  <2>1. queue' = Append(queue, pending)
    BY <1>4 DEF Flush
  <2>2. queue' \in Seq(Seq(Lines)) /\ Flat(queue') = Flat(queue) \o pending
    BY <1>1, <2>1, FlatAppend, AppendProperties
  <2>3. Flat(queue') \o <<>> = Flat(queue')
    BY <2>2, FlatFacts, ConcatEmptySeq
  <2> QED
    BY <1>1, <1>2, <2>2, <2>3 DEF InputsAreKept
<1> QED
  BY <1>3, <1>4

(* The lines that follow those of the first input.                         *)
LEMMA RestOfLines ==
  ASSUME NEW L, NEW h \in Seq(L), NEW rest \in Seq(L)
  PROVE  SubSeq(h \o rest, Len(h) + 1, Len(h \o rest)) = rest
<1>1. Len(h) \in Nat /\ Len(rest) \in Nat /\ Len(h \o rest) = Len(h) + Len(rest)
  BY ConcatProperties, LenProperties
<1>2. CASE Len(rest) = 0
  <2>1. rest = <<>>
    BY <1>2, EmptySeq
  <2>2. SubSeq(h \o rest, Len(h) + 1, Len(h)) = <<>>
    BY <1>1, SubSeqEmpty
  <2> QED
    BY <1>1, <1>2, <2>1, <2>2
<1>3. CASE Len(rest) # 0
  <2>1. Len(h) + 1 \in Len(h) + 1 .. Len(h) + Len(rest)
        /\ Len(h) + Len(rest) \in Len(h) + 1 .. Len(h) + Len(rest)
        /\ Len(h) + 1 - Len(h) = 1 /\ Len(h) + Len(rest) - Len(h) = Len(rest)
    BY <1>1, <1>3
  <2>2. SubSeq(h \o rest, Len(h) + 1, Len(h) + Len(rest)) = SubSeq(rest, 1, Len(rest))
    BY <2>1, SubSeqOfConcat2
  <2> QED
    BY <1>1, <2>2, SubSeqFull
<1> QED
  BY <1>2, <1>3

LEMMA TakeKept ==
  ASSUME LinesInv, Take
  PROVE  queue' \in Seq(Seq(Lines)) /\ owed' \in Seq(Lines) /\ InputsAreKept'
<1>1. queue \in Seq(Seq(Lines)) /\ pending \in Seq(Lines) /\ Flat(queue) \o pending = owed
      /\ queue # <<>> /\ queue' = Tail(queue) /\ pending' = pending
      /\ owed' = SubSeq(owed, Len(Head(queue)) + 1, Len(owed))
  BY DEF LinesInv, LineTypes, InputsAreKept, Take
<1>2. Head(queue) \in Seq(Lines) /\ Tail(queue) \in Seq(Seq(Lines))
  BY <1>1, HeadTailProperties
<1>3. PICK h \in Seq(Lines) : h = Head(queue)
  BY <1>2
<1>4. PICK f \in Seq(Lines) : f = Flat(Tail(queue))
  BY <1>2, FlatFacts
<1>5. Flat(queue) = h \o f
  BY <1>1, <1>3, <1>4, FlatTail
<1>6. PICK rest \in Seq(Lines) : rest = f \o pending
  BY <1>1, ConcatProperties
<1>7. owed = h \o rest
  <2>1. ASSUME NEW x \in Seq(Lines) PROVE (h \o f) \o x = h \o (f \o x)
    <3>1. \A s, t, u \in Seq(Lines) : Joined(Joined(s, t), u) = Joined(s, Joined(t, u))
      BY Associative
    <3>2. Joined(Joined(h, f), x) = Joined(h, Joined(f, x))
      BY <3>1, Zenon
    <3> QED
      BY <3>2, Zenon DEF Joined
  <2>2. owed = (h \o f) \o pending
    BY <1>1, <1>5
  <2>3. (h \o f) \o pending = h \o (f \o pending)
    <3>1. pending \in Seq(Lines)
      BY <1>1
    <3> QED
      BY <2>1, <3>1, Zenon
  <2> QED
    BY <1>6, <2>2, <2>3
<1>8. owed' = rest
  BY <1>1, <1>3, <1>7, RestOfLines
<1> QED
  BY <1>1, <1>2, <1>4, <1>6, <1>8 DEF InputsAreKept

LEMMA EnterKept ==
  ASSUME LinesInv, pending' = Append(pending, line), owed' = Append(owed, line), queue' = queue
  PROVE  pending' \in Seq(Lines) /\ owed' \in Seq(Lines) /\ InputsAreKept'
<1>1. queue \in Seq(Seq(Lines)) /\ pending \in Seq(Lines) /\ owed \in Seq(Lines)
      /\ line \in Lines /\ Flat(queue) \o pending = owed
  BY DEF LinesInv, LineTypes, InputsAreKept
<1>2. pending' \in Seq(Lines) /\ owed' \in Seq(Lines)
  BY <1>1, AppendProperties
<1>3. pending' = Joined(pending, <<line>>) /\ owed' = Joined(owed, <<line>>) /\ <<line>> \in Seq(Lines)
  BY <1>1, AppendIsConcat DEF Joined
<1>4. Flat(queue) \in Seq(Lines) /\ owed = Joined(Flat(queue), pending)
  BY <1>1, FlatFacts DEF Joined
<1>5. owed' = Joined(Flat(queue), pending')
  <2>1. PICK one \in Seq(Lines) : one = <<line>>
    BY <1>3
  <2>2. PICK before \in Seq(Lines) : before = Flat(queue)
    BY <1>4
  <2>3. pending \in Seq(Lines)
    BY <1>1
  <2>4. Joined(Joined(before, pending), one) = Joined(before, Joined(pending, one))
    BY <2>3, Associative
  <2> QED
    BY <1>3, <1>4, <2>1, <2>2, <2>4
<1> QED
  BY <1>2, <1>5 DEF InputsAreKept, Joined

(* The steps that move no line: they are taken while the session lasts, or *)
(* end it otherwise than by the end of its input.                          *)
LEMMA LinesRest ==
  ASSUME LinesInv, UNCHANGED <<pending, queue, owed, open>>, line' \in Lines,
         \/ Alive /\ exited' = exited
         \/ exited' \notin {"no", "close"} /\ stage' = "gone"
  PROVE  LinesInv'
BY DEF LinesInv, LineTypes, InputsAreKept, NothingLostAtClose, Alive

AtRest ==
  \/ Fetched \/ CommandDone \/ Listed \/ LogRead \/ AgentStep
  \/ ReplayEvent \/ ReplayEnd \/ TeamEvent \/ TeamEnd \/ Drain

LEMMA QuietFacts ==
  ASSUME AtRest
  PROVE  /\ UNCHANGED inputVars
         /\ \/ Alive /\ exited' = exited
            \/ exited' \notin {"no", "close"} /\ stage' = "gone"
<1>1. CASE AgentStep
  <2>1. ASSUME NEW i, Call(i) \/ Ask(i) PROVE UNCHANGED inputVars /\ Alive /\ exited' = exited
    BY <2>1 DEF Call, Ask, StaysInRun, Runs, Alive, inputVars
  <2> QED
    BY <1>1, <2>1 DEF AgentStep, Round, Think, Answer, Results, Continue, Done, Fail, Exhaust,
                      EndsRun, StaysInRun, Runs, Alive, inputVars
<1>2. CASE Fetched \/ CommandDone \/ Listed \/ LogRead
  BY <1>2 DEF Fetched, CommandDone, Listed, LogRead, Ends, Alive, inputVars
<1>3. CASE ReplayEvent \/ ReplayEnd \/ TeamEvent \/ TeamEnd \/ Drain
  BY <1>3 DEF ReplayEvent, ReplayEnd, TeamEvent, TeamEnd, Drain, Playing, Ends, Alive, inputVars
<1> QED
  BY <1>1, <1>2, <1>3 DEF AtRest

LEMMA TakeEnds ==
  ASSUME Take
  PROVE  \/ Alive /\ exited' = exited
         \/ exited' \notin {"no", "close"} /\ stage' = "gone"
BY DEF Take, Process, Ends, Alive

LEMMA LinesKeep ==
  ASSUME LinesInv, [Next]_vars
  PROVE  LinesInv'
<1>1. LineTypes
  BY DEF LinesInv
<1>2. CASE Settle
  <2>1. queue' \in Seq(Seq(Lines)) /\ pending' = <<>> /\ InputsAreKept'
    BY <1>2, FlushKept DEF Settle
  <2>2. UNCHANGED <<line, owed, open, stage, exited>>
    BY <1>2 DEF Settle
  <2>3. <<>> \in Seq(Lines)
    BY EmptySeq
  <2> QED
    BY <2>1, <2>2, <2>3 DEF LinesInv, LineTypes, NothingLostAtClose, Alive
<1>3. CASE Take
  <2>1. queue' \in Seq(Seq(Lines)) /\ owed' \in Seq(Lines) /\ InputsAreKept'
    BY <1>3, TakeKept
  <2>2. UNCHANGED <<line, pending, open>>
    BY <1>3 DEF Take
  <2> QED
    BY <1>3, <2>1, <2>2, TakeEnds DEF LinesInv, LineTypes, NothingLostAtClose, Alive
<1>4. CASE AtRest
  <2>1. UNCHANGED <<line, pending, queue, owed, open>>
    BY <1>4, QuietFacts DEF inputVars
  <2> QED
    BY <1>1, <1>4, <2>1, QuietFacts, LinesRest DEF LineTypes
<1>5. ASSUME NEW t \in Texts, Type(t) PROVE LinesInv'
  <2>1. UNCHANGED <<pending, queue, owed, open, exited>> /\ line' \in Lines /\ Alive
    BY <1>5 DEF Type, Lines
  <2> QED
    BY <2>1, LinesRest
<1>6. CASE Enter
  <2>1. Alive /\ UNCHANGED <<queue, open, exited>>
    BY <1>6 DEF Enter, inputVars
  <2>2. CASE open
    <3>1. pending' = Append(pending, line) /\ owed' = Append(owed, line) /\ line' = "blank"
      BY <1>6, <2>2 DEF Enter
    <3>2. pending' \in Seq(Lines) /\ owed' \in Seq(Lines) /\ InputsAreKept'
      BY <2>1, <3>1, EnterKept
    <3> QED
      BY <2>1, <2>2, <3>1, <3>2 DEF LinesInv, LineTypes, Lines, NothingLostAtClose, Alive
  <2>3. CASE ~open
    <3>1. UNCHANGED <<line, pending, queue, owed, open>>
      BY <1>6, <2>3 DEF Enter, inputVars
    <3> QED
      BY <1>1, <2>1, <3>1, LinesRest DEF LineTypes
  <2> QED
    BY <2>2, <2>3
<1>7. CASE Esc
  <2>1. UNCHANGED <<pending, queue, owed, open, exited>> /\ line' \in Lines /\ Alive
    BY <1>1, <1>7 DEF Esc, LineTypes, Lines
  <2> QED
    BY <2>1, LinesRest
<1>8. CASE CtrlC
  <2>1. UNCHANGED <<pending, queue, owed, open>> /\ line' \in Lines
    BY <1>1, <1>8 DEF CtrlC, LineTypes, Lines, inputVars
  <2>2. \/ Alive /\ exited' = exited
        \/ exited' \notin {"no", "close"} /\ stage' = "gone"
    BY <1>8 DEF CtrlC, Ends
  <2> QED
    BY <2>1, <2>2, LinesRest
<1>9. CASE CtrlD
  <2>1. queue' \in Seq(Seq(Lines)) /\ pending' = <<>> /\ InputsAreKept'
    BY <1>9, FlushKept DEF CtrlD
  <2>2. UNCHANGED <<line, owed, exited>> /\ Alive /\ open' = FALSE
    BY <1>9 DEF CtrlD
  <2>3. <<>> \in Seq(Lines)
    BY EmptySeq
  <2> QED
    BY <2>1, <2>2, <2>3 DEF LinesInv, LineTypes, NothingLostAtClose, Alive
<1>10. CASE Close
  <2>1. UNCHANGED <<line, pending, queue, owed, open>> /\ exited' = "close" /\ stage' = "gone"
        /\ ~open /\ queue = <<>>
    BY <1>10 DEF Close, Ends, inputVars
  <2>2. pending = <<>> /\ Flat(queue) \o pending = owed /\ queue \in Seq(Seq(Lines))
    BY <2>1 DEF LinesInv, InputsAreKept, LineTypes
  <2>3. Flat(queue) = <<>>
    BY <2>1, <2>2, FlatFacts
  <2>4. <<>> \o <<>> = <<>>
    OBVIOUS
  <2> QED
    BY <1>1, <2>1, <2>2, <2>3, <2>4, InputsUnchanged DEF LineTypes
<1>11. CASE UNCHANGED vars
  BY <1>11 DEF vars, inputVars, LinesInv, LineTypes, InputsAreKept, NothingLostAtClose, Alive
<1> QED
  BY <1>2, <1>3, <1>4, <1>5, <1>6, <1>7, <1>8, <1>9, <1>10, <1>11 DEF Next, Chain, AtRest

LEMMA LinesBegin ==
  ASSUME Init
  PROVE  LinesInv
<1>1. queue = <<>> /\ pending = <<>> /\ owed = <<>> /\ line = "blank" /\ open = TRUE /\ exited = "no"
  BY DEF Init
<1>2. <<>> \in Seq(Lines) /\ <<>> \in Seq(Seq(Lines))
  BY EmptySeq
<1>3. Flat(<<>>) = <<>>
  BY <1>2, FlatFacts
<1>4. <<>> \o <<>> = <<>>
  OBVIOUS
<1> QED
  BY <1>1, <1>2, <1>3, <1>4 DEF LinesInv, LineTypes, Lines, InputsAreKept, NothingLostAtClose

(* However lines, pastes, timers, runs and ends of the input interleave,   *)
(* no line entered is lost, doubled or moved (replInput.ts, runRepl).      *)
THEOREM TheLinesAreKept == Spec => []LinesAreKept
<1>1. LinesInv => LinesAreKept
  BY DEF LinesInv, LinesAreKept
<1> QED
  BY LinesBegin, LinesKeep, <1>1, PTL DEF Spec

-----------------------------------------------------------------------------
(* The screen.                                                             *)

Card == [name : Tools, running : BOOLEAN]
CallRec == [name : Tools, at : {"new", "unparsed", "called", "asking", "answered"}]

(* The calls of the answer whose cards may be running.                     *)
IsTold(c) == c.at \in {"called", "asking", "answered"}
Told(batch) == {i \in DOMAIN batch : IsTold(batch[i])}

RunRec == [at : {"over", "exhausted", "round", "model", "tools"}, round : Nat,
           continued : BOOLEAN, batch : Seq(CallRec)]
HasBoxes(s) == {"shown", "boxes"} \subseteq DOMAIN s

ScreenTypes == screen.cards \in Seq(Card) /\ HasBoxes(screen) /\ run \in RunRec

(* Who reads keys, where; and where the palette of commands does not.      *)
OwnerFits ==
  \/ owner = "none"
  \/ owner = "picker" /\ stage \in {"pick", "logs", "offer", "agent"}
  \/ owner \in {"approve", "free"} /\ stage = "agent"
  \/ owner = "replay" /\ Playing
FlagFits == flag => stage \in {"pick", "logs", "offer", "replaying", "stopping"}

(* A batch is there while its calls are.                                   *)
BatchFits == run.batch # <<>> => stage = "agent" /\ run.at = "tools"
StageFits == stage = "team" => run.at = "over"

(* No more cards run than there are calls told and not answered.           *)
CardsFit == cut \/ Playing \/ Cardinality(Running(screen.cards)) <= Cardinality(Told(run.batch))

InRun == stage \in {"agent", "team"}
SpinFits == screen.spin => InRun \/ source = "replay"
BoxesFit ==
  IF InRun THEN ~screen.shown /\ screen.boxes = 0
  ELSE source = "run" => screen.boxes = IF run.at = "exhausted" THEN 2 ELSE 1

(* What holds until the process is gone.                                   *)
ScreenFits ==
  /\ ScreenTypes /\ OwnerFits /\ FlagFits /\ BatchFits /\ StageFits
  /\ CardsFit /\ SpinFits /\ BoxesFit
ScreenInv == Alive => ScreenFits

-----------------------------------------------------------------------------
(* What an event does to the cards.                                        *)

LEMMA GreatestOf ==
  ASSUME NEW n \in Nat, NEW T, T \subseteq 1..n, T # {}
  PROVE  LastOf(T) \in T
<1> DEFINE U == {m \in Nat : \E i \in T : m = n - i}
<1>1. U # {}
  <2>1. PICK i \in T : TRUE
    OBVIOUS
  <2>2. n - i \in Nat
    BY <2>1
  <2> QED
    BY <2>1, <2>2
<1>2. PICK m \in U : \A k \in U : m <= k
  BY <1>1, LeastOf
<1>3. PICK i \in T : m = n - i
  OBVIOUS
<1>4. ASSUME NEW j \in T PROVE j <= i
  <2>1. n - j \in U
    OBVIOUS
  <2>2. n - i <= n - j
    BY <1>2, <1>3, <2>1
  <2> QED
    BY <1>3, <2>2
<1> QED
  BY <1>3, <1>4 DEF LastOf

LEMMA RunningFacts ==
  ASSUME NEW c \in Seq(Card)
  PROVE  /\ Running(c) \subseteq 1..Len(c) /\ Len(c) \in Nat
         /\ IsFiniteSet(Running(c)) /\ Cardinality(Running(c)) \in Nat
<1>1. Running(c) \subseteq 1..Len(c) /\ Len(c) \in Nat
  BY DEF Running
<1>2. IsFiniteSet(1..Len(c))
  BY <1>1, FS_Interval
<1>3. IsFiniteSet(Running(c))
  BY <1>1, <1>2, FS_Subset
<1> QED
  BY <1>1, <1>3, FS_CardinalityType

LEMMA NewestLive ==
  ASSUME NEW c \in Seq(Card)
  PROVE  /\ Newest(c) \in Seq(Card)
         /\ Cardinality(Running(Newest(c))) <= Cardinality(Running(c))
<1>1. IsFiniteSet(Running(c)) /\ Cardinality(Running(c)) \in Nat /\ Len(c) \in Nat
  BY RunningFacts
<1>2. CASE ~(Len(c) > CardCap)
  BY <1>1, <1>2 DEF Newest
<1>3. CASE Len(c) > CardCap
  <2>1. PICK k \in Nat : k = Len(c) - CardCap
    BY <1>1, <1>3, TuiAssumption
  <2> DEFINE d == SubSeq(c, k + 1, Len(c))
  <2>2. Newest(c) = d
    BY <1>3, <2>1 DEF Newest
  <2>3. \A i \in k + 1 .. Len(c) : c[i] \in Card
    BY <2>1
  <2>4. k + 1 \in Int /\ Len(c) \in Int /\ k + 1 <= Len(c)
        /\ Len(c) - (k + 1) + 1 = CardCap /\ \A i \in Nat : (k + 1) + i - 1 = i + k
    BY <1>1, <1>3, <2>1, TuiAssumption
  <2>5. d \in Seq(Card) /\ Len(d) = CardCap /\ \A i \in 1..CardCap : d[i] = c[(k + 1) + i - 1]
    BY <2>3, <2>4, SubSeqProperties
  <2> HIDE DEF d
  <2>6. \A i \in Running(d) : i \in 1..CardCap /\ d[i].running
    BY <2>5 DEF Running
  <2>7. \A i \in Running(d) : i + k \in Running(c)
    <3> SUFFICES ASSUME NEW i \in Running(d) PROVE i + k \in Running(c)
      OBVIOUS
    <3>1. i \in 1..CardCap /\ d[i].running /\ d[i] = c[i + k]
      BY <2>4, <2>5, <2>6
    <3>2. i + k \in 1..Len(c)
      BY <2>1, <3>1, <1>1, TuiAssumption
    <3>3. i + k \in DOMAIN c
      BY <3>2
    <3> QED
      BY <3>1, <3>3 DEF Running
  <2> DEFINE f == [i \in Running(d) |-> i + k]
  <2>8. f \in Injection(Running(d), Running(c))
    <3>1. \A i, j \in Running(d) : i + k = j + k => i = j
      BY <2>1, <2>6
    <3> QED
      BY <2>7, <3>1 DEF Injection, IsInjective
  <2> HIDE DEF f
  <2>9. Cardinality(Running(d)) <= Cardinality(Running(c))
    BY <1>1, <2>8, FS_Injection
  <2> QED
    BY <2>2, <2>5, <2>9
<1> QED
  BY <1>2, <1>3

LEMMA CallLive ==
  ASSUME NEW c \in Seq(Card), NEW n \in Tools
  PROVE  LET d == Newest(Append(c, [name |-> n, running |-> TRUE]))
         IN /\ d \in Seq(Card)
            /\ Cardinality(Running(d)) <= Cardinality(Running(c)) + 1
<1>1. IsFiniteSet(Running(c)) /\ Cardinality(Running(c)) \in Nat /\ Len(c) \in Nat
      /\ Running(c) \subseteq 1..Len(c)
  BY RunningFacts
<1>2. PICK x \in Card : x = [name |-> n, running |-> TRUE]
  BY DEF Card
<1> DEFINE e == Append(c, x)
<1>3. e \in Seq(Card) /\ Len(e) = Len(c) + 1 /\ \A i \in 1..Len(c) : e[i] = c[i]
  BY AppendProperties
<1> HIDE DEF e
<1>4. Running(e) \subseteq Running(c) \cup {Len(c) + 1}
  <2> SUFFICES ASSUME NEW i \in Running(e), i # Len(c) + 1 PROVE i \in Running(c)
    OBVIOUS
  <2>1. i \in 1..Len(e) /\ e[i].running
    BY <1>3 DEF Running
  <2>2. i \in 1..Len(c)
    BY <1>1, <1>3, <2>1
  <2>3. i \in DOMAIN c /\ c[i].running
    BY <1>3, <2>1, <2>2
  <2> QED
    BY <2>3 DEF Running
<1>5. /\ IsFiniteSet(Running(c) \cup {Len(c) + 1})
      /\ Cardinality(Running(c) \cup {Len(c) + 1}) <= Cardinality(Running(c)) + 1
  <2>1. PICK m : m = Len(c) + 1
    OBVIOUS
  <2>2. IsFiniteSet(Running(c) \cup {m})
        /\ Cardinality(Running(c) \cup {m}) =
             IF m \in Running(c) THEN Cardinality(Running(c)) ELSE Cardinality(Running(c)) + 1
    BY <1>1, FS_AddElement
  <2> QED
    BY <1>1, <2>1, <2>2
<1>6. Cardinality(Running(e)) <= Cardinality(Running(c) \cup {Len(c) + 1})
  BY <1>4, <1>5, FS_Subset
<1>7. Newest(e) \in Seq(Card) /\ Cardinality(Running(Newest(e))) <= Cardinality(Running(e))
  BY <1>3, NewestLive
<1>8. Cardinality(Running(e)) \in Nat /\ Cardinality(Running(Newest(e))) \in Nat
      /\ Cardinality(Running(c) \cup {Len(c) + 1}) \in Nat
  BY <1>3, <1>5, <1>7, RunningFacts, FS_CardinalityType
<1>9. Cardinality(Running(Newest(e))) <= Cardinality(Running(c)) + 1
  BY <1>1, <1>5, <1>6, <1>7, <1>8
<1> QED
  BY <1>2, <1>7, <1>9 DEF e

(* A result marks one running card, as long as there is one.               *)
LEMMA ResultLive ==
  ASSUME NEW c \in Seq(Card), NEW n
  PROVE  /\ Marked(c, n) \in Seq(Card)
         /\ \/ Running(Marked(c, n)) = {}
            \/ Cardinality(Running(Marked(c, n))) = Cardinality(Running(c)) - 1
<1>1. IsFiniteSet(Running(c)) /\ Cardinality(Running(c)) \in Nat /\ Len(c) \in Nat
      /\ Running(c) \subseteq 1..Len(c)
  BY RunningFacts
<1> DEFINE same == {i \in Running(c) : c[i].name = n}
           any == IF same # {} THEN same ELSE Running(c)
<1>2. any \subseteq Running(c) /\ (any = {} => Running(c) = {})
  OBVIOUS
<1>3. Marked(c, n) = IF any = {} THEN c ELSE [c EXCEPT ![LastOf(any)].running = FALSE]
  BY DEF Marked
<1> HIDE DEF any, same
<1>4. CASE any = {}
  BY <1>2, <1>3, <1>4
<1>5. CASE any # {}
  <2>1. LastOf(any) \in any
    BY <1>1, <1>2, <1>5, GreatestOf
  <2>2. PICK k \in Running(c) : k = LastOf(any)
    BY <1>2, <2>1
  <2>3. k \in 1..Len(c) /\ k \in DOMAIN c /\ c[k] \in Card
    BY <1>1, <2>2
  <2> DEFINE x == [c[k] EXCEPT !.running = FALSE]
             d == [c EXCEPT ![k] = x]
  <2>4. x \in Card /\ x.running = FALSE
    BY <2>3 DEF Card
  <2>5. Marked(c, n) = d
    BY <1>3, <1>5, <2>2
  <2> HIDE DEF x
  <2>6. d \in Seq(Card) /\ DOMAIN d = DOMAIN c /\ d[k] = x /\ \A i \in DOMAIN c : i # k => d[i] = c[i]
    BY <2>3, <2>4
  <2> HIDE DEF d
  <2>7. Running(d) = Running(c) \ {k}
    BY <2>4, <2>6 DEF Running
  <2>8. Cardinality(Running(d)) = Cardinality(Running(c)) - 1
    BY <1>1, <2>2, <2>7, FS_RemoveElement
  <2> QED
    BY <2>5, <2>6, <2>8
<1> QED
  BY <1>4, <1>5

-----------------------------------------------------------------------------
(* Events in a row.                                                        *)

Steps(f, s, es, n) == f = [i \in 0..n |-> IF i = 0 THEN s ELSE OnEvent(f[i - 1], es[i])]
After(f, s, es) == Steps(f, s, es, Len(es))

LEMMA AfterExists ==
  ASSUME NEW s, NEW es, Len(es) \in Nat
  PROVE  \E f : After(f, s, es)
<1> DEFINE S == {n \in Nat : \E f : Steps(f, s, es, n)}
<1>1. 0 \in S
  <2> DEFINE f == [i \in 0..0 |-> s]
  <2>1. Steps(f, s, es, 0)
    BY DEF Steps
  <2> QED
    BY <2>1
<1>2. ASSUME NEW n \in Nat, n \in S PROVE n + 1 \in S
  <2>1. PICK f : Steps(f, s, es, n)
    BY <1>2
  <2> DEFINE h == [i \in 0..(n + 1) |-> IF i = 0 THEN s ELSE OnEvent(f[i - 1], es[i])]
  <2>2. \A i \in 0..n : h[i] = f[i]
    BY <2>1 DEF Steps
  <2>3. \A i \in 0..(n + 1) : i # 0 => i - 1 \in 0..n
    OBVIOUS
  <2> HIDE DEF h
  <2>4. h = [i \in 0..(n + 1) |-> IF i = 0 THEN s ELSE OnEvent(h[i - 1], es[i])]
    BY <2>2, <2>3 DEF h
  <2>5. Steps(h, s, es, n + 1)
    BY <2>4 DEF Steps
  <2> QED
    BY <2>5
<1> HIDE DEF S
<1>3. Nat \subseteq S
  BY <1>1, <1>2, NatInd
<1> QED
  BY <1>3 DEF S, After

LEMMA RenderedUnfolds ==
  ASSUME NEW s, NEW es, Len(es) \in Nat
  PROVE  \E f : /\ f[0] = s /\ \A i \in 1..Len(es) : f[i] = OnEvent(f[i - 1], es[i])
                /\ Rendered(s, es) = f[Len(es)]
<1> DEFINE g == CHOOSE f : After(f, s, es)
<1>1. After(g, s, es)
  BY AfterExists
<1>2. Rendered(s, es) = g[Len(es)]
  BY DEF Rendered, After, Steps
<1> HIDE DEF g
<1>3. g[0] = s /\ \A i \in 1..Len(es) : g[i] = OnEvent(g[i - 1], es[i])
  BY <1>1 DEF After, Steps
<1> QED
  BY <1>2, <1>3

LEMMA RenderedNone == \A s : Rendered(s, <<>>) = s
<1> SUFFICES ASSUME NEW s PROVE Rendered(s, <<>>) = s
  OBVIOUS
<1>1. Len(<<>>) = 0
  OBVIOUS
<1> QED
  BY <1>1, RenderedUnfolds

LEMMA RenderedOne == \A s, e : Rendered(s, <<e>>) = OnEvent(s, e)
<1> SUFFICES ASSUME NEW s, NEW e PROVE Rendered(s, <<e>>) = OnEvent(s, e)
  OBVIOUS
<1>1. Len(<<e>>) = 1 /\ <<e>>[1] = e /\ 1 \in 1..1 /\ 1 - 1 = 0
  OBVIOUS
<1> QED
  BY <1>1, RenderedUnfolds

LEMMA RenderedTwo == \A s, d, e : Rendered(s, <<d, e>>) = OnEvent(OnEvent(s, d), e)
<1> SUFFICES ASSUME NEW s, NEW d, NEW e PROVE Rendered(s, <<d, e>>) = OnEvent(OnEvent(s, d), e)
  OBVIOUS
<1>1. Len(<<d, e>>) = 2 /\ <<d, e>>[1] = d /\ <<d, e>>[2] = e
      /\ 1 \in 1..2 /\ 2 \in 1..2 /\ 1 - 1 = 0 /\ 2 - 1 = 1
  OBVIOUS
<1> QED
  BY <1>1, RenderedUnfolds

LEMMA EventFields ==
  ASSUME NEW s, NEW e
  PROVE  /\ OnEvent(s, e).spin = Spin(s, e)
         /\ OnEvent(s, e).cards = Cards(s, e)
         /\ OnEvent(s, e).shown = (s.shown \/ Boxed(s, e))
         /\ OnEvent(s, e).boxes = s.boxes + IF Boxed(s, e) THEN 1 ELSE 0
BY Zenon DEF OnEvent

(* Events that touch neither cards nor receipts, and events that end.      *)
Plain == {"iteration", "thinking", "compact", "spec_plan", "continuation", "model_switch",
          "background", "role_start", "role_complete", "escalation", "task_over"}

LEMMA PlainEvent ==
  ASSUME NEW s, NEW e, e.type \in Plain, s.boxes \in Int
  PROVE  /\ OnEvent(s, e).cards = s.cards /\ OnEvent(s, e).boxes = s.boxes
         /\ ~s.shown => ~OnEvent(s, e).shown
<1>1. e.type \notin {"done", "error", "tool_call", "tool_result"}
  BY DEF Plain
<1>2. ~Boxed(s, e)
  BY <1>1 DEF Boxed
<1>3. Cards(s, e) = s.cards
  BY <1>1 DEF Cards
<1>4. OnEvent(s, e).cards = s.cards
  BY <1>3, EventFields
<1>5. OnEvent(s, e).boxes = s.boxes + 0
  BY <1>2, EventFields
<1>6. ~s.shown => ~OnEvent(s, e).shown
  BY <1>2, EventFields, Zenon
<1> QED
  BY <1>4, <1>5, <1>6

LEMMA PlainRendered ==
  ASSUME NEW s, NEW es, Len(es) \in Nat, s.boxes \in Int,
         \A i \in 1..Len(es) : es[i].type \in Plain
  PROVE  /\ Rendered(s, es).cards = s.cards /\ Rendered(s, es).boxes = s.boxes
         /\ ~s.shown => ~Rendered(s, es).shown
<1>1. PICK f : /\ f[0] = s /\ \A i \in 1..Len(es) : f[i] = OnEvent(f[i - 1], es[i])
               /\ Rendered(s, es) = f[Len(es)]
  BY RenderedUnfolds
<1> DEFINE Same(t) == t.cards = s.cards /\ t.boxes = s.boxes /\ (~s.shown => ~t.shown)
           S == {i \in Nat : i <= Len(es) => Same(f[i])}
<1>2. Same(f[0])
  BY <1>1
<1>3. ASSUME NEW n \in Nat, n + 1 <= Len(es), Same(f[n]) PROVE Same(f[n + 1])
  <2>1. PICK m \in Nat : m = n + 1
    OBVIOUS
  <2>2. m \in 1..Len(es) /\ m - 1 = n
    BY <1>3, <2>1
  <2>3. f[m] = OnEvent(f[n], es[m]) /\ es[m].type \in Plain
    BY <1>1, <2>2
  <2>4. f[n].boxes \in Int
    BY <1>3
  <2> QED
    BY <1>3, <2>1, <2>3, <2>4, PlainEvent
<1> HIDE DEF Same
<1>4. \A n \in Nat : n \in S => n + 1 \in S
  BY <1>3
<1>5. 0 \in S
  BY <1>2
<1> HIDE DEF S
<1>6. Nat \subseteq S
  BY <1>4, <1>5, NatInd
<1>7. Same(f[Len(es)])
  BY <1>6 DEF S
<1> QED
  BY <1>1, <1>7 DEF Same

(* The end of a run: the spinner is off.                                   *)
LEMMA StoppingEvent ==
  ASSUME NEW s, NEW e, e.type \in {"done", "error"}
  PROVE  /\ ~OnEvent(s, e).spin /\ OnEvent(s, e).cards = s.cards
         /\ OnEvent(s, e).boxes = s.boxes + IF Boxed(s, e) THEN 1 ELSE 0
         /\ Boxed(s, e) => OnEvent(s, e).shown
<1>1. ~Spin(s, e)
  BY DEF Spin, Spinning, Stopping
<1>2. Cards(s, e) = s.cards
  BY DEF Cards
<1> QED
  BY <1>1, <1>2, EventFields

LEMMA CallEvent ==
  ASSUME NEW s, NEW n
  PROVE  LET t == OnEvent(s, CallEv(n))
         IN /\ t.cards = Newest(Append(s.cards, [name |-> n, running |-> TRUE]))
            /\ s.boxes \in Int => t.boxes = s.boxes
            /\ ~s.shown => ~t.shown
<1> DEFINE e == CallEv(n)
<1>1. e.type = "tool_call" /\ e.name = n
  BY DEF CallEv, Ev
<1> HIDE DEF e
<1>2. ~Boxed(s, e) /\ Cards(s, e) = Newest(Append(s.cards, [name |-> n, running |-> TRUE]))
  BY <1>1 DEF Boxed, Cards
<1>3. OnEvent(s, e).boxes = s.boxes + 0
  BY <1>2, EventFields
<1>4. ~s.shown => ~OnEvent(s, e).shown
  BY <1>2, EventFields, Zenon
<1>5. OnEvent(s, e).cards = Cards(s, e)
  BY EventFields
<1> QED
  BY <1>2, <1>3, <1>4, <1>5 DEF e

LEMMA ResultEvent ==
  ASSUME NEW s, NEW e, e.type = "tool_result", s.boxes \in Int
  PROVE  /\ OnEvent(s, e).cards = Marked(s.cards, e.name)
         /\ OnEvent(s, e).boxes = s.boxes
         /\ ~s.shown => ~OnEvent(s, e).shown
<1>1. ~Boxed(s, e) /\ Cards(s, e) = Marked(s.cards, e.name)
  BY DEF Boxed, Cards
<1>2. OnEvent(s, e).boxes = s.boxes + 0
  BY <1>1, EventFields
<1>3. ~s.shown => ~OnEvent(s, e).shown
  BY <1>1, EventFields, Zenon
<1> QED
  BY <1>1, <1>2, <1>3, EventFields

(* Results, one for every card that runs, and what follows them.           *)
LEMMA ResultsRendered ==
  ASSUME NEW s, s.cards \in Seq(Card), s.boxes \in Int,
         NEW es, Len(es) \in Nat, NEW n \in 0..Len(es),
         \A i \in 1..n : es[i].type = "tool_result",
         \A i \in 1..Len(es) : i > n => es[i].type \in Plain
  PROVE  LET t == Rendered(s, es)
         IN /\ t.cards \in Seq(Card) /\ t.boxes = s.boxes /\ (~s.shown => ~t.shown)
            /\ Cardinality(Running(s.cards)) <= n => Running(t.cards) = {}
<1>1. PICK f : /\ f[0] = s /\ \A i \in 1..Len(es) : f[i] = OnEvent(f[i - 1], es[i])
               /\ Rendered(s, es) = f[Len(es)]
  BY RenderedUnfolds
<1> DEFINE Kept(t) == t.cards \in Seq(Card) /\ t.boxes = s.boxes /\ (~s.shown => ~t.shown)
           Fewer(t, i) == Running(t.cards) = {} \/ Cardinality(Running(t.cards)) + i <= n
           Good(t, i) == Kept(t) /\ (Cardinality(Running(s.cards)) <= n => Fewer(t, i))
           Fine(i) == i <= Len(es) => Good(f[i], i)
           S == {i \in Nat : Fine(i)}
<1>2. Good(f[0], 0)
  <2>1. Cardinality(Running(s.cards)) \in Nat
    BY RunningFacts
  <2>2. Cardinality(Running(s.cards)) + 0 = Cardinality(Running(s.cards))
    BY <2>1
  <2> QED
    BY <1>1, <2>2
<1>3. ASSUME NEW i \in Nat, NEW m \in Nat, m = i + 1, m <= Len(es), Good(f[i], i) PROVE Good(f[m], m)
  <2>1. m \in 1..Len(es) /\ m - 1 = i
    BY <1>3
  <2>2. f[m] = OnEvent(f[i], es[m])
    BY <1>1, <2>1
  <2>3. f[i].cards \in Seq(Card) /\ f[i].boxes \in Int /\ Kept(f[i])
    BY <1>3
  <2>4. Cardinality(Running(f[i].cards)) \in Nat
    BY <2>3, RunningFacts
  <2>5. CASE m <= n
    <3>1. es[m].type = "tool_result"
      BY <2>1, <2>5
    <3>2. /\ f[m].cards = Marked(f[i].cards, es[m].name) /\ f[m].boxes = f[i].boxes
          /\ ~f[i].shown => ~f[m].shown
      BY <2>2, <2>3, <3>1, ResultEvent
    <3>3. /\ f[m].cards \in Seq(Card)
          /\ \/ Running(f[m].cards) = {}
             \/ Cardinality(Running(f[m].cards)) = Cardinality(Running(f[i].cards)) - 1
      BY <2>3, <3>2, ResultLive
    <3>4. Kept(f[m])
      BY <2>3, <3>2, <3>3
    <3>5. ASSUME Cardinality(Running(s.cards)) <= n PROVE Fewer(f[m], m)
      <4>1. Fewer(f[i], i)
        BY <1>3, <3>5
      <4>2. CASE Running(f[i].cards) = {}
        <5>1. Cardinality(Running(f[i].cards)) = 0
          BY <4>2, FS_EmptySet
        <5>2. Cardinality(Running(f[m].cards)) \in Nat
          BY <3>3, RunningFacts
        <5> QED
          BY <3>3, <5>1, <5>2
      <4>3. CASE Cardinality(Running(f[i].cards)) + i <= n
        <5>1. Cardinality(Running(f[i].cards)) - 1 + m <= n
          BY <1>3, <2>4, <4>3
        <5> QED
          BY <3>3, <5>1
      <4> QED
        BY <4>1, <4>2, <4>3
    <3> QED
      BY <3>4, <3>5
  <2>6. CASE m > n
    <3>1. es[m].type \in Plain
      BY <2>1, <2>6
    <3>2. /\ f[m].cards = f[i].cards /\ f[m].boxes = f[i].boxes
          /\ ~f[i].shown => ~f[m].shown
      BY <2>2, <2>3, <3>1, PlainEvent
    <3>3. Kept(f[m])
      BY <2>3, <3>2
    <3>4. ASSUME Cardinality(Running(s.cards)) <= n PROVE Fewer(f[m], m)
      <4>1. Fewer(f[i], i)
        BY <1>3, <3>4
      <4>2. CASE Cardinality(Running(f[i].cards)) + i <= n
        <5>1. Cardinality(Running(f[i].cards)) = 0
          BY <1>3, <2>4, <2>6, <4>2
        <5>2. IsFiniteSet(Running(f[i].cards))
          BY <2>3, RunningFacts
        <5>3. Running(f[i].cards) = {}
          BY <5>1, <5>2, FS_EmptySet
        <5> QED
          BY <3>2, <5>3
      <4> QED
        BY <3>2, <4>1, <4>2
    <3> QED
      BY <3>3, <3>4
  <2> QED
    BY <2>5, <2>6, <1>3
<1> HIDE DEF Good
<1>4. ASSUME NEW i \in Nat, Fine(i) PROVE Fine(i + 1)
  <2> SUFFICES ASSUME i + 1 <= Len(es) PROVE Good(f[i + 1], i + 1)
    OBVIOUS
  <2>1. PICK m \in Nat : m = i + 1
    OBVIOUS
  <2>2. m <= Len(es) /\ Good(f[i], i)
    BY <1>4, <2>1
  <2>3. Good(f[m], m)
    BY <1>3, <2>1, <2>2
  <2> QED
    BY <2>1, <2>3
<1>5. Fine(0)
  BY <1>2
<1> HIDE DEF Fine
<1>6. Nat \subseteq S
  <2>1. 0 \in S /\ \A i \in Nat : i \in S => i + 1 \in S
    <3>1. 0 \in S
      BY <1>5
    <3>2. ASSUME NEW i \in Nat, i \in S PROVE i + 1 \in S
      <4>1. Fine(i + 1)
        BY <1>4, <3>2
      <4>2. i + 1 \in Nat
        OBVIOUS
      <4> HIDE DEF Fine
      <4> QED
        BY <4>1, <4>2
    <3> QED
      BY <3>1, <3>2
  <2> HIDE DEF S
  <2> QED
    BY <2>1, NatInd
<1>7. Good(f[Len(es)], Len(es))
  BY <1>6 DEF Fine
<1>8. Rendered(s, es).cards \in Seq(Card)
  BY <1>1, <1>7 DEF Good
<1>9. ASSUME Fewer(Rendered(s, es), Len(es)) PROVE Running(Rendered(s, es).cards) = {}
  <2>1. IsFiniteSet(Running(Rendered(s, es).cards)) /\ Cardinality(Running(Rendered(s, es).cards)) \in Nat
    BY <1>8, RunningFacts
  <2>2. CASE Cardinality(Running(Rendered(s, es).cards)) + Len(es) <= n
    <3>1. Cardinality(Running(Rendered(s, es).cards)) = 0
      BY <2>1, <2>2
    <3> QED
      BY <2>1, <3>1, FS_EmptySet
  <2> QED
    BY <1>9, <2>2
<1> QED
  BY <1>1, <1>7, <1>9 DEF Good

LEMMA RenderedHas ==
  ASSUME NEW s, HasBoxes(s), NEW es, Len(es) \in Nat
  PROVE  HasBoxes(Rendered(s, es))
<1>1. \A t, e : HasBoxes(OnEvent(t, e))
  BY DEF HasBoxes, OnEvent
<1>2. PICK f : /\ f[0] = s /\ \A i \in 1..Len(es) : f[i] = OnEvent(f[i - 1], es[i])
               /\ Rendered(s, es) = f[Len(es)]
  BY RenderedUnfolds
<1>3. CASE Len(es) = 0
  BY <1>2, <1>3
<1>4. CASE Len(es) # 0
  <2>1. Len(es) \in 1..Len(es)
    BY <1>4
  <2> QED
    BY <1>1, <1>2, <2>1
<1> QED
  BY <1>3, <1>4

LEMMA NextTurnFacts ==
  ASSUME NEW s, HasBoxes(s)
  PROVE  /\ NextTurn(s).cards = s.cards /\ HasBoxes(NextTurn(s))
         /\ ~NextTurn(s).shown /\ NextTurn(s).boxes = 0
BY DEF NextTurn, HasBoxes

-----------------------------------------------------------------------------
(* The steps that leave the renderer alone.                                *)

LEMMA SameScreen ==
  ASSUME ScreenFits, UNCHANGED <<screen, run, owner, stage, flag, cut, source>>
  PROVE  ScreenFits'
BY DEF ScreenFits, ScreenTypes, OwnerFits, FlagFits, BatchFits, StageFits, CardsFit, SpinFits,
       BoxesFit, InRun, Playing

LEMMA Moves ==
  ASSUME ScreenFits, ~InRun, UNCHANGED runVars, stage' \notin {"agent", "team"},
         Playing => Playing', OwnerFits', FlagFits'
  PROVE  ScreenFits'
<1>1. run.batch = <<>>
  BY DEF ScreenFits, BatchFits, InRun
<1>2. UNCHANGED <<screen, run, cut, source>> /\ ~InRun'
  BY DEF runVars, InRun
<1>3. ScreenTypes' /\ BatchFits' /\ StageFits'
  BY <1>1, <1>2 DEF ScreenFits, ScreenTypes, BatchFits, StageFits
<1>4. CardsFit'
  BY <1>2 DEF ScreenFits, CardsFit
<1>5. SpinFits' /\ BoxesFit'
  BY <1>2 DEF ScreenFits, SpinFits, BoxesFit
<1> QED
  BY <1>3, <1>4, <1>5 DEF ScreenFits

LEMMA Idles ==
  ASSUME ScreenFits, ~InRun, ~Playing, UNCHANGED runVars, ToPrompt, ~flag'
  PROVE  ScreenFits'
<1>1. OwnerFits' /\ FlagFits' /\ stage' \notin {"agent", "team"}
  BY DEF ToPrompt, OwnerFits, FlagFits
<1> QED
  BY <1>1, Moves

LEMMA NoCards ==
  ASSUME ScreenFits, ~InRun, ~Playing
  PROVE  cut \/ Running(screen.cards) = {}
<1> SUFFICES ASSUME ~cut PROVE Running(screen.cards) = {}
  OBVIOUS
<1>1. run.batch = <<>>
  BY DEF ScreenFits, BatchFits, InRun
<1>2. Told(run.batch) = {}
  BY <1>1 DEF Told
<1>3. Cardinality(Running(screen.cards)) <= 0
  BY <1>2, FS_EmptySet DEF ScreenFits, CardsFit
<1>4. IsFiniteSet(Running(screen.cards)) /\ Cardinality(Running(screen.cards)) \in Nat
  BY RunningFacts DEF ScreenFits, ScreenTypes
<1>5. Cardinality(Running(screen.cards)) = 0
  BY <1>3, <1>4
<1> QED
  BY <1>4, <1>5, FS_EmptySet

LEMMA NoRunFacts ==
  /\ NoRun \in RunRec /\ NoRun.batch = <<>> /\ NoRun.at = "over" /\ Told(<<>>) = {}
  /\ \A a \in {"over", "exhausted", "round"} :
       LET r == [NoRun EXCEPT !.at = a] IN r \in RunRec /\ r.batch = <<>> /\ r.at = a
<1>1. NoRun \in RunRec /\ NoRun.batch = <<>> /\ NoRun.at = "over" /\ Told(<<>>) = {}
  BY DEF NoRun, RunRec, Told
<1>2. ASSUME NEW a \in {"over", "exhausted", "round"}
      PROVE LET r == [NoRun EXCEPT !.at = a] IN r \in RunRec /\ r.batch = <<>> /\ r.at = a
  <2>1. PICK r \in RunRec : r = NoRun
    BY <1>1
  <2>2. [r EXCEPT !.at = a] \in RunRec /\ [r EXCEPT !.at = a].batch = r.batch /\ [r EXCEPT !.at = a].at = a
    BY DEF RunRec
  <2> QED
    BY <1>1, <2>1, <2>2
<1> QED
  BY <1>1, <1>2

(* A run begins.                                                           *)
LEMMA Begins ==
  ASSUME ScreenFits, ~InRun, ~Playing, stage' \in {"agent", "team"}, owner' = "none", ~flag',
         screen'.cards = screen.cards, HasBoxes(screen'), ~screen'.shown, screen'.boxes = 0,
         cut' = cut, run' \in RunRec, run'.batch = <<>>, stage' = "team" => run'.at = "over"
  PROVE  ScreenFits'
<1>1. cut \/ Running(screen.cards) = {}
  BY NoCards
<1>2. CardsFit'
  <2>1. Told(run'.batch) = {}
    BY DEF Told
  <2>2. ASSUME ~cut' PROVE Cardinality(Running(screen'.cards)) <= Cardinality(Told(run'.batch))
    <3>1. Running(screen'.cards) = {}
      BY <1>1, <2>2
    <3>2. Cardinality({}) = 0 /\ 0 <= 0
      BY FS_EmptySet
    <3> QED
      BY <2>1, <3>1, <3>2
  <2> QED
    BY <2>2 DEF CardsFit
<1>3. InRun'
  BY DEF InRun
<1>4. SpinFits' /\ BoxesFit'
  BY <1>3 DEF SpinFits, BoxesFit
<1>5. OwnerFits' /\ FlagFits' /\ BatchFits' /\ StageFits'
  BY DEF OwnerFits, FlagFits, BatchFits, StageFits
<1>6. ScreenTypes'
  BY DEF ScreenFits, ScreenTypes
<1> QED
  BY <1>2, <1>4, <1>5, <1>6 DEF ScreenFits

LEMMA TeamBegins ==
  ASSUME ScreenFits, ~InRun, ~Playing, BeginTeam
  PROVE  ScreenFits'
<1>1. /\ NextTurn(screen).cards = screen.cards /\ HasBoxes(NextTurn(screen))
      /\ ~NextTurn(screen).shown /\ NextTurn(screen).boxes = 0
  BY NextTurnFacts DEF ScreenFits, ScreenTypes
<1>2. stage' = "team" /\ owner' = "none" /\ ~flag' /\ screen' = NextTurn(screen) /\ run' = NoRun
      /\ cut' = cut
  BY DEF BeginTeam
<1> QED
  BY <1>1, <1>2, NoRunFacts, Begins

LEMMA AgentBegins ==
  ASSUME ScreenFits, ~InRun, ~Playing, BeginAgent
  PROVE  ScreenFits'
<1> DEFINE s == NextTurn(screen)
<1>1. s.cards = screen.cards /\ HasBoxes(s) /\ ~s.shown /\ s.boxes = 0
  BY NextTurnFacts DEF ScreenFits, ScreenTypes
<1>2. PICK es \in {<<>>, <<Ev("background")>>, <<Ev("spec_plan")>>, <<Ev("background"), Ev("spec_plan")>>} :
        screen' = Rendered(s, es)
  BY DEF BeginAgent
<1>3. stage' = "agent" /\ owner' = "none" /\ ~flag' /\ run' = [NoRun EXCEPT !.at = "round"] /\ cut' = cut
  BY DEF BeginAgent
<1>4. Len(es) \in Nat /\ \A i \in 1..Len(es) : es[i].type \in Plain
  BY <1>2 DEF Ev, Plain
<1> HIDE DEF s
<1>5. screen'.cards = s.cards /\ screen'.boxes = s.boxes /\ ~screen'.shown
  BY <1>1, <1>2, <1>4, PlainRendered
<1>6. HasBoxes(screen')
  BY <1>1, <1>2, <1>4, RenderedHas
<1> QED
  BY <1>1, <1>3, <1>5, <1>6, NoRunFacts, Begins

(* A step within a run, and its end.                                       *)
LEMMA RunsOn ==
  ASSUME ScreenFits, InRun, UNCHANGED <<stage, flag, cut, source>>, OwnerFits',
         ScreenTypes', BatchFits', StageFits', CardsFit', ~screen'.shown, screen'.boxes = 0
  PROVE  ScreenFits'
<1>1. InRun'
  BY DEF InRun
<1>2. SpinFits' /\ BoxesFit'
  BY <1>1 DEF SpinFits, BoxesFit
<1>3. FlagFits'
  BY DEF ScreenFits, FlagFits
<1> QED
  BY <1>2, <1>3 DEF ScreenFits

LEMMA RunEnds ==
  ASSUME ScreenFits, InRun, ToPrompt, UNCHANGED <<flag, cut, source>>,
         HasBoxes(screen'), screen'.cards = screen.cards, ~screen'.spin,
         run.batch = <<>>, run' \in RunRec, run'.batch = <<>>,
         screen'.boxes = IF run'.at = "exhausted" THEN 2 ELSE 1
  PROVE  ScreenFits'
<1>1. stage' = "idle" /\ owner' = "none" /\ ~InRun' /\ ~Playing
  BY DEF ToPrompt, InRun, Playing
<1>2. ~flag'
  BY DEF ScreenFits, FlagFits, InRun
<1>3. OwnerFits' /\ FlagFits' /\ BatchFits' /\ StageFits'
  BY <1>1, <1>2 DEF OwnerFits, FlagFits, BatchFits, StageFits
<1>4. CardsFit'
  BY <1>1 DEF ScreenFits, CardsFit
<1>5. SpinFits' /\ BoxesFit'
  BY <1>1 DEF SpinFits, BoxesFit
<1>6. ScreenTypes'
  BY DEF ScreenFits, ScreenTypes
<1> QED
  BY <1>3, <1>4, <1>5, <1>6 DEF ScreenFits

(* The last events of a run: one new digest, then perhaps the same again.  *)
LEMMA ShownOnce ==
  ASSUME NEW s, s.boxes = 0, NEW t \in {"done", "error"}, NEW e, e = EndEv(t, "new")
  PROVE  /\ e.type = t /\ ~OnEvent(s, e).spin /\ OnEvent(s, e).cards = s.cards
         /\ OnEvent(s, e).boxes = 1 /\ OnEvent(s, e).shown
<1>1. e.type = t /\ e.digest = "new"
  BY DEF EndEv, Ev
<1>2. ~OnEvent(s, e).spin /\ OnEvent(s, e).cards = s.cards
      /\ OnEvent(s, e).boxes = s.boxes + IF Boxed(s, e) THEN 1 ELSE 0
  BY <1>1, StoppingEvent
<1>3. Boxed(s, e)
  BY <1>1 DEF Boxed
<1>4. OnEvent(s, e).shown
  BY <1>3, EventFields, Zenon
<1>5. OnEvent(s, e).boxes = 0 + 1
  BY <1>2, <1>3
<1> QED
  BY <1>1, <1>2, <1>4, <1>5

LEMMA ShownAgain ==
  ASSUME NEW s, s.shown, s.boxes = 1, NEW e, NEW t \in {"done", "error"}, NEW d \in {"new", "same"},
         e = EndEv(t, d)
  PROVE  /\ ~OnEvent(s, e).spin /\ OnEvent(s, e).cards = s.cards
         /\ OnEvent(s, e).boxes = IF d = "new" THEN 2 ELSE 1
<1>1. e.type = t /\ e.digest = d
  BY DEF EndEv, Ev
<1>2. ~OnEvent(s, e).spin /\ OnEvent(s, e).cards = s.cards
      /\ OnEvent(s, e).boxes = s.boxes + IF Boxed(s, e) THEN 1 ELSE 0
  BY <1>1, StoppingEvent
<1>3. CASE d = "new"
  <2>1. Boxed(s, e)
    BY <1>1, <1>3 DEF Boxed
  <2>2. OnEvent(s, e).boxes = 1 + 1
    BY <1>2, <2>1
  <2> QED
    BY <1>2, <1>3, <2>2
<1>4. CASE d = "same"
  <2>1. ~Boxed(s, e)
    BY <1>1, <1>4 DEF Boxed
  <2>2. OnEvent(s, e).boxes = 1 + 0
    BY <1>2, <2>1
  <2> QED
    BY <1>2, <1>4, <2>2
<1> QED
  BY <1>3, <1>4

LEMMA PlainNames ==
  /\ \A t : Ev(t).type = t
  /\ {"iteration", "thinking", "compact", "spec_plan", "role_start", "role_complete", "task_over",
      "escalation", "continuation", "model_switch", "background"} = Plain
BY DEF Ev, Plain

-----------------------------------------------------------------------------
(* Replays and teams.                                                      *)

LEMMA ReplayEventScreen ==
  ASSUME ScreenFits, ReplayEvent
  PROVE  ScreenFits'
<1>1. stage = "replaying" /\ stage' = "replaying" /\ source' = "replay" /\ run' = run
      /\ owner' = owner /\ flag' = flag /\ Playing /\ Playing' /\ ~InRun'
  BY DEF ReplayEvent, keyVars, Playing, InRun
<1>2. PICK e \in Recorded : screen' = OnEvent(screen, e)
  BY DEF ReplayEvent
<1>3. HasBoxes(screen') /\ screen'.cards = Cards(screen, e)
  BY <1>2, EventFields DEF HasBoxes, OnEvent
<1>4. screen.cards \in Seq(Card) /\ run \in RunRec
  BY DEF ScreenFits, ScreenTypes
<1>5. screen'.cards \in Seq(Card)
  <2>1. CASE e.type = "tool_call"
    <3>1. e.name \in Tools
      BY <2>1, <1>2 DEF Recorded, Ev, CallEv, ResultEv
    <3>2. screen'.cards = Newest(Append(screen.cards, [name |-> e.name, running |-> TRUE]))
      BY <1>3, <2>1 DEF Cards
    <3> QED
      BY <1>4, <3>1, <3>2, CallLive
  <2>2. CASE e.type = "tool_result"
    <3>1. screen'.cards = Marked(screen.cards, e.name)
      BY <1>3, <2>2 DEF Cards
    <3> QED
      BY <1>4, <3>1, ResultLive
  <2>3. CASE e.type \notin {"tool_call", "tool_result"}
    <3>1. screen'.cards = screen.cards
      BY <1>3, <2>3 DEF Cards
    <3> QED
      BY <1>4, <3>1
  <2> QED
    BY <2>1, <2>2, <2>3
<1>6. ScreenTypes' /\ CardsFit'
  BY <1>1, <1>3, <1>4, <1>5 DEF ScreenTypes, CardsFit
<1>7. SpinFits' /\ BoxesFit'
  BY <1>1 DEF SpinFits, BoxesFit
<1>8. OwnerFits' /\ FlagFits' /\ BatchFits' /\ StageFits'
  BY <1>1 DEF ScreenFits, OwnerFits, FlagFits, BatchFits, StageFits
<1> QED
  BY <1>6, <1>7, <1>8 DEF ScreenFits

LEMMA ReplayEndScreen ==
  ASSUME ScreenFits, ReplayEnd
  PROVE  ScreenFits'
<1>1. Playing /\ stage' = "idle" /\ owner' = "none" /\ flag' = FALSE /\ screen' = screen /\ run' = run
      /\ source' = source /\ cut' = (cut \/ Running(screen.cards) # {})
  BY DEF ReplayEnd, ToPrompt
<1>2. ~InRun /\ ~InRun' /\ run.batch = <<>>
  BY <1>1 DEF Playing, InRun, ScreenFits, BatchFits
<1>3. CardsFit'
  <2>1. CASE Running(screen.cards) # {}
    BY <1>1, <2>1, Zenon DEF CardsFit
  <2>2. CASE Running(screen.cards) = {}
    <3>1. Running(screen'.cards) = {} /\ Told(run'.batch) = {} /\ Cardinality({}) = 0 /\ 0 <= 0
      <4>1. Told(<<>>) = {}
        BY NoRunFacts
      <4>2. Cardinality({}) = 0
        BY FS_EmptySet
      <4> QED
        BY <1>1, <1>2, <2>2, <4>1, <4>2
    <3>2. Cardinality(Running(screen'.cards)) <= Cardinality(Told(run'.batch))
      BY <3>1
    <3> QED
      BY <3>2 DEF CardsFit
  <2> QED
    BY <2>1, <2>2
<1>4. ScreenTypes' /\ SpinFits' /\ BoxesFit'
  BY <1>1, <1>2 DEF ScreenFits, ScreenTypes, SpinFits, BoxesFit
<1>5. OwnerFits' /\ FlagFits' /\ BatchFits' /\ StageFits'
  BY <1>1, <1>2 DEF OwnerFits, FlagFits, BatchFits, StageFits
<1> QED
  BY <1>3, <1>4, <1>5 DEF ScreenFits

LEMMA TeamEventScreen ==
  ASSUME ScreenFits, TeamEvent
  PROVE  ScreenFits'
<1>1. stage = "team" /\ UNCHANGED <<stage, flag, owner, run, cut, source>> /\ InRun
  BY DEF TeamEvent, keyVars, InRun
<1>2. PICK type \in {"role_start", "role_complete"} : screen' = OnEvent(screen, Ev(type))
  BY DEF TeamEvent
<1>3. ~screen.shown /\ screen.boxes = 0
  BY <1>1 DEF ScreenFits, BoxesFit
<1>4. Ev(type).type \in Plain
  BY <1>2, PlainNames
<1>5. screen'.cards = screen.cards /\ screen'.boxes = 0 /\ ~screen'.shown
  BY <1>2, <1>3, <1>4, PlainEvent
<1>6. HasBoxes(screen')
  BY <1>2 DEF HasBoxes, OnEvent
<1>7. ScreenTypes' /\ OwnerFits' /\ BatchFits' /\ StageFits'
  BY <1>1, <1>5, <1>6 DEF ScreenFits, ScreenTypes, OwnerFits, BatchFits, StageFits, Playing
<1>8. CardsFit'
  BY <1>1, <1>5 DEF ScreenFits, CardsFit, Playing
<1> QED
  BY <1>1, <1>5, <1>7, <1>8, RunsOn

LEMMA TeamEndScreen ==
  ASSUME ScreenFits, TeamEnd
  PROVE  ScreenFits'
<1>1. stage = "team" /\ ToPrompt /\ UNCHANGED <<flag, run, cut, source>> /\ InRun
  BY DEF TeamEnd, InRun
<1>2. PICK d \in {"task_over", "escalation"}, t \in {"done", "error"} :
        screen' = Rendered(screen, <<Ev(d), EndEv(t, "new")>>)
  BY DEF TeamEnd
<1>3. ~screen.shown /\ screen.boxes = 0 /\ run \in RunRec /\ run.batch = <<>> /\ run.at = "over"
      /\ HasBoxes(screen)
  BY <1>1 DEF ScreenFits, BoxesFit, ScreenTypes, BatchFits, StageFits
<1> DEFINE s == OnEvent(screen, Ev(d))
<1>4. s.cards = screen.cards /\ s.boxes = 0 /\ ~s.shown
  <2>1. Ev(d).type \in Plain
    BY <1>2, PlainNames
  <2> QED
    BY <1>3, <2>1, PlainEvent
<1> HIDE DEF s
<1>5. screen' = OnEvent(s, EndEv(t, "new"))
  BY <1>2, RenderedTwo DEF s
<1>6. screen'.cards = screen.cards /\ screen'.boxes = 1 /\ ~screen'.spin
  BY <1>4, <1>5, ShownOnce
<1>7. HasBoxes(screen')
  BY <1>5 DEF HasBoxes, OnEvent
<1> QED
  BY <1>1, <1>3, <1>6, <1>7, RunEnds

-----------------------------------------------------------------------------
(* The events of the agent's run.                                          *)

(* Plain events while the calls stay as they are.                          *)
LEMMA PlainStep ==
  ASSUME ScreenFits, stage = "agent", UNCHANGED <<stage, flag, owner, source, cut>>,
         NEW es, Len(es) \in Nat, \A i \in 1..Len(es) : es[i].type \in Plain,
         screen' = Rendered(screen, es),
         run' \in RunRec, run'.batch = run.batch, run.batch = <<>>
  PROVE  ScreenFits'
<1>1. ~screen.shown /\ screen.boxes = 0 /\ HasBoxes(screen) /\ InRun
  BY DEF ScreenFits, BoxesFit, ScreenTypes, InRun
<1>2. screen'.cards = screen.cards /\ screen'.boxes = 0 /\ ~screen'.shown
  BY <1>1, PlainRendered
<1>3. HasBoxes(screen')
  BY <1>1, RenderedHas
<1>4. ScreenTypes' /\ OwnerFits' /\ BatchFits' /\ StageFits'
  BY <1>2, <1>3 DEF ScreenFits, ScreenTypes, OwnerFits, BatchFits, StageFits, Playing
<1>5. CardsFit'
  BY <1>2 DEF ScreenFits, CardsFit, Playing
<1> QED
  BY <1>1, <1>2, <1>4, <1>5, RunsOn

(* The calls that are told, when one more is.                              *)
LEMMA ToldMore ==
  ASSUME NEW b \in Seq(CallRec), NEW i \in DOMAIN b, b[i].at = "new",
         NEW c, c = [b EXCEPT ![i].at = "called"]
  PROVE  c \in Seq(CallRec) /\ Cardinality(Told(c)) = Cardinality(Told(b)) + 1
<1> DEFINE x == [b[i] EXCEPT !.at = "called"]
<1>1. b[i] \in CallRec /\ i \in 1..Len(b) /\ Len(b) \in Nat
  OBVIOUS
<1>2. x \in CallRec /\ x.at = "called"
  BY <1>1 DEF CallRec
<1>3. c = [b EXCEPT ![i] = x]
  OBVIOUS
<1> HIDE DEF x
<1>4. c \in Seq(CallRec) /\ DOMAIN c = DOMAIN b /\ c[i] = x /\ \A j \in DOMAIN b : j # i => c[j] = b[j]
  BY <1>1, <1>2, <1>3
<1>5. IsTold(x) /\ ~IsTold(b[i])
  BY <1>2 DEF IsTold
<1>6. Told(c) = Told(b) \cup {i} /\ i \notin Told(b)
  BY <1>4, <1>5 DEF Told
<1>7. IsFiniteSet(Told(b))
  <2>1. Told(b) \subseteq 1..Len(b)
    BY DEF Told
  <2>2. IsFiniteSet(1..Len(b))
    BY <1>1, FS_Interval
  <2> QED
    BY <2>1, <2>2, FS_Subset
<1> QED
  BY <1>4, <1>6, <1>7, FS_AddElement

(* The calls that are told, when none is.                                  *)
LEMMA ToldSame ==
  ASSUME NEW b, NEW c, DOMAIN c = DOMAIN b, \A i \in DOMAIN b : IsTold(c[i]) <=> IsTold(b[i])
  PROVE  Told(c) = Told(b)
BY DEF Told

LEMMA ToldAll ==
  ASSUME NEW b \in Seq(CallRec)
  PROVE  Cardinality(Told(b)) <= Len(b) /\ Cardinality(Told(b)) \in Nat /\ Len(b) \in Nat
<1>1. Told(b) \subseteq 1..Len(b) /\ Len(b) \in Nat
  BY DEF Told
<1>2. IsFiniteSet(1..Len(b)) /\ Cardinality(1..Len(b)) = Len(b)
  <2>1. PICK n \in Nat : n = Len(b)
    BY <1>1
  <2>2. IsFiniteSet(1..n) /\ Cardinality(1..n) = IF 1 > n THEN 0 ELSE n - 1 + 1
    BY FS_Interval
  <2>3. Cardinality(1..n) = n
    BY <2>2
  <2> QED
    BY <2>1, <2>2, <2>3
<1>3. IsFiniteSet(Told(b)) /\ Cardinality(Told(b)) <= Cardinality(1..Len(b))
  BY <1>1, <1>2, FS_Subset
<1> QED
  BY <1>1, <1>2, <1>3, FS_CardinalityType

LEMMA CallScreen ==
  ASSUME ScreenFits, NEW i \in DOMAIN run.batch, Call(i)
  PROVE  ScreenFits'
<1>1. stage = "agent" /\ run.at = "tools" /\ run.batch[i].at = "new"
      /\ UNCHANGED <<stage, flag, owner, source, cut>>
      /\ screen' = Rendered(screen, <<CallEv(run.batch[i].name)>>)
      /\ run' = [run EXCEPT !.batch[i].at = "called"]
  BY DEF Call, Runs, Shows, StaysInRun
<1>2. ~screen.shown /\ screen.boxes = 0 /\ HasBoxes(screen) /\ InRun
      /\ screen.cards \in Seq(Card) /\ run \in RunRec
  BY <1>1 DEF ScreenFits, BoxesFit, ScreenTypes, InRun
<1>3. PICK b \in Seq(CallRec) : b = run.batch
  BY <1>2 DEF RunRec
<1>4. PICK c : c = [b EXCEPT ![i].at = "called"]
  OBVIOUS
<1>5. run' = [run EXCEPT !.batch = c]
  BY <1>1, <1>3, <1>4
<1>6. c \in Seq(CallRec) /\ Cardinality(Told(c)) = Cardinality(Told(b)) + 1
  BY <1>1, <1>3, <1>4, ToldMore
<1>7. run' \in RunRec /\ run'.batch = c /\ run'.at = "tools"
  BY <1>1, <1>2, <1>5, <1>6 DEF RunRec
<1>8. PICK n \in Tools : n = run.batch[i].name
  <2>1. run.batch[i] \in CallRec
    BY <1>3
  <2> QED
    BY <2>1 DEF CallRec
<1>9. screen' = OnEvent(screen, CallEv(n))
  BY <1>1, <1>8, RenderedOne
<1>10. screen'.cards = Newest(Append(screen.cards, [name |-> n, running |-> TRUE]))
       /\ screen'.boxes = 0 /\ ~screen'.shown
  BY <1>2, <1>9, CallEvent
<1>11. screen'.cards \in Seq(Card)
       /\ Cardinality(Running(screen'.cards)) <= Cardinality(Running(screen.cards)) + 1
  BY <1>2, <1>10, CallLive
<1>12. HasBoxes(screen')
  BY <1>9 DEF HasBoxes, OnEvent
<1>13. CardsFit'
  <2> SUFFICES ASSUME ~cut PROVE Cardinality(Running(screen'.cards)) <= Cardinality(Told(c))
    BY <1>1, <1>7 DEF CardsFit
  <2>1. Cardinality(Running(screen.cards)) <= Cardinality(Told(b))
    BY <1>1, <1>3 DEF ScreenFits, CardsFit, Playing
  <2>2. Cardinality(Running(screen.cards)) \in Nat /\ Cardinality(Running(screen'.cards)) \in Nat
        /\ Cardinality(Told(b)) \in Nat
    BY <1>2, <1>3, <1>11, RunningFacts, ToldAll
  <2> QED
    BY <1>6, <1>11, <2>1, <2>2
<1>14. ScreenTypes' /\ OwnerFits' /\ BatchFits' /\ StageFits'
  BY <1>1, <1>7, <1>11, <1>12 DEF ScreenFits, ScreenTypes, OwnerFits, BatchFits, StageFits, Playing
<1> QED
  BY <1>1, <1>2, <1>10, <1>13, <1>14, RunsOn

(* Calls asked about and answered.                                         *)
LEMMA ToldStep ==
  ASSUME ScreenFits, stage = "agent", UNCHANGED <<stage, flag, source, cut, screen>>,
         owner' \in {"none", "approve", "picker", "free"},
         NEW b, run' = [run EXCEPT !.batch = b], b \in Seq(CallRec), DOMAIN b = DOMAIN run.batch,
         \A i \in DOMAIN b : IsTold(b[i]) <=> IsTold(run.batch[i])
  PROVE  ScreenFits'
<1>1. ~screen.shown /\ screen.boxes = 0 /\ HasBoxes(screen) /\ InRun
      /\ screen.cards \in Seq(Card) /\ run \in RunRec
  BY DEF ScreenFits, BoxesFit, ScreenTypes, InRun
<1>2. run' \in RunRec /\ run'.batch = b /\ run'.at = run.at
  BY <1>1 DEF RunRec
<1>3. Told(run'.batch) = Told(run.batch)
  BY <1>2, ToldSame
<1>4. CardsFit'
  BY <1>3 DEF ScreenFits, CardsFit, Playing
<1>5. BatchFits'
  <2>1. run.batch \in Seq(CallRec)
    BY <1>1 DEF RunRec
  <2>2. run.batch = <<>> => b = <<>>
    BY <2>1
  <2> QED
    BY <1>2, <2>2 DEF ScreenFits, BatchFits
<1>6. ScreenTypes' /\ OwnerFits' /\ StageFits'
  BY <1>1, <1>2 DEF ScreenTypes, OwnerFits, StageFits, Playing
<1> QED
  BY <1>1, <1>4, <1>5, <1>6, RunsOn

LEMMA AskScreen ==
  ASSUME ScreenFits, NEW i \in DOMAIN run.batch, Ask(i)
  PROVE  ScreenFits'
<1>1. stage = "agent" /\ run.batch[i].at = "called" /\ UNCHANGED <<stage, flag, source, cut, screen>>
      /\ run' = [run EXCEPT !.batch[i].at = "asking"] /\ owner' \in {"approve", "picker"}
  BY DEF Ask, Runs, Listens
<1>2. run.batch \in Seq(CallRec) /\ run.batch[i] \in CallRec
  BY DEF ScreenFits, ScreenTypes, RunRec
<1>3. PICK x : x = [run.batch[i] EXCEPT !.at = "asking"]
  OBVIOUS
<1>4. x \in CallRec /\ x.at = "asking"
  BY <1>2, <1>3 DEF CallRec
<1>5. IsTold(x) /\ IsTold(run.batch[i])
  BY <1>1, <1>4 DEF IsTold
<1>6. PICK b : b = [run.batch EXCEPT ![i] = x]
  OBVIOUS
<1>7. run' = [run EXCEPT !.batch = b]
  BY <1>1, <1>3, <1>6
<1>8. b \in Seq(CallRec) /\ DOMAIN b = DOMAIN run.batch
      /\ b[i] = x /\ \A j \in DOMAIN b : j # i => b[j] = run.batch[j]
  BY <1>2, <1>4, <1>6
<1>9. \A j \in DOMAIN b : IsTold(b[j]) <=> IsTold(run.batch[j])
  BY <1>5, <1>8
<1> QED
  BY <1>1, <1>7, <1>8, <1>9, ToldStep

LEMMA ReplyScreen ==
  ASSUME ScreenFits, stage = "agent", Reply
  PROVE  ScreenFits'
<1> DEFINE T(c) == IF c.at = "asking" THEN [c EXCEPT !.at = "answered"] ELSE c
<1>1. owner' = "none" /\ UNCHANGED <<flag, stage, screen, source, cut>>
      /\ run' = [run EXCEPT !.batch = [i \in DOMAIN run.batch |-> T(run.batch[i])]]
  BY DEF Reply
<1>2. run.batch \in Seq(CallRec)
  BY DEF ScreenFits, ScreenTypes, RunRec
<1>3. \A c \in CallRec : T(c) \in CallRec /\ (IsTold(T(c)) <=> IsTold(c))
  BY DEF CallRec, IsTold
<1> HIDE DEF T
<1>4. PICK b : b = [i \in DOMAIN run.batch |-> T(run.batch[i])]
  OBVIOUS
<1>5. DOMAIN b = DOMAIN run.batch /\ \A i \in DOMAIN b : b[i] \in CallRec /\ (IsTold(b[i]) <=> IsTold(run.batch[i]))
  BY <1>2, <1>3, <1>4
<1>6. b \in Seq(CallRec)
  <2>1. PICK n \in Nat : DOMAIN run.batch = 1..n
    BY <1>2
  <2>2. b \in [1..n -> CallRec]
    BY <1>4, <1>5, <2>1
  <2> QED
    BY <2>2
<1> QED
  BY <1>1, <1>4, <1>5, <1>6, ToldStep

LEMMA ResultsScreen ==
  ASSUME ScreenFits, Results
  PROVE  ScreenFits'
<1>1. stage = "agent" /\ run.at = "tools" /\ UNCHANGED <<stage, flag, owner, source, cut>>
      /\ run' = [run EXCEPT !.at = "round", !.batch = <<>>]
  BY DEF Results, Runs, StaysInRun
<1>2. ~screen.shown /\ screen.boxes = 0 /\ HasBoxes(screen) /\ InRun
      /\ screen.cards \in Seq(Card) /\ run \in RunRec
  BY <1>1 DEF ScreenFits, BoxesFit, ScreenTypes, InRun
<1>3. PICK b \in Seq(CallRec) : b = run.batch
  BY <1>2 DEF RunRec
<1>4. PICK tail \in {<<>>, <<Ev("compact")>>} :
        screen' = Rendered(screen, [i \in DOMAIN b |-> ResultEv(b[i].name)] \o tail)
  BY <1>3 DEF Results, Shows
<1>5. PICK res : res = [i \in DOMAIN b |-> ResultEv(b[i].name)]
  OBVIOUS
<1>6. PICK n \in Nat : n = Len(b) /\ DOMAIN b = 1..n
  BY <1>3
<1> DEFINE E == {ResultEv(b[i].name) : i \in DOMAIN b} \cup {Ev("compact")}
<1>7. res \in Seq(E) /\ Len(res) = n /\ \A i \in 1..n : res[i].type = "tool_result"
  BY <1>5, <1>6 DEF ResultEv, Ev
<1>8. tail \in Seq(E) /\ Len(tail) \in Nat /\ \A i \in 1..Len(tail) : tail[i].type \in Plain
  <2>1. CASE tail = <<>>
    BY <2>1, EmptySeq
  <2>2. CASE tail = <<Ev("compact")>>
    <3>1. PICK e \in E : e = Ev("compact")
      OBVIOUS
    <3>2. e.type \in Plain
      BY <3>1 DEF Ev, Plain
    <3> HIDE DEF E
    <3>3. tail = <<e>>
      BY <2>2, <3>1
    <3> QED
      BY <3>2, <3>3
  <2> QED
    BY <1>4, <2>1, <2>2
<1> HIDE DEF E
<1>9. PICK es : es = res \o tail
  OBVIOUS
<1>10. es \in Seq(E) /\ Len(es) = n + Len(tail)
       /\ \A i \in 1..Len(es) : es[i] = IF i <= n THEN res[i] ELSE tail[i - n]
  <2>1. /\ res \o tail \in Seq(E) /\ Len(res \o tail) = Len(res) + Len(tail)
        /\ \A i \in 1..(Len(res) + Len(tail)) :
             (res \o tail)[i] = IF i <= Len(res) THEN res[i] ELSE tail[i - Len(res)]
    BY <1>7, <1>8, ConcatProperties
  <2> QED
    BY <1>7, <1>9, <2>1
<1>11. Len(es) \in Nat /\ n \in 0..Len(es) /\ \A i \in 1..n : es[i].type = "tool_result"
  BY <1>7, <1>8, <1>10
<1>12. \A i \in 1..Len(es) : i > n => es[i].type \in Plain
  <2> SUFFICES ASSUME NEW i \in 1..Len(es), i > n PROVE es[i].type \in Plain
    OBVIOUS
  <2>1. PICK j \in 1..Len(tail) : j = i - n
    BY <1>6, <1>8, <1>10
  <2>2. es[i] = tail[j]
    BY <1>10, <2>1
  <2> QED
    BY <1>8, <2>2
<1>13. screen' = Rendered(screen, es)
  BY <1>4, <1>5, <1>9
<1>14. /\ screen'.cards \in Seq(Card) /\ screen'.boxes = 0 /\ ~screen'.shown
       /\ Cardinality(Running(screen.cards)) <= n => Running(screen'.cards) = {}
  <2>1. screen.boxes \in Int
    BY <1>2
  <2>2. LET t == Rendered(screen, es)
        IN /\ t.cards \in Seq(Card) /\ t.boxes = screen.boxes /\ (~screen.shown => ~t.shown)
           /\ Cardinality(Running(screen.cards)) <= n => Running(t.cards) = {}
    BY <1>2, <1>11, <1>12, <2>1, ResultsRendered
  <2> QED
    BY <1>2, <1>13, <2>2
<1>15. HasBoxes(screen')
  BY <1>2, <1>11, <1>13, RenderedHas
<1>16. run' \in RunRec /\ run'.batch = <<>> /\ run'.at = "round"
  <2>1. PICK none \in Seq(CallRec) : none = <<>>
    BY EmptySeq
  <2>2. run' = [run EXCEPT !.at = "round", !.batch = none]
    BY <1>1, <2>1
  <2> QED
    BY <1>2, <2>1, <2>2 DEF RunRec
<1>17. CardsFit'
  <2> SUFFICES ASSUME ~cut' PROVE Cardinality(Running(screen'.cards)) <= Cardinality(Told(run'.batch))
    BY DEF CardsFit
  <2>1. Cardinality(Running(screen.cards)) <= Cardinality(Told(b))
    BY <1>1, <1>3 DEF ScreenFits, CardsFit, Playing
  <2>2. Cardinality(Running(screen.cards)) \in Nat /\ Cardinality(Told(b)) \in Nat
        /\ Cardinality(Told(b)) <= n
    BY <1>2, <1>3, <1>6, RunningFacts, ToldAll
  <2>3. Running(screen'.cards) = {}
    BY <1>6, <1>14, <2>1, <2>2
  <2>4. Told(run'.batch) = {} /\ Cardinality({}) = 0 /\ 0 <= 0
    <3>1. Told(<<>>) = {}
      BY NoRunFacts
    <3>2. Cardinality({}) = 0
      BY FS_EmptySet
    <3> QED
      BY <1>16, <3>1, <3>2
  <2> QED
    BY <2>3, <2>4
<1>18. ScreenTypes' /\ OwnerFits' /\ BatchFits' /\ StageFits'
  BY <1>1, <1>14, <1>15, <1>16 DEF ScreenFits, ScreenTypes, OwnerFits, BatchFits, StageFits, Playing
<1> QED
  BY <1>1, <1>2, <1>14, <1>17, <1>18, RunsOn

LEMMA AnswerScreen ==
  ASSUME ScreenFits, Answer
  PROVE  ScreenFits'
<1>1. stage = "agent" /\ run.at = "model" /\ UNCHANGED <<stage, flag, owner, source, cut, screen>>
  BY DEF Answer, Runs, StaysInRun
<1>2. ~screen.shown /\ screen.boxes = 0 /\ InRun /\ run \in RunRec /\ run.batch = <<>>
  BY <1>1 DEF ScreenFits, BoxesFit, ScreenTypes, InRun, BatchFits
<1>3. PICK n \in 1..MaxCalls :
        \E b \in [1..n -> [name : Tools, at : {"new", "unparsed"}]] :
          run' = [run EXCEPT !.at = "tools", !.batch = b]
  BY DEF Answer
<1> PICK b \in [1..n -> [name : Tools, at : {"new", "unparsed"}]] :
      run' = [run EXCEPT !.at = "tools", !.batch = b]
  BY <1>3
<1>4. n \in Nat /\ DOMAIN b = 1..n
  BY ReplAssumption
<1>5. \A i \in 1..n : b[i] \in CallRec /\ ~IsTold(b[i])
  BY <1>4 DEF CallRec, IsTold
<1>6. b \in Seq(CallRec)
  BY <1>4, <1>5
<1>7. run' \in RunRec /\ run'.batch = b /\ run'.at = "tools"
  BY <1>2, <1>6 DEF RunRec
<1>8. Told(run'.batch) = {}
  BY <1>4, <1>5, <1>7 DEF Told
<1>9. Told(run.batch) = {}
  BY <1>2, NoRunFacts
<1>10. CardsFit'
  BY <1>1, <1>8, <1>9 DEF ScreenFits, CardsFit, Playing
<1>11. ScreenTypes' /\ OwnerFits' /\ BatchFits' /\ StageFits'
  BY <1>1, <1>7 DEF ScreenFits, ScreenTypes, OwnerFits, BatchFits, StageFits, Playing
<1> QED
  BY <1>1, <1>2, <1>10, <1>11, RunsOn

LEMMA PlainSteps ==
  ASSUME ScreenFits, Round \/ Think \/ Continue
  PROVE  ScreenFits'
<1>1. stage = "agent" /\ run.at \in {"round", "model"} /\ UNCHANGED <<stage, flag, owner, source, cut>>
  BY DEF Round, Think, Continue, Runs, StaysInRun
<1>2. run \in RunRec /\ run.batch = <<>>
  BY <1>1 DEF ScreenFits, ScreenTypes, BatchFits
<1>3. CASE Round
  <2>1. PICK x \in {<<>>, <<Ev("compact")>>} :
          screen' = Rendered(screen, <<Ev("iteration"), Ev("background")>> \o x)
    BY <1>3 DEF Round, Shows
  <2>2. PICK k \in Nat : k = run.round + 1
    BY <1>2 DEF RunRec
  <2>3. run' = [run EXCEPT !.at = "model", !.round = k]
    BY <1>3, <2>2 DEF Round
  <2>4. run' \in RunRec /\ run'.batch = run.batch
    BY <1>2, <2>3 DEF RunRec
  <2>5. PICK es : es = <<Ev("iteration"), Ev("background")>> \o x
    OBVIOUS
  <2>6. Len(es) \in Nat /\ \A i \in 1..Len(es) : es[i].type \in Plain
    <3>1. PICK a, b, c : a = Ev("iteration") /\ b = Ev("background") /\ c = Ev("compact")
      OBVIOUS
    <3>2. a.type \in Plain /\ b.type \in Plain /\ c.type \in Plain
      BY <3>1 DEF Ev, Plain
    <3>3. <<a, b>> \in Seq({a, b, c}) /\ <<>> \in Seq({a, b, c}) /\ <<c>> \in Seq({a, b, c})
      OBVIOUS
    <3>4. x \in Seq({a, b, c}) /\ es = <<a, b>> \o x
      BY <2>1, <2>5, <3>1, <3>3
    <3>5. es \in Seq({a, b, c})
      BY <3>3, <3>4, ConcatProperties
    <3> QED
      BY <3>2, <3>5
  <2> QED
    BY <1>1, <1>2, <2>1, <2>4, <2>5, <2>6, PlainStep
<1>4. CASE Think
  <2>1. run' = run /\ screen' = Rendered(screen, <<Ev("thinking")>>)
    BY <1>4 DEF Think, Shows
  <2>2. PICK a : a = Ev("thinking")
    OBVIOUS
  <2>3. a.type \in Plain
    BY <2>2 DEF Ev, Plain
  <2>4. Len(<<a>>) \in Nat /\ \A i \in 1..Len(<<a>>) : <<a>>[i].type \in Plain
    BY <2>3
  <2> QED
    BY <1>1, <1>2, <2>1, <2>2, <2>4, PlainStep
<1>5. CASE Continue
  <2>1. PICK x \in {<<>>, <<Ev("model_switch")>>} :
          screen' = Rendered(screen, x \o <<Ev("compact"), Ev("continuation")>>)
    BY <1>5 DEF Continue, Shows
  <2>2. run' = [run EXCEPT !.round = 0, !.continued = TRUE]
    BY <1>5 DEF Continue
  <2>3. run' \in RunRec /\ run'.batch = run.batch
    BY <1>2, <2>2 DEF RunRec
  <2>4. PICK es : es = x \o <<Ev("compact"), Ev("continuation")>>
    OBVIOUS
  <2>5. Len(es) \in Nat /\ \A i \in 1..Len(es) : es[i].type \in Plain
    <3>1. PICK a, b, c : a = Ev("compact") /\ b = Ev("continuation") /\ c = Ev("model_switch")
      OBVIOUS
    <3>2. a.type \in Plain /\ b.type \in Plain /\ c.type \in Plain
      BY <3>1 DEF Ev, Plain
    <3>3. <<a, b>> \in Seq({a, b, c}) /\ <<>> \in Seq({a, b, c}) /\ <<c>> \in Seq({a, b, c})
      OBVIOUS
    <3>4. x \in Seq({a, b, c}) /\ es = x \o <<a, b>>
      BY <2>1, <2>4, <3>1, <3>3
    <3>5. es \in Seq({a, b, c})
      BY <3>3, <3>4, ConcatProperties
    <3> QED
      BY <3>2, <3>5
  <2> QED
    BY <1>1, <1>2, <2>1, <2>3, <2>4, <2>5, PlainStep
<1> QED
  BY <1>3, <1>4, <1>5

LEMMA EndSteps ==
  ASSUME ScreenFits, Done \/ Fail \/ Exhaust
  PROVE  ScreenFits'
<1>1. stage = "agent" /\ run.at \in {"round", "model"} /\ ToPrompt /\ UNCHANGED <<flag, source, cut>> /\ InRun
  BY DEF Done, Fail, Exhaust, EndsRun, Runs, InRun
<1>2. ~screen.shown /\ screen.boxes = 0 /\ run.batch = <<>>
  BY <1>1 DEF ScreenFits, BoxesFit, InRun, BatchFits
(* One event, or a second with or without another digest.                  *)
<1>3. ASSUME NEW t \in {"done", "error"}, run' = [NoRun EXCEPT !.at = "over"],
             screen' = Rendered(screen, <<EndEv(t, "new")>>)
      PROVE  ScreenFits'
  <2>1. screen' = OnEvent(screen, EndEv(t, "new"))
    BY <1>3, RenderedOne
  <2>2. screen'.cards = screen.cards /\ ~screen'.spin /\ screen'.boxes = 1
    BY <1>2, <2>1, ShownOnce
  <2>3. HasBoxes(screen')
    BY <2>1 DEF HasBoxes, OnEvent
  <2>4. run' \in RunRec /\ run'.batch = <<>> /\ run'.at = "over"
    BY <1>3, NoRunFacts
  <2> QED
    BY <1>1, <1>2, <2>2, <2>3, <2>4, RunEnds
<1>4. ASSUME NEW t \in {"done", "error"}, NEW d \in {"new", "same"},
             run' = [NoRun EXCEPT !.at = IF d = "new" THEN "exhausted" ELSE "over"],
             screen' = Rendered(screen, <<EndEv("error", "new"), EndEv(t, d)>>)
      PROVE  ScreenFits'
  <2>1. PICK s : s = OnEvent(screen, EndEv("error", "new"))
    OBVIOUS
  <2>2. screen' = OnEvent(s, EndEv(t, d))
    BY <1>4, <2>1, RenderedTwo
  <2>3. s.cards = screen.cards /\ s.boxes = 1 /\ s.shown
    BY <1>2, <2>1, ShownOnce
  <2>4. screen'.cards = s.cards /\ ~screen'.spin /\ screen'.boxes = IF d = "new" THEN 2 ELSE 1
    BY <2>2, <2>3, ShownAgain
  <2>5. HasBoxes(screen')
    BY <2>2 DEF HasBoxes, OnEvent
  <2>6. PICK a \in {"over", "exhausted"} : a = IF d = "new" THEN "exhausted" ELSE "over"
    OBVIOUS
  <2>7. run' = [NoRun EXCEPT !.at = a]
    BY <1>4, <2>6
  <2>8. run' \in RunRec /\ run'.batch = <<>> /\ run'.at = a
    BY <2>7, NoRunFacts
  <2>9. screen'.boxes = IF run'.at = "exhausted" THEN 2 ELSE 1
    BY <2>4, <2>6, <2>8
  <2> QED
    BY <1>1, <1>2, <2>3, <2>4, <2>5, <2>8, <2>9, RunEnds
<1>5. CASE Done
  BY <1>3, <1>5 DEF Done, EndsRun, Shows
<1>6. CASE Fail
  <2>1. CASE EndsRun("over", <<EndEv("error", "new")>>)
    BY <1>3, <2>1 DEF EndsRun, Shows
  <2>2. CASE EndsRun("over", <<EndEv("error", "new"), EndEv("done", "same")>>)
    <3>1. run' = [NoRun EXCEPT !.at = IF "same" = "new" THEN "exhausted" ELSE "over"]
      BY <2>2 DEF EndsRun
    <3> QED
      BY <1>4, <2>2, <3>1 DEF EndsRun, Shows
  <2> QED
    BY <1>6, <2>1, <2>2 DEF Fail
<1>7. CASE Exhaust
  <2>1. run' = [NoRun EXCEPT !.at = IF "new" = "new" THEN "exhausted" ELSE "over"]
    BY <1>7 DEF Exhaust, EndsRun
  <2> QED
    BY <1>4, <1>7, <2>1 DEF Exhaust, EndsRun, Shows
<1> QED
  BY <1>5, <1>6, <1>7

LEMMA AgentScreen ==
  ASSUME ScreenFits, AgentStep
  PROVE  ScreenFits'
BY AnswerScreen, PlainSteps, EndSteps, ResultsScreen, CallScreen, AskScreen DEF AgentStep

-----------------------------------------------------------------------------
(* Keys and inputs.                                                        *)

LEMMA OwnerScreen ==
  ASSUME ScreenFits, NEW key, OwnerGets(key)
  PROVE  ScreenFits'
<1>1. OwnerFits /\ FlagFits
  BY DEF ScreenFits
<1>2. ASSUME stage = "agent", AnswerAsk PROVE ScreenFits'
  BY <1>2, ReplyScreen DEF AnswerAsk
<1>3. ASSUME stage \in {"pick", "logs", "offer"}, PickerGone PROVE ScreenFits'
  <2>1. ~InRun /\ ~Playing /\ UNCHANGED runVars /\ ToPrompt /\ ~flag'
    BY <1>3 DEF PickerGone, InRun, Playing
  <2> QED
    BY <2>1, Idles
<1>4. CASE Owns("approve") \/ (Owns("free") /\ key # "text")
  <2>1. stage = "agent"
    BY <1>1, <1>4 DEF Owns, OwnerFits
  <2>2. CASE AnswerAsk
    BY <1>2, <2>1, <2>2
  <2>3. CASE UNCHANGED <<keyVars, stage, runVars>>
    BY <2>3, SameScreen DEF keyVars, runVars
  <2> QED
    BY <1>4, <2>2, <2>3 DEF OwnerGets, Owns
<1>5. CASE Owns("picker") /\ key = "enter"
  <2>1. Picked /\ stage \in {"pick", "logs", "offer", "agent"}
    BY <1>1, <1>5 DEF OwnerGets, Owns, OwnerFits
  <2>2. CASE stage = "pick"
    BY <1>3, <2>1, <2>2 DEF Picked
  <2>3. CASE stage = "logs"
    <3>1. stage' = "reading" /\ owner' = "none" /\ flag' = FALSE /\ UNCHANGED runVars
      BY <2>1, <2>3 DEF Picked
    <3>2. OwnerFits' /\ FlagFits' /\ ~InRun /\ ~Playing
      BY <2>3, <3>1 DEF OwnerFits, FlagFits, InRun, Playing
    <3> QED
      BY <3>1, <3>2, Moves
  <2>4. CASE stage = "offer"
    <3>1. BeginAgent \/ BeginTeam
      BY <2>1, <2>4 DEF Picked
    <3>2. ~InRun /\ ~Playing
      BY <2>4 DEF InRun, Playing
    <3> QED
      BY <3>1, <3>2, AgentBegins, TeamBegins
  <2>5. CASE stage = "agent"
    <3>1. CASE AnswerAsk
      BY <1>2, <2>5, <3>1
    <3>2. CASE owner' = "free" /\ UNCHANGED <<hears, flag, stage, runVars>>
      <4>1. UNCHANGED <<screen, run, flag, stage, cut, source>>
        BY <3>2 DEF runVars
      <4>2. OwnerFits'
        BY <2>5, <3>2 DEF OwnerFits
      <4> QED
        BY <4>1, <4>2 DEF ScreenFits, ScreenTypes, FlagFits, BatchFits, StageFits, CardsFit,
                          SpinFits, BoxesFit, InRun, Playing
    <3> QED
      BY <2>1, <2>5, <3>1, <3>2 DEF Picked
  <2> QED
    BY <2>1, <2>2, <2>3, <2>4, <2>5
<1>6. CASE Owns("picker") /\ key \in {"esc", "ctrl_c"}
  <2>1. Dismissed /\ stage \in {"pick", "logs", "offer", "agent"}
    BY <1>1, <1>6 DEF OwnerGets, Owns, OwnerFits
  <2>2. CASE stage \in {"pick", "logs"}
    BY <1>3, <2>1, <2>2 DEF Dismissed
  <2>3. CASE stage = "offer"
    <3>1. BeginAgent /\ ~InRun /\ ~Playing
      BY <2>1, <2>3 DEF Dismissed, InRun, Playing
    <3> QED
      BY <3>1, AgentBegins
  <2>4. CASE stage = "agent"
    <3>1. AnswerAsk
      BY <2>1, <2>4 DEF Dismissed
    <3> QED
      BY <1>2, <2>4, <3>1
  <2> QED
    BY <2>1, <2>2, <2>3, <2>4
<1>7. CASE Owns("replay") /\ key \in {"esc", "ctrl_c"} /\ stage = "replaying"
  <2>1. stage' = "stopping" /\ UNCHANGED keyVars /\ UNCHANGED runVars
    BY <1>7 DEF OwnerGets, Owns
  <2>2. OwnerFits' /\ FlagFits' /\ ~InRun /\ Playing'
    BY <1>7, <2>1 DEF OwnerFits, FlagFits, InRun, Playing, keyVars, Owns
  <2> QED
    BY <2>1, <2>2, Moves
<1>8. ASSUME UNCHANGED <<keyVars, stage, runVars>> PROVE ScreenFits'
  BY <1>8, SameScreen DEF keyVars, runVars
<1>9. \/ Owns("approve")
      \/ Owns("free") /\ key # "text"
      \/ Owns("picker") /\ key = "enter"
      \/ Owns("picker") /\ key \in {"esc", "ctrl_c"}
      \/ Owns("replay") /\ key \in {"esc", "ctrl_c"} /\ stage = "replaying"
      \/ UNCHANGED <<keyVars, stage, runVars>>
  BY DEF OwnerGets
<1> QED
  BY <1>4, <1>5, <1>6, <1>7, <1>8, <1>9

LEMMA KindFacts ==
  ASSUME NEW lines \in Seq(Lines)
  PROVE  KindOf(lines) \in Kinds \cup {"blank"}
<1>1. Trimmed(lines) \in Seq(Lines)
  <2> DEFINE text == {i \in DOMAIN lines : lines[i] # "blank"}
  <2>1. text \subseteq 1..Len(lines) /\ Len(lines) \in Nat
    OBVIOUS
  <2>2. CASE text = {}
    BY <2>2, EmptySeq DEF Trimmed
  <2>3. CASE text # {}
    <3> DEFINE lo == CHOOSE i \in text : \A j \in text : i <= j
               hi == LastOf(text)
    <3>1. text \subseteq Nat
      BY <2>1
    <3>2. \E i \in text : \A j \in text : i <= j
      BY <2>3, <3>1, LeastOf
    <3>3. lo \in text
      BY <3>2
    <3>4. hi \in text
      BY <2>1, <2>3, GreatestOf
    <3>5. Trimmed(lines) = SubSeq(lines, lo, hi)
      BY <2>3 DEF Trimmed
    <3> HIDE DEF lo, hi
    <3>6. lo \in Int /\ hi \in Int /\ \A i \in lo..hi : lines[i] \in Lines
      BY <2>1, <3>3, <3>4
    <3> QED
      BY <3>5, <3>6, SubSeqProperties
  <2> QED
    BY <2>2, <2>3
<1>2. PICK t \in Seq(Lines) : t = Trimmed(lines)
  BY <1>1
<1>3. Len(t) = 1 => t[1] \in Lines
  OBVIOUS
<1>4. Lines \subseteq Kinds \cup {"blank"} /\ "task" \in Kinds
  BY ReplAssumption DEF Lines, Kinds
<1> QED
  BY <1>2, <1>3, <1>4 DEF KindOf

LEMMA TakeScreen ==
  ASSUME LinesInv, ScreenFits, Take, Alive'
  PROVE  ScreenFits'
<1>1. stage = "idle" /\ ~InRun /\ ~Playing /\ owner = "none" /\ ~flag
  BY DEF Take, InRun, Playing, ScreenFits, OwnerFits, FlagFits
<1>2. PICK kind \in Kinds \cup {"blank"} : Process(kind)
  <2>1. queue \in Seq(Seq(Lines)) /\ queue # <<>>
    BY DEF LinesInv, LineTypes, Take
  <2>2. Head(queue) \in Seq(Lines)
    BY <2>1, HeadTailProperties
  <2>3. KindOf(Head(queue)) \in Kinds \cup {"blank"}
    BY <2>2, KindFacts
  <2> QED
    BY <2>3 DEF Take
<1>3. ASSUME stage' \notin {"agent", "team"}, ~Playing', Rest PROVE ScreenFits'
  <2>1. OwnerFits' /\ FlagFits' /\ UNCHANGED runVars
    BY <1>1, <1>3 DEF Rest, keyVars, OwnerFits, FlagFits
  <2> QED
    BY <1>1, <1>3, <2>1, Moves
<1>4. CASE kind = "blank"
  BY <1>2, <1>3, <1>4 DEF Process, Playing
<1>5. CASE kind = "exit"
  BY <1>2, <1>5 DEF Process, Ends, Alive
<1>6. CASE kind = "task"
  <2>1. CASE OfferTeam
    <3>1. stage' = "offer" /\ owner' = "picker" /\ UNCHANGED runVars
      BY <2>1 DEF OfferTeam, Listens
    <3>2. OwnerFits' /\ FlagFits'
      BY <3>1 DEF OwnerFits, FlagFits
    <3> QED
      BY <1>1, <3>1, <3>2, Moves
  <2> QED
    BY <1>1, <1>2, <1>6, <2>1, AgentBegins, TeamBegins DEF Process
<1>7. CASE kind = "team"
  <2>1. CASE stage' = "idle" /\ Rest
    BY <1>3, <2>1 DEF Playing
  <2> QED
    BY <1>1, <1>2, <1>7, <2>1, TeamBegins DEF Process
<1>8. CASE kind \notin {"blank", "exit", "task", "team"}
  <2>1. stage' = kind /\ Rest
    BY <1>2, <1>8 DEF Process
  <2>2. kind \in {"models", "replay", "command"}
    BY <1>8 DEF Kinds
  <2> QED
    BY <1>3, <2>1, <2>2 DEF Playing
<1> QED
  BY <1>4, <1>5, <1>6, <1>7, <1>8

LEMMA ChainScreen ==
  ASSUME ScreenFits, Fetched \/ CommandDone \/ Listed \/ LogRead, Alive'
  PROVE  ScreenFits'
<1>1. ~InRun /\ ~Playing /\ stage \in {"models", "command", "replay", "reading"} /\ UNCHANGED runVars
  BY DEF Fetched, CommandDone, Listed, LogRead, InRun, Playing
<1>2. ~flag
  BY <1>1 DEF ScreenFits, FlagFits
<1>3. CASE ToPrompt /\ UNCHANGED flag
  BY <1>1, <1>2, <1>3, Idles
<1>4. ASSUME Listens("picker"), stage' \in {"pick", "logs"} PROVE ScreenFits'
  <2>1. OwnerFits' /\ FlagFits'
    BY <1>4 DEF Listens, OwnerFits, FlagFits
  <2> QED
    BY <1>1, <1>4, <2>1, Moves
<1>5. ASSUME Listens("replay"), stage' = "replaying" PROVE ScreenFits'
  <2>1. OwnerFits' /\ FlagFits'
    BY <1>5 DEF Listens, OwnerFits, FlagFits, Playing
  <2> QED
    BY <1>1, <1>5, <2>1, Moves
<1> QED
  BY <1>3, <1>4, <1>5 DEF Fetched, CommandDone, Listed, LogRead, Ends, Alive

LEMMA CtrlDScreen ==
  ASSUME ScreenFits, CtrlD
  PROVE  ScreenFits'
<1>1. CASE Owns("approve")
  <2>1. stage = "agent"
    BY <1>1 DEF ScreenFits, OwnerFits, Owns
  <2> QED
    BY <1>1, <2>1, ReplyScreen DEF CtrlD
<1>2. CASE ~Owns("approve")
  BY <1>2, SameScreen DEF CtrlD, runVars
<1> QED
  BY <1>1, <1>2

LEMMA ScreenKeeps ==
  ASSUME LinesInv, ScreenInv, [Next]_vars
  PROVE  ScreenInv'
<1> SUFFICES ASSUME Alive' PROVE ScreenFits'
  BY DEF ScreenInv
<1>1. CASE UNCHANGED vars
  BY <1>1, SameScreen DEF vars, keyVars, runVars, ScreenInv, Alive
<1>2. CASE Next
  <2>1. CASE Take \/ Fetched \/ CommandDone \/ Listed \/ LogRead
    <3>1. ScreenFits
      BY <2>1 DEF ScreenInv, Alive, Take, Fetched, CommandDone, Listed, LogRead
    <3> QED
      BY <2>1, <3>1, TakeScreen, ChainScreen
  <2>2. CASE AgentStep
    <3>1. stage = "agent"
      BY <2>2 DEF AgentStep, Round, Think, Answer, Results, Continue, Done, Fail, Exhaust, Call, Ask, Runs
    <3> QED
      BY <2>2, <3>1, AgentScreen DEF ScreenInv, Alive
  <2>3. CASE Settle
    BY <2>3, SameScreen DEF Settle, ScreenInv, keyVars, runVars
  <2>4. CASE ReplayEvent
    BY <2>4, ReplayEventScreen DEF ReplayEvent, ScreenInv, Alive
  <2>5. CASE ReplayEnd
    BY <2>5, ReplayEndScreen DEF ReplayEnd, Playing, ScreenInv, Alive
  <2>6. CASE TeamEvent
    BY <2>6, TeamEventScreen DEF TeamEvent, ScreenInv, Alive
  <2>7. CASE TeamEnd
    BY <2>7, TeamEndScreen DEF TeamEnd, ScreenInv, Alive
  <2>8. ASSUME NEW t \in Texts, Type(t) PROVE ScreenFits'
    BY <2>8, OwnerScreen DEF Type, ScreenInv
  <2>9. CASE Enter
    BY <2>9, OwnerScreen DEF Enter, ScreenInv
  <2>10. CASE Esc
    BY <2>10, OwnerScreen DEF Esc, ScreenInv
  <2>11. CASE CtrlC
    BY <2>11, OwnerScreen DEF CtrlC, ScreenInv, Ends, Alive
  <2>12. CASE CtrlD
    BY <2>12, CtrlDScreen DEF CtrlD, ScreenInv
  <2>13. CASE Close \/ Drain
    BY <2>13 DEF Close, Drain, Ends, Alive
  <2> QED
    BY <1>2, <2>1, <2>2, <2>3, <2>4, <2>5, <2>6, <2>7, <2>8, <2>9, <2>10, <2>11, <2>12, <2>13
       DEF Next, Chain
<1> QED
  BY <1>1, <1>2

LEMMA ScreenBegins ==
  ASSUME Init
  PROVE  ScreenInv
<1>1. screen = Blank /\ run = NoRun /\ owner = "none" /\ flag = FALSE /\ stage = "idle" /\ source = "none"
  BY DEF Init
<1>2. <<>> \in Seq(Card) /\ Blank.cards = <<>> /\ HasBoxes(Blank) /\ ~Blank.spin
  BY EmptySeq DEF Blank, HasBoxes
<1>3. ScreenTypes
  BY <1>1, <1>2, NoRunFacts DEF ScreenTypes
<1>4. CardsFit
  <2>1. Running(<<>>) = {}
    BY DEF Running
  <2>2. Told(<<>>) = {} /\ NoRun.batch = <<>>
    BY NoRunFacts
  <2>3. Cardinality({}) = 0 /\ 0 <= 0
    BY FS_EmptySet
  <2> QED
    BY <1>1, <1>2, <2>1, <2>2, <2>3 DEF CardsFit
<1>5. SpinFits
  BY <1>1, <1>2 DEF SpinFits
<1>6. BoxesFit
  BY <1>1 DEF BoxesFit, InRun
<1>7. OwnerFits /\ FlagFits /\ BatchFits /\ StageFits
  BY <1>1, NoRunFacts DEF OwnerFits, FlagFits, BatchFits, StageFits
<1> QED
  BY <1>3, <1>4, <1>5, <1>6, <1>7 DEF ScreenInv, ScreenFits

LEMMA ScreenSuffices ==
  ASSUME ScreenInv
  PROVE  ScreenIsSound
<1> SUFFICES ASSUME stage = "idle" PROVE PromptIsFree /\ ReceiptsShownOnce
  BY DEF ScreenIsSound, PromptIsFree, ReceiptsShownOnce
<1>1. ScreenFits /\ ~InRun /\ ~Playing
  BY DEF ScreenInv, Alive, InRun, Playing
<1>2. ~flag /\ owner = "none"
  BY <1>1 DEF ScreenFits, OwnerFits, FlagFits, Playing
<1>3. Running(screen.cards) = {} \/ cut
  BY <1>1, NoCards
<1>4. screen.spin => source = "replay"
  BY <1>1 DEF ScreenFits, SpinFits
<1>5. ReceiptsShownOnce
  BY <1>1 DEF ReceiptsShownOnce, ScreenFits, BoxesFit
<1> QED
  BY <1>2, <1>3, <1>4, <1>5 DEF PromptIsFree

(* Whatever a run, a replay or a command did, and however it ended, the    *)
(* prompt is left free and each turn's receipts are shown once (tui.ts,    *)
(* runRepl).                                                               *)
THEOREM TheScreenIsSound == Spec => []ScreenIsSound
<1>1. LinesInv /\ ScreenInv /\ [Next]_vars => LinesInv' /\ ScreenInv'
  BY LinesKeep, ScreenKeeps
<1>2. Init => LinesInv /\ ScreenInv
  BY LinesBegin, ScreenBegins
<1>3. ScreenInv => ScreenIsSound
  BY ScreenSuffices
<1> QED
  BY <1>1, <1>2, <1>3, PTL DEF Spec

-----------------------------------------------------------------------------
(* Rewinding. *)

(* Content c of file f is the one it had before turn t, or one that a      *)
(* record at the places P says it was given.                               *)
Known(c, f, t, P) ==
  c = atStart[t][f] \/ \E p \in P : At(p).file = f /\ At(p).after = c

(* The content of a file, or, while a write_file call is at it, the one    *)
(* that the call has found and is going to record.                         *)
InFlight(f) == writer # NoCall /\ writer.file = f
Settled(f)  == IF InFlight(f) THEN writer.before ELSE disk[f]

(* What only write_file touched holds what the records say ... *)
DiskIsKnown ==
  \A t \in (1..Turn) \ undone, f \in Files :
    OnlyWritten(f, t) => Known(Settled(f), f, t, Places(t))

(* ... and so did it before each record.                                   *)
BeforeIsKnown ==
  \A t \in (1..Turn) \ undone, f \in Files :
    OnlyWritten(f, t) =>
      \A p \in Places(t) : At(p).file = f =>
        Known(At(p).before, f, t, {q \in Places(t) : Earlier(q, p)})

(* While a rewind goes on, the records that are left suffice.              *)
LeftSuffices ==
  target # 0 /\ target \notin undone =>
    \A f \in Files \ ioFailed : OnlyWritten(f, target) => Known(disk[f], f, target, plan)

(* What is left is all that is older than any of it; the turns after the   *)
(* target are undone.                                                      *)
PlanIsRest ==
  plan # {} =>
    /\ target # 0 /\ \A t \in 1..Turn : t > target => t \in undone
    /\ plan \subseteq Plan(target)
    /\ \A p \in plan, q \in Plan(target) : Earlier(q, p) => q \in plan

CheckedIsNext ==
  checked => plan # {} /\ (raced \/ \A p \in plan : IsNext(p) => Matches(At(p)))

(* Nothing runs beside a rewind, and a turn that runs is the last one.     *)
TurnsApart ==
  /\ Turn <= MaxTurns
  /\ running => Turn >= 1 /\ target = 0 /\ plan = {}
  /\ writer # NoCall => running
  /\ \A s \in Shells : shell[s] # NoCall => running

RewindInv ==
  /\ TypeOK /\ TurnsApart /\ PlanIsRest /\ CheckedIsNext
  /\ DiskIsKnown /\ BeforeIsKnown /\ LeftSuffices

-----------------------------------------------------------------------------
(* The places of the records.                                              *)

(* A place is a turn and a number. *)
LEMMA PlaceFacts ==
  ASSUME NEW t \in Nat
  PROVE  \A p : p \in Places(t) <=>
           \E u \in t..Turn : \E i \in DOMAIN records[u] : p = <<u, i>>
BY DEF Places

(* Places of later turns are places of earlier ones too. *)
LEMMA PlacesShrink ==
  ASSUME NEW t \in Nat, NEW u \in Nat, t <= u, Turn \in Nat
  PROVE  Places(u) \subseteq Places(t)
<1>1. \A v \in u..Turn : v \in t..Turn
  OBVIOUS
<1> QED
  BY <1>1, PlaceFacts

(* Records that are added get places after all the others, which stay.     *)
LEMMA LogFacts ==
  ASSUME records \in Seq(Seq(Record)), Turn >= 1, NEW rs \in Seq(Record), Log(rs)
  PROVE  /\ records' \in Seq(Seq(Record)) /\ Turn' = Turn
         /\ \E N :
              /\ \A n \in N : \E i \in DOMAIN rs : At(n)' = rs[i]
              /\ \A i \in DOMAIN rs : \E n \in N : At(n)' = rs[i]
              /\ \A t \in 1..Turn :
                   /\ Places(t)' = Places(t) \cup N
                   /\ \A p \in Places(t) : At(p)' = At(p) /\ p \notin N
                   /\ \A p \in Places(t), n \in N : Earlier(p, n)
<1>1. PICK m \in Nat : m = Turn /\ m >= 1
  BY DEF Turn
<1>2. DOMAIN records = 1..m /\ m \in 1..m /\ records[m] \in Seq(Record)
  BY <1>1 DEF Turn
<1>3. PICK n \in Nat : n = Len(records[m])
  BY <1>2
<1>4. PICK k \in Nat : k = Len(rs)
  OBVIOUS
<1>5. /\ records' \in Seq(Seq(Record)) /\ Len(records') = m
      /\ DOMAIN records' = 1..m
      /\ records'[m] = records[m] \o rs
      /\ \A u \in 1..m : u # m => records'[u] = records[u]
  <2>1. records' = [records EXCEPT ![m] = records[m] \o rs]
    BY <1>1 DEF Log
  <2>2. records[m] \o rs \in Seq(Record) /\ m \in 1..Len(records)
    BY <1>1, <1>2 DEF Turn
  <2>3. records' \in Seq(Seq(Record)) /\ Len(records') = Len(records)
    BY <2>1, <2>2, ExceptSeq
  <2> QED
    BY <1>1, <1>2, <2>1, <2>3 DEF Turn
<1>6. /\ DOMAIN records[m] = 1..n /\ DOMAIN records'[m] = 1..(n + k) /\ DOMAIN rs = 1..k
      /\ \A i \in 1..n : i \in 1..(n + k) /\ records'[m][i] = records[m][i]
      /\ \A i \in 1..k : n + i \in 1..(n + k) /\ records'[m][n + i] = rs[i]
      /\ \A i \in 1..(n + k) : i \in 1..n \/ (i - n \in 1..k /\ i = n + (i - n))
      /\ \A i \in 1..k : n + i \notin 1..n /\ \A j \in 1..n : j < n + i
  BY <1>2, <1>3, <1>4, <1>5
<1>7. PICK N : N = {<<m, n + i>> : i \in 1..k}
  OBVIOUS
<1>8. \A i \in 1..k : \A x : x = <<m, n + i>> => At(x)' = rs[i]
  BY <1>6 DEF At
<1>9. Turn' = Turn
  BY <1>1, <1>5 DEF Turn
<1>10. ASSUME NEW t \in 1..Turn
       PROVE  /\ Places(t)' = Places(t) \cup N
              /\ \A p \in Places(t) : At(p)' = At(p) /\ p \notin N
              /\ \A p \in Places(t), x \in N : Earlier(p, x)
  <2>1. t \in 1..m /\ t \in Nat /\ m \in t..m /\ \A u \in t..m : u \in 1..m /\ u \in Nat /\ u <= m
    BY <1>1
  <2>2. \A p : p \in Places(t) <=> \E u \in t..m : \E i \in DOMAIN records[u] : p = <<u, i>>
    BY <1>1, <2>1, PlaceFacts
  <2>3. \A p : p \in Places(t)' <=> \E u \in t..m : \E i \in DOMAIN records'[u] : p = <<u, i>>
    BY <1>5 DEF Places, Turn
  <2>4. ASSUME NEW p
        PROVE  p \in Places(t)' <=> p \in Places(t) \/ p \in N
    <3>1. ASSUME NEW u \in t..m, NEW i \in DOMAIN records'[u], p = <<u, i>>
          PROVE  p \in Places(t) \/ p \in N
      <4>1. CASE u # m
        BY <1>5, <2>1, <2>2, <3>1, <4>1
      <4>2. CASE u = m /\ i \in 1..n
        BY <1>6, <2>2, <3>1, <4>2
      <4>3. CASE u = m /\ i \notin 1..n
        <5>1. PICK j \in 1..k : i = n + j
          BY <1>6, <3>1, <4>3
        <5> QED
          BY <1>7, <3>1, <4>3, <5>1
      <4> QED
        BY <4>1, <4>2, <4>3
    <3>2. ASSUME NEW u \in t..m, NEW i \in DOMAIN records[u], p = <<u, i>>
          PROVE  p \in Places(t)'
      BY <1>5, <1>6, <2>1, <2>3, <3>2
    <3>3. p \in N => p \in Places(t)'
      BY <1>6, <1>7, <2>1, <2>3
    <3> QED
      BY <2>2, <2>3, <3>1, <3>2, <3>3
  <2>6. ASSUME NEW p \in Places(t)
        PROVE  At(p)' = At(p) /\ p \notin N /\ \A x \in N : Earlier(p, x)
    <3>1. PICK u \in t..m : \E i \in DOMAIN records[u] : p = <<u, i>>
      BY <2>2
    <3>2. PICK i \in DOMAIN records[u] : p = <<u, i>>
      BY <3>1
    <3>3. p[1] = u /\ p[2] = i
      BY <3>2
    <3>4. CASE u = m
      <4>1. i \in 1..n
        BY <1>6, <3>4
      <4>2. At(p)' = At(p)
        BY <1>6, <3>3, <3>4, <4>1 DEF At
      <4>3. ASSUME NEW j \in 1..k
            PROVE  p # <<m, n + j>> /\ Earlier(p, <<m, n + j>>)
        <5>1. i # n + j /\ i < n + j
          BY <1>6, <4>1
        <5> QED
          BY <3>2, <3>3, <3>4, <5>1 DEF Earlier
      <4> QED
        BY <1>7, <4>2, <4>3
    <3>5. CASE u # m
      <4>1. u < m
        BY <2>1, <3>5
      <4>2. At(p)' = At(p)
        BY <1>5, <2>1, <3>3, <3>5 DEF At
      <4>3. \A j \in 1..k : p # <<m, n + j>> /\ Earlier(p, <<m, n + j>>)
        BY <3>2, <3>3, <3>5, <4>1 DEF Earlier
      <4> QED
        BY <1>7, <4>2, <4>3
    <3> QED
      BY <3>4, <3>5
  <2> QED
    BY <2>4, <2>6
<1>11. \A x \in N : \E i \in DOMAIN rs : At(x)' = rs[i]
  BY <1>6, <1>7, <1>8
<1>12. \A i \in DOMAIN rs : \E x \in N : At(x)' = rs[i]
  BY <1>6, <1>7, <1>8
<1> QED
  BY <1>5, <1>9, <1>10, <1>11, <1>12

(* A turn begins with no records. *)
NewTurn == records' = Append(records, <<>>)

(* A turn that begins has no places yet. *)
LEMMA BeginTurnFacts ==
  ASSUME records \in Seq(Seq(Record)), NewTurn
  PROVE  /\ records' \in Seq(Seq(Record)) /\ Turn' = Turn + 1 /\ Turn \in Nat
         /\ \A k : k = Turn' => Places(k)' = {}
         /\ \A t \in 1..Turn : /\ Places(t)' = Places(t)
                               /\ \A p \in Places(t) : At(p)' = At(p)
<1>1. PICK m \in Nat : m = Turn
  BY DEF Turn
<1>2. PICK k \in Nat : k = m + 1
  OBVIOUS
<1>3. /\ records' \in Seq(Seq(Record)) /\ Len(records') = k
      /\ records'[k] = <<>> /\ \A u \in 1..m : records'[u] = records[u]
  BY <1>1, <1>2 DEF Turn, NewTurn
<1>4. DOMAIN records'[k] = {} /\ Turn' = k
  BY <1>3 DEF Turn
<1>5. ASSUME NEW t \in Nat
      PROVE  \A p : p \in Places(t)' <=>
               \E u \in t..k : \E i \in DOMAIN records'[u] : p = <<u, i>>
  BY <1>3 DEF Places, Turn
<1>6. \A n : n = Turn' => Places(n)' = {}
  <2>1. \A u \in k..k : u = k
    BY <1>2
  <2>2. \A p : p \notin Places(k)'
    BY <1>4, <1>5, <2>1
  <2> QED
    BY <1>4, <2>2
<1>7. ASSUME NEW t \in 1..Turn
      PROVE  Places(t)' = Places(t) /\ \A p \in Places(t) : At(p)' = At(p)
  <2>1. t \in Nat /\ (\A u \in t..m : u \in t..k) /\ \A u \in t..m : u \in 1..m
    BY <1>1, <1>2
  <2>2. \A u \in t..k : u \in t..m \/ u = k
    BY <1>1, <1>2
  <2>3. \A p : p \in Places(t) <=> \E u \in t..m : \E i \in DOMAIN records[u] : p = <<u, i>>
    BY <1>1, <2>1, PlaceFacts
  <2>4. ASSUME NEW u \in t..m
        PROVE  records'[u] = records[u] /\ u \in t..k
    BY <1>3, <2>1
  <2>5. ASSUME NEW p \in Places(t)
        PROVE  p \in Places(t)' /\ At(p)' = At(p)
    <3>1. PICK u \in t..m : \E i \in DOMAIN records[u] : p = <<u, i>>
      BY <2>3
    <3>2. PICK i \in DOMAIN records[u] : p = <<u, i>>
      BY <3>1
    <3>3. p \in Places(t)'
      BY <1>5, <2>1, <2>4, <3>2
    <3>4. p[1] = u /\ p[2] = i
      BY <3>2
    <3> QED
      BY <2>4, <3>3, <3>4 DEF At
  <2>6. ASSUME NEW p, p \in Places(t)'
        PROVE  p \in Places(t)
    <3>1. PICK u \in t..k : \E i \in DOMAIN records'[u] : p = <<u, i>>
      BY <1>5, <2>1, <2>6
    <3>2. u # k
      BY <1>4, <3>1
    <3>3. u \in t..m /\ records'[u] = records[u]
      BY <2>2, <2>4, <3>2
    <3> QED
      BY <2>3, <3>1, <3>3
  <2>7. Places(t)' = Places(t)
    BY <2>5, <2>6
  <2> QED
    BY <2>5, <2>7
<1> QED
  BY <1>1, <1>2, <1>3, <1>4, <1>6, <1>7

(* What is at a place is a record; places are ordered.                     *)
LEMMA RecordsAreOrdered ==
  ASSUME records \in Seq(Seq(Record)), NEW t \in Nat, t >= 1
  PROVE  /\ \A p \in Places(t) :
              /\ At(p) \in Record /\ p[1] \in t..Turn /\ p[2] \in DOMAIN records[p[1]]
              /\ ~Earlier(p, p)
         /\ \A p, q \in Places(t) : Earlier(p, q) => ~Earlier(q, p)
<1>1. PICK m \in Nat : m = Turn
  BY DEF Turn
<1>2. ASSUME NEW p \in Places(t)
      PROVE  /\ At(p) \in Record /\ p[1] \in t..m /\ p[2] \in DOMAIN records[p[1]]
             /\ p[1] \in Int /\ p[2] \in Int
  <2>1. PICK u \in t..m : \E i \in DOMAIN records[u] : p = <<u, i>>
    BY <1>1, PlaceFacts
  <2>2. PICK i \in DOMAIN records[u] : p = <<u, i>>
    BY <2>1
  <2>3. u \in DOMAIN records
    BY <1>1 DEF Turn
  <2>4. records[u] \in Seq(Record)
    BY <2>3
  <2>5. i \in Int /\ records[u][i] \in Record
    BY <2>4
  <2>6. p[1] = u /\ p[2] = i /\ u \in Int
    BY <2>2
  <2> QED
    BY <2>5, <2>6 DEF At
<1>3. ASSUME NEW p \in Places(t), NEW q \in Places(t)
      PROVE  ~Earlier(p, p) /\ (Earlier(p, q) => ~Earlier(q, p))
  BY <1>2 DEF Earlier
<1> QED
  BY <1>1, <1>2, <1>3

(* A file that only write_file touched has no record that was cut.         *)
LEMMA NoneIsCut ==
  ASSUME NEW f, NEW t \in Nat, OnlyWritten(f, t)
  PROVE  \A p \in Places(t) : At(p).file = f => p \in Plan(t)
<1> SUFFICES ASSUME NEW p \in Places(t), At(p).file = f
             PROVE  p \in Plan(t)
  OBVIOUS
<1>1. PICK u \in t..Turn : \E i \in DOMAIN records[u] : p = <<u, i>>
  BY PlaceFacts
<1>2. PICK i \in DOMAIN records[u] : p = <<u, i>>
  BY <1>1
<1>3. At(p) = records[u][i]
  BY <1>2 DEF At
<1>4. ~Truncated(At(p))
  BY <1>3 DEF OnlyWritten
<1> QED
  BY <1>4 DEF Plan

-----------------------------------------------------------------------------
(* What a step keeps.                                                      *)

(* The records of file f in turn t and later stay what they are.           *)
FileStays(f, t) ==
  /\ \A p : p \in Places(t)' /\ At(p)'.file = f <=> p \in Places(t) /\ At(p).file = f
  /\ \A p \in Places(t) : At(p).file = f => At(p)' = At(p)

(* What is marked now is in no part of the session that only write_file    *)
(* touched.                                                                *)
IsMarked(f) == [turn |-> Turn, file |-> f] \in others'

LEMMA MarkedIsOut ==
  ASSUME NEW f, NEW t \in Nat, t <= Turn, Turn \in Nat, IsMarked(f)
  PROVE  ~OnlyWritten(f, t)'
<1>1. PICK x : x = [turn |-> Turn, file |-> f]
  OBVIOUS
<1>2. x \in others' /\ x.file = f /\ ~(x.turn < t)
  BY <1>1 DEF IsMarked
<1> QED
  BY <1>2 DEF OnlyWritten

(* What only write_file touched, only write_file had touched before.       *)
LEMMA OnlyWrittenBefore ==
  ASSUME NEW f, NEW t \in Nat, others \subseteq others', OnlyWritten(f, t)',
         \A p \in Places(t) : At(p).file = f => p \in Places(t)' /\ At(p)' = At(p)
  PROVE  OnlyWritten(f, t)
<1>1. \A x \in others : x.file = f => x.turn < t
  BY DEF OnlyWritten
<1>2. ASSUME NEW u \in t..Turn, NEW i \in DOMAIN records[u], records[u][i].file = f
      PROVE  ~Truncated(records[u][i])
  <2>1. PICK p : p = <<u, i>>
    OBVIOUS
  <2>2. p \in Places(t) /\ At(p) = records[u][i]
    BY <2>1, PlaceFacts DEF At
  <2>3. p \in Places(t)' /\ At(p)' = records[u][i]
    BY <1>2, <2>2
  <2>4. u \in (t..Turn)' /\ i \in DOMAIN records'[u]
    <3>1. PICK v \in (t..Turn)' : \E j \in DOMAIN records'[v] : p = <<v, j>>
      BY <2>3 DEF Places
    <3> QED
      BY <2>1, <3>1
  <2>5. records'[u][i] = records[u][i]
    BY <2>1, <2>3 DEF At
  <2> QED
    BY <1>2, <2>4, <2>5 DEF OnlyWritten, Truncated
<1> QED
  BY <1>1, <1>2 DEF OnlyWritten

(* What DiskIsKnown and BeforeIsKnown come to once a step was taken.       *)
LEMMA DiskThen ==
  ASSUME \A t \in (1..Turn)' \ undone', f \in Files :
           OnlyWritten(f, t)' =>
             Settled(f)' = atStart'[t][f]
               \/ \E p \in Places(t)' : At(p)'.file = f /\ At(p)'.after = Settled(f)'
  PROVE  DiskIsKnown'
BY DEF DiskIsKnown, Known

LEMMA BeforeThen ==
  ASSUME \A t \in (1..Turn)' \ undone', f \in Files :
           OnlyWritten(f, t)' =>
             \A p \in Places(t)' : At(p)'.file = f =>
               At(p)'.before = atStart'[t][f]
                 \/ \E q \in {q \in Places(t)' : Earlier(q, p)} :
                      At(q)'.file = f /\ At(q)'.after = At(p)'.before
  PROVE  BeforeIsKnown'
BY DEF BeforeIsKnown, Known, Earlier

(* A step that adds and removes no record of a file, nor changes what it   *)
(* holds, or else marks it, keeps what is known.                           *)
FileKept(f) ==
  IsMarked(f) \/ (Settled(f)' = Settled(f) /\ \A t \in 1..Turn : FileStays(f, t))

LEMMA NothingNew ==
  ASSUME DiskIsKnown, BeforeIsKnown, Turn' = Turn, atStart' = atStart,
         undone \subseteq undone', others \subseteq others',
         \A f \in Files : FileKept(f)
  PROVE  /\ DiskIsKnown' /\ BeforeIsKnown'
         /\ \A f \in Files, t \in 1..Turn : OnlyWritten(f, t)' =>
              OnlyWritten(f, t) /\ FileStays(f, t) /\ Settled(f)' = Settled(f)
<1>0. Turn \in Nat /\ (1..Turn)' = 1..Turn
  BY DEF Turn
<1>1. ASSUME NEW f \in Files, NEW t \in 1..Turn, OnlyWritten(f, t)'
      PROVE  OnlyWritten(f, t) /\ FileStays(f, t) /\ Settled(f)' = Settled(f)
  <2>1. t \in Nat /\ t <= Turn
    BY <1>0
  <2>2. FileStays(f, t) /\ Settled(f)' = Settled(f)
    BY <1>0, <1>1, <2>1, MarkedIsOut DEF FileKept
  <2>3. \A p \in Places(t) : At(p).file = f => p \in Places(t)' /\ At(p)' = At(p)
    BY <2>2 DEF FileStays
  <2> QED
    BY <1>1, <2>1, <2>2, <2>3, OnlyWrittenBefore
<1>2. DiskIsKnown'
  <2> SUFFICES ASSUME NEW t \in (1..Turn)' \ undone', NEW f \in Files, OnlyWritten(f, t)'
               PROVE  Settled(f)' = atStart'[t][f]
                        \/ \E p \in Places(t)' : At(p)'.file = f /\ At(p)'.after = Settled(f)'
    BY DiskThen
  <2>1. /\ t \in (1..Turn) \ undone /\ OnlyWritten(f, t) /\ FileStays(f, t)
        /\ Settled(f)' = Settled(f)
    BY <1>0, <1>1
  <2>2. Known(Settled(f), f, t, Places(t))
    BY <2>1 DEF DiskIsKnown
  <2>3. CASE \E p \in Places(t) : At(p).file = f /\ At(p).after = Settled(f)
    <3>1. PICK p \in Places(t) : At(p).file = f /\ At(p).after = Settled(f)
      BY <2>3
    <3>2. p \in Places(t)' /\ At(p)' = At(p)
      BY <2>1, <3>1 DEF FileStays
    <3> QED
      BY <2>1, <3>1, <3>2
  <2> QED
    BY <2>1, <2>2, <2>3 DEF Known
<1>3. BeforeIsKnown'
  <2> SUFFICES ASSUME NEW t \in (1..Turn)' \ undone', NEW f \in Files, OnlyWritten(f, t)',
                      NEW p \in Places(t)', At(p)'.file = f
               PROVE  At(p)'.before = atStart'[t][f]
                        \/ \E q \in {q \in Places(t)' : Earlier(q, p)} :
                             At(q)'.file = f /\ At(q)'.after = At(p)'.before
    BY BeforeThen
  <2>1. t \in (1..Turn) \ undone /\ OnlyWritten(f, t) /\ FileStays(f, t)
    BY <1>0, <1>1
  <2>2. p \in Places(t) /\ At(p).file = f /\ At(p)' = At(p)
    BY <2>1 DEF FileStays
  <2>3. Known(At(p).before, f, t, {q \in Places(t) : Earlier(q, p)})
    BY <2>1, <2>2 DEF BeforeIsKnown
  <2>4. PICK b : b = At(p).before /\ b = At(p)'.before
    BY <2>2
  <2>5. CASE \E q \in {q \in Places(t) : Earlier(q, p)} : At(q).file = f /\ At(q).after = b
    <3>1. PICK q \in Places(t) : Earlier(q, p) /\ At(q).file = f /\ At(q).after = b
      BY <2>5
    <3>2. q \in Places(t)' /\ At(q)' = At(q)
      BY <2>1, <3>1 DEF FileStays
    <3> QED
      BY <2>4, <3>1, <3>2
  <2> QED
    BY <2>3, <2>4, <2>5 DEF Known
<1> QED
  BY <1>1, <1>2, <1>3

(* No step before marks what it does not say; nothing is ever unmarked.    *)
LEMMA MarkFacts ==
  ASSUME NEW M \in SUBSET Files, Mark(M), Turn \in 0..MaxTurns,
         others \subseteq [turn : 0..MaxTurns, file : Files]
  PROVE  /\ others' \subseteq [turn : 0..MaxTurns, file : Files]
         /\ others \subseteq others' /\ \A f \in M : IsMarked(f)
BY DEF Mark, IsMarked

(* Records that nobody touches stay. *)
LEMMA RecordsStay ==
  ASSUME UNCHANGED records
  PROVE  Turn' = Turn /\ \A f, t : FileStays(f, t)
<1>1. Turn' = Turn
  BY DEF Turn
<1>2. \A t : Places(t)' = Places(t)
  BY <1>1 DEF Places
<1>3. \A p : At(p)' = At(p)
  BY DEF At
<1> QED
  BY <1>1, <1>2, <1>3 DEF FileStays

-----------------------------------------------------------------------------
(* The steps of a turn.                                                    *)

(* What a step of a running turn has to do to keep the invariant.          *)
LEMMA InTurn ==
  ASSUME RewindInv, running, UNCHANGED <<index, atStart, rewind>>, Turn' = Turn,
         running' \in BOOLEAN, disk' \in [Files -> OnDisk], records' \in Seq(Seq(Record)),
         others' \subseteq [turn : 0..MaxTurns, file : Files], changes' \in 0..MaxChanges,
         writer' \in WriterType, shell' \in [Shells -> ShellType],
         writer' # NoCall => running', \A s \in Shells : shell'[s] # NoCall => running',
         DiskIsKnown', BeforeIsKnown'
  PROVE  RewindInv'
<1>1. /\ Turn \in Nat /\ Turn <= MaxTurns /\ Turn >= 1 /\ target = 0 /\ plan = {}
      /\ ~checked
  BY DEF RewindInv, TurnsApart, CheckedIsNext, Turn, TypeOK
<1>2. UNCHANGED <<plan, checked, raced, target, ioFailed, undone, rewinds>>
  BY DEF rewind
<1>3. TypeOK'
  <2>1. plan' \subseteq Plan(1)'
    BY <1>1, <1>2
  <2>2. target' \in (0..Turn)' /\ undone' \subseteq (1..Turn)'
    BY <1>1, <1>2 DEF RewindInv, TypeOK
  <2>3. Len(atStart') = Turn' /\ atStart' \in Seq([Files -> OnDisk])
    BY DEF RewindInv, TypeOK
  <2>4. UNCHANGED <<index, atStart>>
    OBVIOUS
  <2> QED
    BY <1>2, <2>1, <2>2, <2>3, <2>4 DEF RewindInv, TypeOK
<1>4. TurnsApart'
  BY <1>1, <1>2 DEF TurnsApart
<1>5. PlanIsRest' /\ CheckedIsNext' /\ LeftSuffices'
  BY <1>1, <1>2 DEF PlanIsRest, CheckedIsNext, LeftSuffices
<1> QED
  BY <1>3, <1>4, <1>5 DEF RewindInv

(* The bounds and types a running turn goes by.                            *)
LEMMA TurnFacts ==
  ASSUME RewindInv, running
  PROVE  /\ Turn \in Nat /\ Turn >= 1 /\ Turn <= MaxTurns /\ Turn \in 0..MaxTurns
         /\ records \in Seq(Seq(Record)) /\ disk \in [Files -> OnDisk]
         /\ index \in [Files -> OnDisk] /\ changes \in 0..MaxChanges
         /\ others \subseteq [turn : 0..MaxTurns, file : Files]
         /\ writer \in WriterType /\ shell \in [Shells -> ShellType]
         /\ running = TRUE
<1> USE RewindAssumption
<1>1. Turn \in Nat /\ Turn >= 1 /\ Turn <= MaxTurns
  BY DEF RewindInv, TurnsApart, Turn, TypeOK
<1> QED
  BY <1>1 DEF RewindInv, TypeOK

(* One more command or change is still within the bound.                   *)
LEMMA OneMore ==
  ASSUME changes \in 0..MaxChanges, changes < MaxChanges, changes' = changes + 1
  PROVE  changes' \in 0..MaxChanges
BY RewindAssumption

(* What the call of write_file in flight is. *)
LEMMA WriterFacts ==
  ASSUME writer \in WriterType, writer # NoCall
  PROVE  /\ writer.file \in Files /\ writer.before \in OnDisk
         /\ writer.at \in {"reads", "wrote"}
         /\ writer \in [at : {"reads", "wrote"}, file : Files, before : OnDisk]
BY DEF WriterType

(* A step of a turn that adds no record, and keeps or marks every file.    *)
LEMMA InTurnNothingNew ==
  ASSUME RewindInv, running, UNCHANGED <<index, atStart, rewind, records, running>>,
         disk' \in [Files -> OnDisk], changes' \in 0..MaxChanges,
         writer' \in WriterType, shell' \in [Shells -> ShellType],
         NEW M \in SUBSET Files, Mark(M),
         \A f \in Files \ M : Settled(f)' = Settled(f)
  PROVE  RewindInv'
<1>1. Turn' = Turn /\ \A f, t : FileStays(f, t)
  BY RecordsStay
<1>2. /\ others' \subseteq [turn : 0..MaxTurns, file : Files]
      /\ others \subseteq others' /\ \A f \in M : IsMarked(f)
  BY TurnFacts, MarkFacts
<1>3. \A f \in Files : FileKept(f)
  BY <1>1, <1>2 DEF FileKept
<1>4. undone' = undone
  BY DEF rewind
<1>5. DiskIsKnown' /\ BeforeIsKnown'
  <2>1. DiskIsKnown /\ BeforeIsKnown /\ atStart' = atStart /\ undone \subseteq undone'
    BY <1>4 DEF RewindInv
  <2> QED
    BY <1>1, <1>2, <1>3, <2>1, NothingNew
<1>6. records' \in Seq(Seq(Record)) /\ running' = TRUE
  BY TurnFacts
<1> QED
  BY <1>1, <1>2, <1>5, <1>6, InTurn

(* write_file begins: its file is read, or counts as absent and is marked. *)
LEMMA WriteBeginKeeps ==
  ASSUME RewindInv, NEW g \in Files, NEW b \in OnDisk, WriteBegin(g, b)
  PROVE  RewindInv'
<1>1. /\ running /\ writer = NoCall
      /\ writer' = [at |-> "reads", file |-> g, before |-> b]
      /\ Mark(IF b = disk[g] THEN {} ELSE {g})
      /\ UNCHANGED <<index, running, atStart, rewind, disk, records, changes, shell>>
  BY DEF WriteBegin, InCall, LockFree
<1>2. writer' \in WriterType
  BY <1>1 DEF WriterType
<1>3. PICK M : M = IF b = disk[g] THEN {} ELSE {g}
  OBVIOUS
<1>4. M \in SUBSET Files /\ Mark(M)
  BY <1>1, <1>3
<1>5. ASSUME NEW f \in Files \ M
      PROVE  Settled(f)' = Settled(f)
  <2>1. Settled(f) = disk[f]
    BY <1>1 DEF Settled, InFlight
  <2>2. writer' # NoCall /\ writer'.file = g /\ writer'.before = b
    BY <1>1 DEF NoCall
  <2>3. f = g => b = disk[f]
    BY <1>3
  <2>4. Settled(f)' = IF g = f THEN b ELSE disk[f]
    BY <1>1, <2>2 DEF Settled, InFlight
  <2> QED
    BY <2>1, <2>3, <2>4
<1> QED
  BY <1>1, <1>2, <1>4, <1>5, TurnFacts, InTurnNothingNew

(* What is left of a change: every command knows that the file moved.      *)
LEMMA SeenFacts ==
  ASSUME shell \in [Shells -> ShellType], NEW f \in Files, SeenToMove(f)
  PROVE  /\ shell' \in [Shells -> ShellType]
         /\ \A s \in Shells : shell'[s] # NoCall => shell[s] # NoCall
<1>1. ASSUME NEW s \in Shells
      PROVE  /\ shell'[s] \in ShellType
             /\ shell'[s] # NoCall => shell[s] # NoCall
  <2>1. shell[s] \in ShellType
    OBVIOUS
  <2>2. CASE shell[s].at = "ran"
    <3>1. shell[s] \in [at : {"ran"}, locked : BOOLEAN, was : [Files -> Statuses],
                        moved : SUBSET Files]
      BY <2>1, <2>2 DEF ShellType, NoCall
    <3>2. shell'[s] = [shell[s] EXCEPT !.moved = shell[s].moved \cup {f}]
      BY <2>2 DEF SeenToMove
    <3>3. shell'[s] \in [at : {"ran"}, locked : BOOLEAN, was : [Files -> Statuses],
                         moved : SUBSET Files]
      BY <3>1, <3>2
    <3>4. shell[s] # NoCall
      BY <2>2 DEF NoCall
    <3> QED
      BY <3>3, <3>4 DEF ShellType
  <2>3. CASE shell[s].at # "ran"
    BY <2>1, <2>3 DEF SeenToMove
  <2> QED
    BY <2>2, <2>3
<1>2. shell' = [s \in Shells |-> shell'[s]]
  BY DEF SeenToMove
<1> QED
  BY <1>1, <1>2

(* The file is written, well or not: what is settled is what was found.    *)
LEMMA WriteToolKeeps ==
  ASSUME RewindInv, NEW c \in Written, WriteTool(c)
  PROVE  RewindInv'
<1>1. /\ writer.at = "reads" /\ SeenToMove(writer.file) /\ UNCHANGED <<records, raced>>
      /\ \/ Change(writer.file, c, {}) /\ writer' = [writer EXCEPT !.at = "wrote"]
         \/ Change(writer.file, Empty, {}) /\ UNCHANGED writer
  BY DEF WriteTool
<1>2. writer # NoCall /\ running
  BY <1>1 DEF NoCall, RewindInv, TurnsApart
<1>3. writer \in [at : {"reads", "wrote"}, file : Files, before : OnDisk] /\ writer.file \in Files
  BY <1>2, TurnFacts, WriterFacts
<1>4. PICK d \in OnDisk : Change(writer.file, d, {})
  BY <1>1 DEF OnDisk, Content, Written
<1>5. /\ changes < MaxChanges /\ changes' = changes + 1
      /\ disk' = [disk EXCEPT ![writer.file] = d] /\ Mark({})
      /\ UNCHANGED <<index, running, atStart, plan, checked, target, ioFailed,
                     undone, rewinds>>
  BY <1>4 DEF Change
<1>6. UNCHANGED <<index, atStart, rewind, records, running>>
  BY <1>1, <1>5 DEF rewind
<1>7. disk' \in [Files -> OnDisk]
  BY <1>2, <1>3, <1>5, TurnFacts
<1>8. /\ writer' \in [at : {"reads", "wrote"}, file : Files, before : OnDisk]
      /\ writer'.file = writer.file /\ writer'.before = writer.before /\ writer' # NoCall
  BY <1>1, <1>3 DEF NoCall
<1>9. \A f \in Files : Settled(f)' = Settled(f)
  BY <1>2, <1>3, <1>5, <1>8, TurnFacts DEF Settled, InFlight
<1>10. writer' \in WriterType /\ shell' \in [Shells -> ShellType] /\ changes' \in 0..MaxChanges
  BY <1>1, <1>2, <1>3, <1>5, <1>8, TurnFacts, SeenFacts, OneMore DEF WriterType
<1> QED
  BY <1>2, <1>5, <1>6, <1>7, <1>9, <1>10, InTurnNothingNew

(* A call that fails leaves what it found, or its file is marked.          *)
LEMMA WriteFailsKeeps ==
  ASSUME RewindInv, WriteFails
  PROVE  RewindInv'
<1>1. /\ writer.at = "reads" /\ writer' = NoCall
      /\ Mark(IF disk[writer.file] = writer.before THEN {} ELSE {writer.file})
      /\ UNCHANGED <<index, running, atStart, rewind, disk, records, changes, shell>>
  BY DEF WriteFails, InCall
<1>2. writer # NoCall /\ running
  BY <1>1 DEF NoCall, RewindInv, TurnsApart
<1>3. PICK M : M = IF disk[writer.file] = writer.before THEN {} ELSE {writer.file}
  OBVIOUS
<1>4. M \in SUBSET Files /\ Mark(M)
  BY <1>1, <1>2, <1>3, TurnFacts, WriterFacts
<1>5. \A f \in Files \ M : Settled(f)' = Settled(f)
  BY <1>1, <1>2, <1>3 DEF Settled, InFlight
<1>6. writer' \in WriterType
  BY <1>1 DEF WriterType
<1> QED
  BY <1>1, <1>2, <1>4, <1>5, <1>6, TurnFacts, InTurnNothingNew

(* A step of the command s changes what is known of s alone.               *)
LEMMA ShellTyped ==
  ASSUME shell \in [Shells -> ShellType], NEW s \in Shells, NEW v \in ShellType,
         shell' = [shell EXCEPT ![s] = v]
  PROVE  shell' \in [Shells -> ShellType]
OBVIOUS

(* Steps of a command that leave disk and records alone. *)
LEMMA ShellStepKeeps ==
  ASSUME RewindInv, running, InCall, UNCHANGED <<disk, records, others, writer>>,
         changes' \in 0..MaxChanges,
         NEW s \in Shells, NEW v \in ShellType, shell' = [shell EXCEPT ![s] = v]
  PROVE  RewindInv'
<1>1. UNCHANGED <<index, atStart, rewind, records, running>>
  BY DEF InCall
<1>2. {} \in SUBSET Files /\ Mark({})
  BY DEF Mark
<1>3. \A f \in Files : Settled(f)' = Settled(f)
  BY DEF Settled, InFlight
<1>4. disk' \in [Files -> OnDisk] /\ writer' \in WriterType /\ shell' \in [Shells -> ShellType]
  BY TurnFacts, ShellTyped
<1> QED
  BY <1>1, <1>2, <1>3, <1>4, InTurnNothingNew

LEMMA SnapshotTyped == Snapshot \in [Files -> Statuses]
BY DEF Snapshot, Status, Statuses

LEMMA BashBeginKeeps ==
  ASSUME RewindInv, NEW s \in Shells, NEW locked \in BOOLEAN, BashBegin(s, locked)
  PROVE  RewindInv'
<1>1. PICK v : v = [at |-> "ran", locked |-> locked, was |-> Snapshot, moved |-> {}]
  OBVIOUS
<1>2. v \in [at : {"ran"}, locked : BOOLEAN, was : [Files -> Statuses], moved : SUBSET Files]
  BY <1>1, SnapshotTyped
<1>3. v \in ShellType
  BY <1>2 DEF ShellType
<1>4. /\ running /\ InCall /\ UNCHANGED <<disk, records, others, writer>>
      /\ changes < MaxChanges /\ changes' = changes + 1
      /\ shell' = [shell EXCEPT ![s] = v]
  BY <1>1 DEF BashBegin
<1>5. changes' \in 0..MaxChanges
  BY <1>4, TurnFacts, OneMore
<1> QED
  BY <1>3, <1>4, <1>5, ShellStepKeeps

(* A command that is on its way belongs to the running turn.               *)
LEMMA OnItsWay ==
  ASSUME RewindInv, NEW s \in Shells, NEW at, shell[s].at = at, at # "off"
  PROVE  running /\ shell[s] # NoCall /\ shell[s] \in ShellType
BY DEF RewindInv, TurnsApart, TypeOK, NoCall

LEMMA BashFailsKeeps ==
  ASSUME RewindInv, NEW s \in Shells, BashFails(s)
  PROVE  RewindInv'
<1>1. /\ shell[s].at = "ran" /\ InCall /\ UNCHANGED <<disk, records, others, writer>>
      /\ changes' = changes /\ shell' = [shell EXCEPT ![s] = NoCall]
  BY DEF BashFails
<1>2. running
  BY <1>1, OnItsWay
<1>3. NoCall \in ShellType /\ changes' \in 0..MaxChanges
  BY <1>1, <1>2, TurnFacts DEF ShellType
<1> QED
  BY <1>1, <1>2, <1>3, ShellStepKeeps

LEMMA BashLookKeeps ==
  ASSUME RewindInv, NEW s \in Shells, BashLook(s)
  PROVE  RewindInv'
<1>1. PICK F : F = {f \in shell[s].moved : shell[s].was[f] # "none" \/ Snapshot[f] # "none"}
  OBVIOUS
<1>2. PICK v : v = [at |-> "looked", locked |-> shell[s].locked, was |-> shell[s].was,
                    is |-> Snapshot, files |-> F]
  OBVIOUS
<1>3. /\ shell[s].at = "ran" /\ InCall /\ UNCHANGED <<disk, records, others, writer>>
      /\ changes' = changes /\ shell' = [shell EXCEPT ![s] = v]
  BY <1>1, <1>2 DEF BashLook
<1>4. running /\ shell[s] \in ShellType
  BY <1>3, OnItsWay
<1>5. shell[s] \in [at : {"ran"}, locked : BOOLEAN, was : [Files -> Statuses],
                    moved : SUBSET Files]
  BY <1>3, <1>4 DEF ShellType, NoCall
<1>6. F \in SUBSET Files
  BY <1>1, <1>5
<1>7. v \in [at : {"looked"}, locked : BOOLEAN, was : [Files -> Statuses],
             is : [Files -> Statuses], files : SUBSET Files]
  BY <1>2, <1>5, <1>6, SnapshotTyped
<1>8. v \in ShellType /\ changes' \in 0..MaxChanges
  BY <1>3, <1>4, <1>7, TurnFacts DEF ShellType
<1> QED
  BY <1>3, <1>4, <1>8, ShellStepKeeps

(* What a diff says of a file is fit for a record.                         *)
LEMMA DiffedTyped ==
  ASSUME disk \in [Files -> OnDisk], NEW f \in Files, NEW was, NEW is, NEW c \in OnDisk
  PROVE  Diffed(f, was, is, c) \in [before : OnDisk, after : Content]
<1>1. NoFile \in OnDisk /\ Empty \in Content /\ Cut \in Content /\ Content \subseteq OnDisk
  BY DEF OnDisk, Content
<1>2. Clipped(c) \in OnDisk
  BY <1>1 DEF Clipped
<1>3. Hydrated(disk[f]) \in Content
  BY <1>1 DEF Hydrated, Clipped, OnDisk
<1> QED
  BY <1>1, <1>2, <1>3 DEF Diffed

LEMMA BashReadKeeps ==
  ASSUME RewindInv, NEW s \in Shells, NEW unread, BashRead(s, unread)
  PROVE  RewindInv'
<1> DEFINE Found == [f \in shell[s].files |->
                      Diffed(f, shell[s].was[f], shell[s].is[f],
                             IF f \in unread THEN NoFile ELSE index[f])]
<1>1. PICK v : v = [at |-> "read", locked |-> shell[s].locked, found |-> Found]
  OBVIOUS
<1>2. /\ shell[s].at = "looked" /\ InCall /\ UNCHANGED <<disk, records, others, writer>>
      /\ changes' = changes /\ shell' = [shell EXCEPT ![s] = v]
  BY <1>1 DEF BashRead
<1>3. running /\ shell[s] \in ShellType
  BY <1>2, OnItsWay
<1>4. shell[s] \in [at : {"looked"}, locked : BOOLEAN, was : [Files -> Statuses],
                    is : [Files -> Statuses], files : SUBSET Files]
  BY <1>2, <1>3 DEF ShellType, NoCall
<1>5. ASSUME NEW f \in shell[s].files
      PROVE  Found[f] \in [before : OnDisk, after : Content]
  <2>1. f \in Files /\ NoFile \in OnDisk /\ index[f] \in OnDisk /\ disk \in [Files -> OnDisk]
    BY <1>3, <1>4, TurnFacts DEF OnDisk
  <2>2. (IF f \in unread THEN NoFile ELSE index[f]) \in OnDisk
    BY <2>1
  <2> QED
    BY <2>1, <2>2, DiffedTyped
<1>6. Found \in [shell[s].files -> [before : OnDisk, after : Content]]
  BY <1>5
<1> HIDE DEF Found
<1>7. v \in [at : {"read"}, locked : BOOLEAN,
             found : UNION {[D -> [before : OnDisk, after : Content]] : D \in SUBSET Files}]
  BY <1>1, <1>4, <1>6
<1>8. v \in ShellType /\ changes' \in 0..MaxChanges
  BY <1>2, <1>3, <1>7, TurnFacts DEF ShellType
<1> QED
  BY <1>2, <1>3, <1>8, ShellStepKeeps

(* A command changes a file, which is marked. *)
LEMMA BashChangeKeeps ==
  ASSUME RewindInv, NEW s \in Shells, NEW g \in Files, NEW c \in Written \cup {NoFile},
         BashChange(s, g, c)
  PROVE  RewindInv'
<1>1. /\ shell[s].at = "ran" /\ Change(g, c, {g}) /\ SeenToMove(g)
      /\ UNCHANGED <<records, writer, raced>>
  BY DEF BashChange
<1>2. running
  BY <1>1, OnItsWay
<1>3. /\ changes < MaxChanges /\ changes' = changes + 1
      /\ disk' = [disk EXCEPT ![g] = c] /\ Mark({g})
      /\ UNCHANGED <<index, running, atStart, plan, checked, target, ioFailed,
                     undone, rewinds>>
  BY <1>1 DEF Change
<1>4. UNCHANGED <<index, atStart, rewind, records, running>>
  BY <1>1, <1>3 DEF rewind
<1>5. c \in OnDisk
  BY DEF OnDisk, Content, Written
<1>6. disk' \in [Files -> OnDisk] /\ \A f \in Files \ {g} : disk'[f] = disk[f]
  BY <1>2, <1>3, <1>5, TurnFacts
<1>7. \A f \in Files \ {g} : Settled(f)' = Settled(f)
  BY <1>1, <1>6 DEF Settled, InFlight
<1>8. writer' \in WriterType /\ shell' \in [Shells -> ShellType] /\ changes' \in 0..MaxChanges
  BY <1>1, <1>2, <1>3, TurnFacts, SeenFacts, OneMore
<1>9. {g} \in SUBSET Files
  OBVIOUS
<1> QED
  BY <1>2, <1>3, <1>4, <1>6, <1>7, <1>8, <1>9, InTurnNothingNew

(* Records of other files leave those of a file alone.                     *)
LEMMA LogKeeps ==
  ASSUME records \in Seq(Seq(Record)), Turn >= 1, NEW rs \in Seq(Record), Log(rs),
         NEW f, \A i \in DOMAIN rs : rs[i].file # f
  PROVE  \A t \in 1..Turn : FileStays(f, t)
<1>1. PICK N :
        /\ \A n \in N : \E i \in DOMAIN rs : At(n)' = rs[i]
        /\ \A t \in 1..Turn :
             /\ Places(t)' = Places(t) \cup N
             /\ \A p \in Places(t) : At(p)' = At(p) /\ p \notin N
  BY LogFacts
<1>2. \A n \in N : At(n)'.file # f
  BY <1>1
<1> QED
  BY <1>1, <1>2 DEF FileStays

(* A command's records mark the files they name.                           *)
LEMMA BashEndKeeps ==
  ASSUME RewindInv, NEW s \in Shells, BashEnd(s)
  PROVE  RewindInv'
<1>1. PICK found : found = shell[s].found
  OBVIOUS
<1>2. PICK o \in Orders(DOMAIN found) :
        Log([i \in DOMAIN o |-> FileRecord(o[i], found[o[i]].before, found[o[i]].after)])
  BY <1>1 DEF BashEnd
<1>3. /\ shell[s].at = "read" /\ Mark(DOMAIN found) /\ shell' = [shell EXCEPT ![s] = NoCall]
      /\ UNCHANGED <<index, running, atStart, rewind, disk, changes, writer>>
  BY <1>1 DEF BashEnd, InCall
<1>4. running /\ shell[s] \in ShellType
  BY <1>3, OnItsWay
<1>5. PICK D \in SUBSET Files : found \in [D -> [before : OnDisk, after : Content]]
  BY <1>1, <1>3, <1>4 DEF ShellType, NoCall
<1>6. DOMAIN found = D
  BY <1>5
<1>7. PICK n \in Nat : o \in [1..n -> D]
  <2>1. IsFiniteSet(D)
    BY <1>5, FS_Subset, RewindAssumption
  <2>2. Cardinality(D) \in Nat
    BY <2>1, FS_CardinalityType
  <2> QED
    BY <1>2, <1>6, <2>2 DEF Orders
<1>8. PICK rs : rs = [i \in 1..n |-> FileRecord(o[i], found[o[i]].before, found[o[i]].after)]
  OBVIOUS
<1>9. Log(rs)
  <2>1. DOMAIN o = 1..n
    BY <1>7
  <2> QED
    BY <1>2, <1>8, <2>1
<1>10. \A i \in 1..n : rs[i] \in Record /\ rs[i].file \in D
  <2> SUFFICES ASSUME NEW i \in 1..n
               PROVE  rs[i] \in Record /\ rs[i].file \in D
    OBVIOUS
  <2>1. o[i] \in D /\ o[i] \in Files
    BY <1>5, <1>7
  <2>2. found[o[i]] \in [before : OnDisk, after : Content]
    BY <1>5, <2>1
  <2> QED
    BY <1>8, <2>1, <2>2 DEF FileRecord, Record
<1>11. rs \in Seq(Record) /\ DOMAIN rs = 1..n
  BY <1>8, <1>10
<1>12. records \in Seq(Seq(Record)) /\ Turn >= 1 /\ Turn \in 0..MaxTurns
  BY <1>4, TurnFacts
<1>13. records' \in Seq(Seq(Record)) /\ Turn' = Turn
  BY <1>9, <1>11, <1>12, LogFacts
<1>14. /\ others' \subseteq [turn : 0..MaxTurns, file : Files]
       /\ others \subseteq others' /\ \A f \in D : IsMarked(f)
  BY <1>3, <1>4, <1>6, <1>12, TurnFacts, MarkFacts
<1>15. ASSUME NEW f \in Files
       PROVE  FileKept(f)
  <2>1. Settled(f)' = Settled(f)
    BY <1>3 DEF Settled, InFlight
  <2>2. f \notin D => \A t \in 1..Turn : FileStays(f, t)
    <3>1. f \notin D => \A i \in DOMAIN rs : rs[i].file # f
      BY <1>10, <1>11
    <3> QED
      BY <1>9, <1>11, <1>12, <3>1, LogKeeps
  <2> QED
    BY <1>14, <2>1, <2>2 DEF FileKept
<1>16. DiskIsKnown' /\ BeforeIsKnown'
  <2>1. DiskIsKnown /\ BeforeIsKnown /\ atStart' = atStart /\ undone \subseteq undone'
    BY <1>3 DEF RewindInv, rewind
  <2> QED
    BY <1>13, <1>14, <1>15, <2>1, NothingNew
<1>17. NoCall \in ShellType
  BY DEF ShellType
<1>18. shell' \in [Shells -> ShellType] /\ UNCHANGED <<index, atStart, rewind>>
  BY <1>3, <1>4, <1>17, TurnFacts, ShellTyped
<1>19. /\ running' = TRUE /\ disk' \in [Files -> OnDisk] /\ changes' \in 0..MaxChanges
       /\ writer' \in WriterType
  BY <1>3, <1>4, TurnFacts
<1> QED
  BY <1>4, <1>13, <1>14, <1>16, <1>18, <1>19, InTurn

(* The record of a write_file call says what was settled before and what   *)
(* is settled then.                                                        *)
LEMMA WriteIsKnown ==
  ASSUME RewindInv, running, writer # NoCall, NEW r \in Record,
         r.file = writer.file, r.before = writer.before, r.after = disk[writer.file],
         Log(<<r>>), writer' = NoCall, UNCHANGED <<disk, atStart, undone, others>>
  PROVE  DiskIsKnown' /\ BeforeIsKnown'
<1>0. /\ records \in Seq(Seq(Record)) /\ Turn >= 1 /\ Turn \in Nat /\ <<r>> \in Seq(Record)
      /\ DOMAIN <<r>> = {1} /\ <<r>>[1] = r
  BY TurnFacts
<1>1. PICK g : g = writer.file
  OBVIOUS
<1>2. PICK N :
        /\ \A n \in N : \E i \in DOMAIN <<r>> : At(n)' = <<r>>[i]
        /\ \A i \in DOMAIN <<r>> : \E n \in N : At(n)' = <<r>>[i]
        /\ \A t \in 1..Turn :
             /\ Places(t)' = Places(t) \cup N
             /\ \A p \in Places(t) : At(p)' = At(p) /\ p \notin N
             /\ \A p \in Places(t), n \in N : Earlier(p, n)
  BY <1>0, LogFacts
<1>3. (\A n \in N : At(n)' = r) /\ \E n \in N : At(n)' = r
  BY <1>0, <1>2
<1>4. Turn' = Turn /\ (1..Turn)' = 1..Turn
  BY <1>0, LogFacts
<1>5. ASSUME NEW t \in (1..Turn)' \ undone', NEW f \in Files, OnlyWritten(f, t)'
      PROVE  /\ t \in (1..Turn) \ undone /\ OnlyWritten(f, t)
             /\ Known(Settled(f), f, t, Places(t))
             /\ \A p \in Places(t) : p \in Places(t)' /\ At(p)' = At(p)
             /\ \A p \in Places(t)' : p \in Places(t) \/ p \in N
             /\ N \subseteq Places(t)'
  <2>1. t \in (1..Turn) \ undone /\ t \in Nat
    BY <1>0, <1>4
  <2>2. \A p \in Places(t) : p \in Places(t)' /\ At(p)' = At(p)
    BY <1>2, <2>1
  <2>3. others \subseteq others'
    OBVIOUS
  <2>4. OnlyWritten(f, t)
    BY <1>5, <2>1, <2>2, <2>3, OnlyWrittenBefore
  <2> QED
    BY <1>2, <2>1, <2>2, <2>4 DEF RewindInv, DiskIsKnown
<1>6. DiskIsKnown'
  <2> SUFFICES ASSUME NEW t \in (1..Turn)' \ undone', NEW f \in Files, OnlyWritten(f, t)'
               PROVE  Settled(f)' = atStart'[t][f]
                        \/ \E p \in Places(t)' : At(p)'.file = f /\ At(p)'.after = Settled(f)'
    BY DiskThen
  <2>1. Settled(f)' = disk[f]
    BY DEF Settled, InFlight
  <2>2. CASE f = g
    <3>1. PICK n \in N : At(n)' = r
      BY <1>3
    <3>2. n \in Places(t)'
      BY <1>5, <3>1
    <3>3. At(n)'.file = f /\ At(n)'.after = Settled(f)'
      BY <1>1, <2>1, <2>2, <3>1
    <3> QED
      BY <3>2, <3>3
  <2>3. CASE f # g
    <3>1. Settled(f) = disk[f]
      BY <1>1, <2>3 DEF Settled, InFlight
    <3>2. CASE disk[f] = atStart[t][f]
      BY <2>1, <3>2
    <3>3. CASE \E p \in Places(t) : At(p).file = f /\ At(p).after = disk[f]
      <4>1. PICK p \in Places(t) : At(p).file = f /\ At(p).after = disk[f]
        BY <3>3
      <4>2. p \in Places(t)' /\ At(p)' = At(p)
        BY <1>5, <4>1
      <4> QED
        BY <2>1, <4>1, <4>2
    <3> QED
      BY <1>5, <3>1, <3>2, <3>3 DEF Known
  <2> QED
    BY <2>2, <2>3
<1>7. BeforeIsKnown'
  <2> SUFFICES ASSUME NEW t \in (1..Turn)' \ undone', NEW f \in Files, OnlyWritten(f, t)',
                      NEW p \in Places(t)', At(p)'.file = f
               PROVE  At(p)'.before = atStart'[t][f]
                        \/ \E q \in {q \in Places(t)' : Earlier(q, p)} :
                             At(q)'.file = f /\ At(q)'.after = At(p)'.before
    BY BeforeThen
  <2>1. ASSUME NEW b, NEW P, P \subseteq Places(t), Known(b, f, t, P),
               \A q \in P : Earlier(q, p)
        PROVE  b = atStart'[t][f]
                 \/ \E q \in {q \in Places(t)' : Earlier(q, p)} :
                      At(q)'.file = f /\ At(q)'.after = b
    <3>1. CASE b = atStart[t][f]
      BY <3>1
    <3>2. CASE \E q \in P : At(q).file = f /\ At(q).after = b
      <4>1. PICK q \in P : At(q).file = f /\ At(q).after = b
        BY <3>2
      <4>2. q \in Places(t)' /\ Earlier(q, p) /\ At(q)' = At(q)
        BY <1>5, <2>1
      <4> QED
        BY <4>1, <4>2
    <3> QED
      BY <2>1, <3>1, <3>2 DEF Known
  <2>2. CASE p \in Places(t)
    <3>1. At(p)' = At(p)
      BY <1>5, <2>2
    <3>2. PICK P : P = {q \in Places(t) : Earlier(q, p)}
      OBVIOUS
    <3>3. Known(At(p).before, f, t, P)
      BY <1>5, <2>2, <3>1, <3>2 DEF RewindInv, BeforeIsKnown
    <3>4. PICK b : b = At(p).before
      OBVIOUS
    <3> QED
      BY <2>1, <3>1, <3>2, <3>3, <3>4
  <2>3. CASE p \notin Places(t)
    <3>1. p \in N
      BY <1>5, <2>3
    <3>2. At(p)' = r
      BY <1>3, <3>1
    <3>3. f = writer.file /\ At(p)'.before = writer.before
      BY <3>2
    <3>4. Settled(f) = writer.before
      BY <3>3 DEF Settled, InFlight
    <3>5. Known(writer.before, f, t, Places(t)) /\ \A q \in Places(t) : Earlier(q, p)
      BY <1>2, <1>5, <3>1, <3>4
    <3>6. PICK b : b = writer.before
      OBVIOUS
    <3>7. PICK P : P = Places(t)
      OBVIOUS
    <3> QED
      BY <2>1, <3>3, <3>5, <3>6, <3>7
  <2> QED
    BY <2>2, <2>3
<1> QED
  BY <1>6, <1>7

(* write_file records its change, or its file is marked.                   *)
LEMMA WriteEndKeeps ==
  ASSUME RewindInv, WriteEnd
  PROVE  RewindInv'
<1>1. PICK g : g = writer.file
  OBVIOUS
<1>2. /\ writer.at = "wrote" /\ writer' = NoCall
      /\ UNCHANGED <<index, running, atStart, rewind, disk, changes, shell>>
      /\ \/ /\ disk[g] # NoFile /\ Mark({})
            /\ Log(<<FileRecord(g, writer.before, disk[g])>>)
         \/ Mark({g}) /\ UNCHANGED records
  BY <1>1 DEF WriteEnd, InCall
<1>3. writer # NoCall /\ running
  BY <1>2 DEF NoCall, RewindInv, TurnsApart
<1>4. g \in Files /\ writer.before \in OnDisk
  BY <1>1, <1>3, TurnFacts, WriterFacts
<1>5. writer' \in WriterType
  BY <1>2 DEF WriterType
<1>6. CASE Mark({g}) /\ UNCHANGED records
  <2>1. \A f \in Files \ {g} : Settled(f)' = Settled(f)
    BY <1>1, <1>2 DEF Settled, InFlight
  <2>2. {g} \in SUBSET Files
    BY <1>4
  <2> QED
    BY <1>2, <1>3, <1>5, <1>6, <2>1, <2>2, TurnFacts, InTurnNothingNew
<1>7. CASE disk[g] # NoFile /\ Mark({}) /\ Log(<<FileRecord(g, writer.before, disk[g])>>)
  <2>1. PICK r : r = FileRecord(g, writer.before, disk[g])
    OBVIOUS
  <2>2. disk[g] \in Content
    BY <1>3, <1>4, <1>7, TurnFacts DEF OnDisk
  <2>3. /\ r \in Record /\ r.file = writer.file /\ r.before = writer.before
        /\ r.after = disk[writer.file] /\ Log(<<r>>)
    BY <1>1, <1>4, <1>7, <2>1, <2>2 DEF FileRecord, Record
  <2>4. others' = others
    BY <1>7 DEF Mark
  <2>5. UNCHANGED <<disk, atStart, undone, others>>
    BY <1>2, <2>4 DEF rewind
  <2>6. DiskIsKnown' /\ BeforeIsKnown'
    BY <1>2, <1>3, <2>3, <2>5, WriteIsKnown
  <2>7. records' \in Seq(Seq(Record)) /\ Turn' = Turn
    <3>1. <<r>> \in Seq(Record)
      BY <2>3
    <3> QED
      BY <1>3, <2>3, <3>1, TurnFacts, LogFacts
  <2>8. /\ running' = TRUE /\ disk' \in [Files -> OnDisk] /\ changes' \in 0..MaxChanges
        /\ shell' \in [Shells -> ShellType] /\ UNCHANGED <<index, atStart, rewind>>
        /\ others' \subseteq [turn : 0..MaxTurns, file : Files]
    BY <1>2, <1>3, <2>4, TurnFacts
  <2> QED
    BY <1>3, <1>5, <2>6, <2>7, <2>8, InTurn
<1> QED
  BY <1>2, <1>6, <1>7

(* The records of a turn that loses them are lost for marked files.        *)
LEMMA LossKeeps ==
  ASSUME records \in Seq(Seq(Record)), Turn \in Nat, Turn >= 1,
         records' = [records EXCEPT ![Turn] = <<>>], NEW f, f \notin FilesOf(records[Turn])
  PROVE  \A t \in 1..Turn : FileStays(f, t)
<1>1. PICK m \in Nat : m = Turn /\ m >= 1 /\ m = Len(records)
  BY DEF Turn
<1>2. /\ DOMAIN records = 1..m /\ Len(records') = m /\ records'[m] = <<>>
      /\ \A u \in 1..m : u # m => records'[u] = records[u]
  BY <1>1
<1>3. Turn' = m /\ DOMAIN <<>> = {}
  BY <1>2 DEF Turn
<1> SUFFICES ASSUME NEW t \in 1..Turn
             PROVE  FileStays(f, t)
  OBVIOUS
<1>4. t \in Nat /\ \A u \in t..m : u \in 1..m
  BY <1>1
<1>5. \A p : p \in Places(t) <=> \E u \in t..m : \E i \in DOMAIN records[u] : p = <<u, i>>
  BY <1>1, <1>4, PlaceFacts
<1>6. \A p : p \in Places(t)' <=> \E u \in t..m : \E i \in DOMAIN records'[u] : p = <<u, i>>
  BY <1>3 DEF Places
<1>7. ASSUME NEW p, p \in Places(t), At(p).file = f
      PROVE  p \in Places(t)' /\ At(p)' = At(p)
  <2>1. PICK u \in t..m : \E i \in DOMAIN records[u] : p = <<u, i>>
    BY <1>5, <1>7
  <2>2. PICK i \in DOMAIN records[u] : p = <<u, i>>
    BY <2>1
  <2>3. At(p) = records[u][i] /\ p[1] = u /\ p[2] = i
    BY <2>2 DEF At
  <2>4. u # m
    BY <1>1, <1>7, <2>2, <2>3 DEF FilesOf
  <2>5. records'[u] = records[u]
    BY <1>2, <1>4, <2>4
  <2> QED
    BY <1>6, <2>2, <2>3, <2>5 DEF At
<1>8. ASSUME NEW p, p \in Places(t)'
      PROVE  p \in Places(t) /\ At(p)' = At(p)
  <2>1. PICK u \in t..m : \E i \in DOMAIN records'[u] : p = <<u, i>>
    BY <1>6, <1>8
  <2>2. PICK i \in DOMAIN records'[u] : p = <<u, i>>
    BY <2>1
  <2>3. u # m
    BY <1>2, <1>3, <2>2
  <2>4. records'[u] = records[u] /\ p[1] = u /\ p[2] = i
    BY <1>2, <1>4, <2>2, <2>3
  <2> QED
    BY <1>5, <2>2, <2>4 DEF At
<1> QED
  BY <1>7, <1>8 DEF FileStays

(* A turn ends, with its receipt or without it. *)
LEMMA EndTurnKeeps ==
  ASSUME RewindInv, EndTurn
  PROVE  RewindInv'
<1>1. /\ running /\ running' = FALSE /\ writer = NoCall
      /\ \A s \in Shells : shell[s] = NoCall
      /\ UNCHANGED <<disk, index, atStart, changes, calls, rewind>>
      /\ \/ Mark({}) /\ UNCHANGED records
         \/ Mark(FilesOf(records[Turn])) /\ records' = [records EXCEPT ![Turn] = <<>>]
  BY DEF EndTurn
<1>2. /\ Turn \in Nat /\ Turn >= 1 /\ Turn \in 0..MaxTurns /\ records \in Seq(Seq(Record))
      /\ others \subseteq [turn : 0..MaxTurns, file : Files]
  BY <1>1, TurnFacts
<1>3. UNCHANGED <<writer, shell, undone>>
  BY <1>1 DEF calls, rewind
<1>4. \A f \in Files : Settled(f)' = Settled(f)
  BY <1>1, <1>3 DEF Settled, InFlight
<1>5. PICK M : /\ M \in SUBSET Files /\ Mark(M) /\ Turn' = Turn
               /\ records' \in Seq(Seq(Record))
               /\ \A f \in Files \ M : \A t \in 1..Turn : FileStays(f, t)
  <2>1. CASE Mark({}) /\ UNCHANGED records
    BY <1>2, <2>1, RecordsStay
  <2>2. CASE Mark(FilesOf(records[Turn])) /\ records' = [records EXCEPT ![Turn] = <<>>]
    <3>1. FilesOf(records[Turn]) \subseteq Files
      <4>1. PICK rs : rs = records[Turn]
        OBVIOUS
      <4>2. rs \in Seq(Record)
        BY <1>2, <4>1 DEF Turn
      <4>3. \A i \in DOMAIN rs : rs[i] \in Record
        BY <4>2
      <4>4. \A i \in DOMAIN rs : rs[i].file \in Files
        BY <4>3 DEF Record
      <4>5. FilesOf(rs) \subseteq Files
        BY <4>4 DEF FilesOf
      <4> QED
        BY <4>1, <4>5
    <3>2. records' \in Seq(Seq(Record)) /\ Turn' = Turn
      <4>1. <<>> \in Seq(Record) /\ Turn \in 1..Len(records)
        BY <1>2 DEF Turn
      <4> QED
        BY <1>2, <2>2, <4>1, ExceptSeq DEF Turn
    <3> QED
      BY <1>2, <2>2, <3>1, <3>2, LossKeeps
  <2> QED
    BY <1>1, <2>1, <2>2
<1>6. /\ others' \subseteq [turn : 0..MaxTurns, file : Files]
      /\ others \subseteq others' /\ \A f \in M : IsMarked(f)
  BY <1>2, <1>5, MarkFacts
<1>7. \A f \in Files : FileKept(f)
  BY <1>4, <1>5, <1>6 DEF FileKept
<1>8. DiskIsKnown' /\ BeforeIsKnown'
  <2>1. DiskIsKnown /\ BeforeIsKnown /\ atStart' = atStart /\ undone \subseteq undone'
    BY <1>1, <1>3 DEF RewindInv
  <2> QED
    BY <1>5, <1>6, <1>7, <2>1, NothingNew
<1>9. /\ disk' \in [Files -> OnDisk] /\ changes' \in 0..MaxChanges
      /\ writer' \in WriterType /\ shell' \in [Shells -> ShellType]
      /\ UNCHANGED <<index, atStart, rewind>>
  BY <1>1, <1>3, TurnFacts
<1>10. writer' = NoCall /\ \A s \in Shells : shell'[s] = NoCall
  BY <1>1, <1>3
<1> QED
  BY <1>1, <1>5, <1>6, <1>8, <1>9, <1>10, InTurn

-----------------------------------------------------------------------------
(* What the user and the turns themselves do.                              *)

(* Someone edits a file, which is marked. *)
LEMMA UserEditKeeps ==
  ASSUME RewindInv, NEW g \in Files, NEW c \in Written \cup {NoFile}, UserEdit(g, c)
  PROVE  RewindInv'
<1> USE RewindAssumption
<1>1. /\ Change(g, c, {g}) /\ SeenToMove(g) /\ UNCHANGED <<records, writer>>
      /\ raced' = (raced \/ (checked /\ \E p \in plan : IsNext(p) /\ g = At(p).file))
  BY DEF UserEdit
<1>2. /\ changes < MaxChanges /\ changes' = changes + 1
      /\ disk' = [disk EXCEPT ![g] = c] /\ Mark({g})
      /\ UNCHANGED <<index, running, atStart, plan, checked, target, ioFailed,
                     undone, rewinds>>
  BY <1>1 DEF Change
<1>3. Turn' = Turn /\ Turn \in Nat /\ Turn <= MaxTurns /\ Turn \in 0..MaxTurns
  BY <1>1 DEF RewindInv, TurnsApart, Turn, TypeOK
<1>4. /\ \A t : Places(t)' = Places(t)
      /\ \A p : At(p)' = At(p) /\ (IsNext(p)' <=> IsNext(p))
      /\ \A t : Plan(t)' = Plan(t)
  <2>1. \A p : At(p)' = At(p) /\ (IsNext(p)' <=> IsNext(p))
    BY <1>1, <1>2 DEF At, IsNext, Earlier
  <2>2. \A t : Places(t)' = Places(t)
    BY <1>1, <1>3 DEF Places
  <2>3. \A t : Plan(t)' = Plan(t)
    BY <2>1, <2>2 DEF Plan, Truncated
  <2> QED
    BY <2>1, <2>2, <2>3
<1>5. disk \in [Files -> OnDisk] /\ disk' \in [Files -> OnDisk]
  <2>1. c \in OnDisk
    BY DEF Written, OnDisk, Content
  <2> QED
    BY <1>2, <2>1 DEF RewindInv, TypeOK
<1>6. /\ others' \subseteq [turn : 0..MaxTurns, file : Files]
      /\ others \subseteq others' /\ IsMarked(g)
  <2>1. {g} \in SUBSET Files /\ others \subseteq [turn : 0..MaxTurns, file : Files]
    BY DEF RewindInv, TypeOK
  <2> QED
    BY <1>2, <1>3, <2>1, MarkFacts
<1>7. /\ shell' \in [Shells -> ShellType]
      /\ \A s \in Shells : shell'[s] # NoCall => shell[s] # NoCall
  BY <1>1, SeenFacts DEF RewindInv, TypeOK
<1>8. TypeOK'
  <2>1. changes' \in 0..MaxChanges
    BY <1>2, OneMore DEF RewindInv, TypeOK
  <2>2. plan' \subseteq Plan(1)'
    BY <1>2, <1>4 DEF RewindInv, TypeOK
  <2>3. raced' \in BOOLEAN
    BY <1>1 DEF RewindInv, TypeOK
  <2>4. (0..Turn)' = 0..Turn /\ (1..Turn)' = 1..Turn
    BY <1>3
  <2> QED
    BY <1>1, <1>2, <1>3, <1>5, <1>6, <1>7, <2>1, <2>2, <2>3, <2>4 DEF RewindInv, TypeOK
<1>9. DiskIsKnown' /\ BeforeIsKnown'
  <2>1. \A f \in Files : FileKept(f)
    <3>1. \A f \in Files \ {g} : Settled(f)' = Settled(f)
      BY <1>1, <1>2, <1>5 DEF Settled, InFlight
    <3> QED
      BY <1>1, <1>6, <3>1, RecordsStay DEF FileKept
  <2>2. DiskIsKnown /\ BeforeIsKnown /\ atStart' = atStart /\ undone \subseteq undone'
    BY <1>2 DEF RewindInv
  <2> QED
    BY <1>3, <1>6, <2>1, <2>2, NothingNew
<1>10. TurnsApart'
  BY <1>1, <1>2, <1>3, <1>7 DEF RewindInv, TurnsApart
<1>11. PlanIsRest'
  BY <1>2, <1>3, <1>4 DEF RewindInv, PlanIsRest, Earlier
<1>12. CheckedIsNext'
  <2> SUFFICES ASSUME checked', ~raced', NEW p \in plan', IsNext(p)'
               PROVE  Matches(At(p))'
    BY <1>2 DEF RewindInv, CheckedIsNext
  <2>1. checked /\ ~raced /\ p \in plan /\ IsNext(p) /\ g # At(p).file
    BY <1>1, <1>2, <1>4
  <2>2. disk[At(p).file] = At(p).after
    BY <2>1 DEF RewindInv, CheckedIsNext, Matches
  <2>3. disk'[At(p).file] = disk[At(p).file]
    BY <1>2, <1>5, <2>1
  <2> QED
    BY <1>4, <2>2, <2>3 DEF Matches
<1>13. LeftSuffices'
  <2> SUFFICES ASSUME target' # 0, target' \notin undone', NEW f \in Files \ ioFailed',
                      OnlyWritten(f, target)'
               PROVE  Known(disk[f], f, target, plan)'
    BY DEF LeftSuffices
  <2>1. target \in Nat /\ target <= Turn /\ target # 0 /\ target \notin undone
    BY <1>2, <1>3 DEF RewindInv, TypeOK
  <2>2. PICK t : t = target
    OBVIOUS
  <2>3. OnlyWritten(f, t)'
    BY <1>2, <2>2 DEF OnlyWritten
  <2>4. \A p \in Places(t) : At(p).file = f => p \in Places(t)' /\ At(p)' = At(p)
    BY <1>4
  <2>5. OnlyWritten(f, t)
    BY <1>6, <2>1, <2>2, <2>3, <2>4, OnlyWrittenBefore
  <2>6. f # g
    BY <1>3, <1>6, <2>1, <2>2, <2>3, MarkedIsOut
  <2>7. disk'[f] = disk[f]
    BY <1>2, <1>5, <2>6
  <2>8. Known(disk[f], f, target, plan)
    BY <1>2, <2>1, <2>2, <2>5 DEF RewindInv, LeftSuffices
  <2> QED
    BY <1>2, <1>4, <2>7, <2>8 DEF Known
<1> QED
  BY <1>8, <1>9, <1>10, <1>11, <1>12, <1>13 DEF RewindInv

(* A turn begins with the files as they are.                               *)
LEMMA BeginTurnKeeps ==
  ASSUME RewindInv, BeginTurn
  PROVE  RewindInv'
<1> USE RewindAssumption
<1>1. /\ ~running /\ plan = {} /\ Turn < MaxTurns /\ running' = TRUE /\ target' = 0
      /\ NewTurn /\ atStart' = Append(atStart, disk)
      /\ UNCHANGED <<disk, index, others, changes, calls, plan, checked,
                     raced, ioFailed, undone, rewinds>>
  BY DEF BeginTurn, NewTurn
<1>2. /\ records' \in Seq(Seq(Record)) /\ Turn' = Turn + 1 /\ Turn \in Nat
      /\ \A k : k = Turn' => Places(k)' = {}
      /\ \A t \in 1..Turn : Places(t)' = Places(t) /\ \A p \in Places(t) : At(p)' = At(p)
  BY <1>1, BeginTurnFacts DEF RewindInv, TypeOK
<1>3. PICK m \in Nat : m = Turn
  BY <1>2
<1>4. PICK k \in Nat : k = m + 1
  OBVIOUS
<1>5. /\ Turn' = k /\ (1..Turn)' = 1..m \cup {k} /\ Places(k)' = {}
      /\ \A t \in 1..m : t \in (1..Turn)' /\ t # k
  BY <1>2, <1>3, <1>4
<1>6. /\ atStart' \in Seq([Files -> OnDisk]) /\ Len(atStart') = k
      /\ atStart'[k] = disk /\ \A t \in 1..m : atStart'[t] = atStart[t]
  <2>1. atStart \in Seq([Files -> OnDisk]) /\ Len(atStart) = m /\ disk \in [Files -> OnDisk]
    BY <1>3 DEF RewindInv, TypeOK
  <2> QED
    BY <1>1, <1>4, <2>1
<1>7. TypeOK'
  <2>1. (0..Turn)' = 0..k /\ \A t \in 0..m : t \in 0..k
    BY <1>3, <1>4, <1>5
  <2>2. target' \in (0..Turn)' /\ undone' \subseteq (1..Turn)'
    <3>1. undone \subseteq 1..m
      BY <1>3 DEF RewindInv, TypeOK
    <3>2. 0 \in (0..Turn)' /\ undone \subseteq (1..Turn)'
      BY <1>5, <2>1, <3>1
    <3> QED
      BY <1>1, <3>2
  <2>3. plan' \subseteq Plan(1)'
    BY <1>1
  <2>4. UNCHANGED <<writer, shell>>
    BY <1>1 DEF calls
  <2> QED
    BY <1>1, <1>2, <1>5, <1>6, <2>2, <2>3, <2>4 DEF RewindInv, TypeOK
<1>8. TurnsApart'
  <2>1. \A s \in Shells : shell'[s] = NoCall
    BY <1>1 DEF RewindInv, TurnsApart, calls
  <2> QED
    BY <1>1, <1>2, <2>1 DEF RewindInv, TurnsApart
<1>9. writer' = NoCall /\ writer = NoCall /\ UNCHANGED <<writer, shell>>
      /\ \A f \in Files : Settled(f) = disk[f] /\ Settled(f)' = disk[f]
  <2>1. writer = NoCall /\ UNCHANGED <<writer, shell>>
    BY <1>1 DEF RewindInv, TurnsApart, calls
  <2> QED
    BY <1>1, <2>1 DEF Settled, InFlight
<1>10. PlanIsRest' /\ CheckedIsNext' /\ LeftSuffices'
  BY <1>1 DEF RewindInv, PlanIsRest, CheckedIsNext, LeftSuffices
<1>11. ASSUME NEW t \in 1..m, t \notin undone, NEW f \in Files, OnlyWritten(f, t)'
       PROVE  /\ OnlyWritten(f, t) /\ t \in (1..Turn) \ undone /\ Places(t)' = Places(t)
              /\ \A p \in Places(t) : At(p)' = At(p)
  <2>1. t \in Nat /\ t \in 1..Turn
    BY <1>3
  <2>2. Places(t)' = Places(t) /\ \A p \in Places(t) : At(p)' = At(p)
    BY <1>2, <2>1
  <2>3. others \subseteq others'
    BY <1>1
  <2>4. OnlyWritten(f, t)
    BY <1>11, <2>1, <2>2, <2>3, OnlyWrittenBefore
  <2> QED
    BY <1>11, <2>1, <2>2, <2>4
<1>12. DiskIsKnown'
  <2>1. ASSUME NEW t \in (1..Turn)' \ undone', NEW f \in Files, OnlyWritten(f, t)'
        PROVE  Settled(f)' = atStart'[t][f]
                 \/ \E p \in Places(t)' : At(p)'.file = f /\ At(p)'.after = Settled(f)'
    <3>1. CASE t = k
      BY <1>6, <1>9, <3>1
    <3>2. CASE t # k
      <4>1. t \in 1..m /\ t \notin undone
        BY <1>1, <1>5, <2>1, <3>2
      <4>2. OnlyWritten(f, t) /\ t \in (1..Turn) \ undone /\ Places(t)' = Places(t)
            /\ \A p \in Places(t) : At(p)' = At(p)
        BY <1>11, <2>1, <4>1
      <4>3. Known(disk[f], f, t, Places(t))
        BY <1>9, <4>2 DEF RewindInv, DiskIsKnown
      <4>4. Settled(f)' = disk[f] /\ atStart'[t] = atStart[t]
        BY <1>6, <1>9, <4>1
      <4> QED
        BY <4>2, <4>3, <4>4 DEF Known
    <3> QED
      BY <3>1, <3>2
  <2> QED
    BY <2>1, DiskThen
<1>13. BeforeIsKnown'
  <2>1. ASSUME NEW t \in (1..Turn)' \ undone', NEW f \in Files, OnlyWritten(f, t)',
               NEW p \in Places(t)', At(p)'.file = f
        PROVE  At(p)'.before = atStart'[t][f]
                 \/ \E q \in {q \in Places(t)' : Earlier(q, p)} :
                      At(q)'.file = f /\ At(q)'.after = At(p)'.before
    <3>1. t # k
      BY <1>5, <2>1
    <3>2. t \in 1..m /\ t \notin undone
      BY <1>1, <1>5, <2>1, <3>1
    <3>3. /\ OnlyWritten(f, t) /\ t \in (1..Turn) \ undone /\ Places(t)' = Places(t)
          /\ \A q \in Places(t) : At(q)' = At(q)
      BY <1>11, <2>1, <3>2
    <3>4. p \in Places(t) /\ At(p)' = At(p) /\ At(p).file = f
      BY <2>1, <3>3
    <3>5. Known(At(p).before, f, t, {q \in Places(t) : Earlier(q, p)})
      BY <3>3, <3>4 DEF RewindInv, BeforeIsKnown
    <3>6. atStart'[t] = atStart[t]
      BY <1>6, <3>2
    <3>7. PICK b : b = At(p).before /\ b = At(p)'.before
      BY <3>4
    <3>8. CASE b = atStart[t][f]
      BY <3>6, <3>7, <3>8
    <3>9. CASE \E q \in {q \in Places(t) : Earlier(q, p)} : At(q).file = f /\ At(q).after = b
      <4>1. PICK q \in Places(t) : Earlier(q, p) /\ At(q).file = f /\ At(q).after = b
        BY <3>9
      <4>2. q \in Places(t)' /\ At(q)' = At(q)
        BY <3>3
      <4> QED
        BY <3>7, <4>1, <4>2
    <3> QED
      BY <3>5, <3>7, <3>8, <3>9 DEF Known
  <2> QED
    BY <2>1, BeforeThen
<1> QED
  BY <1>7, <1>8, <1>10, <1>12, <1>13 DEF RewindInv

-----------------------------------------------------------------------------
(* The steps of a rewind.                                                  *)

(* While the session stands still, so does what is known of it.            *)
Still == UNCHANGED <<session, index>> /\ others \subseteq others'

LEMMA StillFacts ==
  ASSUME Still
  PROVE  /\ Turn' = Turn /\ (1..Turn)' = 1..Turn /\ (0..Turn)' = 0..Turn
         /\ \A t : Places(t)' = Places(t) /\ Plan(t)' = Plan(t)
         /\ \A p : At(p)' = At(p)
         /\ \A f, t : OnlyWritten(f, t)' => OnlyWritten(f, t)
         /\ \A c, f, t, P : Known(c, f, t, P)' <=> Known(c, f, t, P)
         /\ UNCHANGED <<running, records, atStart, changes, writer, shell, index>>
<1>1. /\ UNCHANGED <<running, records, atStart, changes, writer, shell, index>>
      /\ others \subseteq others'
  BY DEF Still, session, calls
<1>2. Turn' = Turn
  BY <1>1 DEF Turn
<1>3. \A t : Places(t)' = Places(t)
  BY <1>1, <1>2 DEF Places
<1>4. \A p : At(p)' = At(p)
  BY <1>1 DEF At
<1>5. \A t : Plan(t)' = Plan(t)
  BY <1>3, <1>4 DEF Plan, Truncated
<1>6. \A f, t : OnlyWritten(f, t)' => OnlyWritten(f, t)
  BY <1>1, <1>2 DEF OnlyWritten, Truncated
<1>7. \A c, f, t, P : Known(c, f, t, P)' <=> Known(c, f, t, P)
  BY <1>1, <1>4 DEF Known
<1>8. (1..Turn)' = 1..Turn /\ (0..Turn)' = 0..Turn
  BY <1>2
<1> QED
  BY <1>1, <1>2, <1>3, <1>4, <1>5, <1>6, <1>7, <1>8

LEMMA StillIsKnown ==
  ASSUME DiskIsKnown, BeforeIsKnown, Still, undone \subseteq undone'
  PROVE  BeforeIsKnown' /\ (UNCHANGED disk => DiskIsKnown')
<1>1. BeforeIsKnown'
  BY StillFacts DEF BeforeIsKnown, Known, Earlier
<1>2. ASSUME UNCHANGED disk
      PROVE  DiskIsKnown'
  <2>1. \A f : Settled(f)' = Settled(f)
    BY <1>2, StillFacts DEF Settled, InFlight
  <2> QED
    BY <1>2, <2>1, StillFacts DEF DiskIsKnown, Known
<1> QED
  BY <1>1, <1>2

(* Between turns no file is about to be recorded. *)
LEMMA BetweenTurns ==
  ASSUME RewindInv, ~running
  PROVE  /\ writer = NoCall
         /\ \A f : Settled(f) = disk[f]
         /\ Still => writer' = NoCall /\ \A f : Settled(f)' = disk'[f]
<1>1. writer = NoCall
  BY DEF RewindInv, TurnsApart
<1>2. Still => writer' = NoCall
  BY <1>1, StillFacts
<1> QED
  BY <1>1, <1>2 DEF Settled, InFlight

(* All records from the target on are what a rewind has to apply.          *)
LEMMA BeginRewindKeeps ==
  ASSUME RewindInv, NEW t \in 1..Turn, BeginRewind(t)
  PROVE  RewindInv'
<1> USE RewindAssumption
<1>1. /\ ~running /\ plan = {} /\ rewinds < MaxRewinds /\ plan' = Plan(t) /\ plan' # {}
      /\ target' = t /\ ioFailed' = {} /\ undone' = undone \cup (t+1..Turn)
      /\ rewinds' = rewinds + 1 /\ UNCHANGED <<disk, others, checked, raced>> /\ Still
  BY DEF BeginRewind, Still
<1>2. t \in Nat /\ t >= 1 /\ t <= Turn /\ Turn \in Nat
  BY DEF Turn, RewindInv, TypeOK
<1>3. ~checked /\ ~checked'
  BY <1>1 DEF RewindInv, CheckedIsNext
<1>4. Plan(t) \subseteq Plan(1)
  BY <1>2, PlacesShrink DEF Plan
<1>5. t+1..Turn \subseteq 1..Turn /\ \A u \in 1..Turn : u > t => u \in t+1..Turn
  BY <1>2
<1>6. TypeOK'
  <2>1. plan' \subseteq Plan(1)' /\ target' \in (0..Turn)' /\ undone' \subseteq (1..Turn)'
    <3>1. undone' \subseteq 1..Turn /\ t \in 0..Turn
      BY <1>1, <1>2, <1>5 DEF RewindInv, TypeOK
    <3> QED
      BY <1>1, <1>4, <3>1, StillFacts
  <2>2. rewinds' \in 0..MaxRewinds
    BY <1>1 DEF RewindInv, TypeOK
  <2>3. Len(atStart') = Turn'
    BY <1>1, StillFacts DEF RewindInv, TypeOK
  <2> QED
    BY <1>1, <2>1, <2>2, <2>3, StillFacts DEF RewindInv, TypeOK
<1>7. TurnsApart'
  BY <1>1, StillFacts DEF RewindInv, TurnsApart
<1>8. PlanIsRest'
  <2>1. Turn' = Turn /\ Plan(t)' = Plan(t)
    BY <1>1, StillFacts
  <2> QED
    BY <1>1, <1>2, <1>5, <2>1 DEF PlanIsRest
<1>9. CheckedIsNext'
  BY <1>3 DEF CheckedIsNext
<1>10. DiskIsKnown' /\ BeforeIsKnown'
  <2>1. undone \subseteq undone'
    BY <1>1
  <2> QED
    BY <1>1, <2>1, StillIsKnown DEF RewindInv
<1>11. LeftSuffices'
  <2> SUFFICES ASSUME target' \notin undone', NEW f \in Files, OnlyWritten(f, target)'
               PROVE  Known(disk[f], f, target, plan)'
    BY <1>1 DEF LeftSuffices
  <2>1. t \notin undone
    BY <1>1
  <2>2. OnlyWritten(f, t)
    <3>1. OnlyWritten(f, t)'
      BY <1>1 DEF OnlyWritten
    <3> QED
      BY <1>1, <3>1, StillFacts
  <2>3. Known(disk[f], f, t, Places(t))
    BY <1>1, <2>1, <2>2, BetweenTurns DEF RewindInv, DiskIsKnown
  <2>4. \A p \in Places(t) : At(p).file = f => p \in Plan(t)
    BY <1>2, <2>2, NoneIsCut
  <2>5. Known(disk[f], f, t, Plan(t))
    BY <2>3, <2>4 DEF Known
  <2>6. atStart' = atStart /\ \A p : At(p)' = At(p)
    BY <1>1, StillFacts
  <2> QED
    BY <1>1, <2>5, <2>6 DEF Known
<1> QED
  BY <1>6, <1>7, <1>8, <1>9, <1>10, <1>11 DEF RewindInv

(* The next of what is left is one place, and all others are before it.    *)
LEMMA TheNext ==
  ASSUME RewindInv, NEW p \in plan, IsNext(p)
  PROVE  /\ \A q \in plan : IsNext(q) => q = p
         /\ \A q \in plan : q # p => ~Earlier(p, q)
         /\ p \in Places(1) /\ At(p) \in Record /\ ~Earlier(p, p)
<1>1. records \in Seq(Seq(Record)) /\ plan \subseteq Places(1)
  BY DEF RewindInv, TypeOK, Plan
<1>2. \A q, r \in plan : Earlier(q, r) => ~Earlier(r, q)
  BY <1>1, RecordsAreOrdered
<1>3. At(p) \in Record /\ ~Earlier(p, p)
  BY <1>1, RecordsAreOrdered
<1>4. \A q \in plan : q # p => Earlier(q, p)
  BY DEF IsNext
<1>5. ASSUME NEW q \in plan, IsNext(q)
      PROVE  q = p
  BY <1>2, <1>4, <1>5 DEF IsNext
<1> QED
  BY <1>1, <1>2, <1>3, <1>4, <1>5

(* What is left once the next is done with is still all that is older.     *)
LEMMA RestStays ==
  ASSUME RewindInv, Still, UNCHANGED <<target, undone>>, NEW p \in plan, IsNext(p),
         plan' = plan \ {p}
  PROVE  /\ PlanIsRest' /\ plan' \subseteq Plan(1)'
<1>1. /\ target # 0 /\ \A t \in 1..Turn : t > target => t \in undone
      /\ plan \subseteq Plan(target)
      /\ \A r \in plan, q \in Plan(target) : Earlier(q, r) => q \in plan
  BY DEF RewindInv, PlanIsRest
<1>2. \A q \in plan : q # p => ~Earlier(p, q)
  BY TheNext
<1>3. \A r \in plan', q \in Plan(target) : Earlier(q, r) => q \in plan'
  BY <1>1, <1>2
<1>4. PICK P : P = Plan(target)
  OBVIOUS
<1>5. Plan(target)' = P
  BY <1>4, StillFacts DEF Plan
<1>6. PlanIsRest'
  <2>1. target' # 0 /\ \A t \in (1..Turn)' : t > target' => t \in undone'
    BY <1>1, StillFacts
  <2>2. plan' \subseteq P /\ \A r \in plan', q \in P : Earlier(q, r) => q \in plan'
    BY <1>1, <1>3, <1>4
  <2> QED
    BY <1>5, <2>1, <2>2 DEF PlanIsRest, Earlier
<1>7. plan' \subseteq Plan(1)'
  BY StillFacts DEF RewindInv, TypeOK
<1> QED
  BY <1>6, <1>7

(* The file of the next record is compared with what the record left.      *)
LEMMA CheckKeeps ==
  ASSUME RewindInv, Check
  PROVE  RewindInv'
<1>1. /\ ~checked /\ Still
      /\ UNCHANGED <<disk, others, raced, target, undone, rewinds>>
  BY DEF Check, Still
<1>2. PICK p \in plan :
        /\ IsNext(p)
        /\ \/ checked' = Matches(At(p)) /\ UNCHANGED ioFailed
           \/ checked' = FALSE /\ ioFailed' = ioFailed \cup {At(p).file}
        /\ plan' = IF checked' THEN plan ELSE plan \ {p}
  BY DEF Check
<1>3. /\ checked' \in BOOLEAN /\ (checked' => Matches(At(p)))
      /\ \/ checked' = Matches(At(p)) /\ ioFailed' = ioFailed
         \/ At(p).file \in ioFailed'
      /\ ioFailed \subseteq ioFailed' /\ ioFailed' \subseteq Files
  <2>1. ioFailed \subseteq Files
    BY DEF RewindInv, TypeOK
  <2>2. At(p).file \in Files
    BY <1>2, TheNext DEF Record
  <2> QED
    BY <1>2, <2>1, <2>2 DEF Matches
<1>4. DiskIsKnown' /\ BeforeIsKnown'
  BY <1>1, StillIsKnown DEF RewindInv
<1>5. TurnsApart'
  BY <1>1, <1>2, StillFacts DEF RewindInv, TurnsApart
<1>6. PlanIsRest' /\ plan' \subseteq Plan(1)'
  <2>1. CASE plan' = plan \ {p}
    BY <1>1, <1>2, <2>1, RestStays
  <2>2. CASE plan' = plan
    <3>1. PICK P : P = Plan(target)
      OBVIOUS
    <3>2. Plan(target)' = P
      BY <1>1, <3>1, StillFacts DEF Plan
    <3>3. PlanIsRest'
      BY <1>1, <2>2, <3>1, <3>2, StillFacts DEF RewindInv, PlanIsRest, Earlier
    <3> QED
      BY <1>1, <2>2, <3>3, StillFacts DEF RewindInv, TypeOK
  <2> QED
    BY <1>2, <2>1, <2>2
<1>7. TypeOK'
  BY <1>3, <1>1, <1>6, StillFacts DEF RewindInv, TypeOK
<1>8. CheckedIsNext'
  <2> SUFFICES ASSUME checked'
               PROVE  plan' # {} /\ \A q \in plan' : IsNext(q)' => Matches(At(q))'
    BY DEF CheckedIsNext
  <2>1. plan' = plan /\ Matches(At(p))
    BY <1>3, <1>2
  <2>2. \A q \in plan : IsNext(q)' => q = p
    <3>1. \A q : IsNext(q)' <=> IsNext(q)
      BY <2>1 DEF IsNext, Earlier
    <3> QED
      BY <1>2, <3>1, TheNext
  <2>3. Matches(At(p))'
    BY <1>1, <2>1, StillFacts DEF Matches
  <2> QED
    BY <1>2, <2>1, <2>2, <2>3
<1>9. LeftSuffices'
  <2> SUFFICES ASSUME target' # 0, target' \notin undone', NEW f \in Files \ ioFailed',
                      OnlyWritten(f, target)'
               PROVE  Known(disk[f], f, target, plan)'
    BY DEF LeftSuffices
  <2>1. OnlyWritten(f, target)
    BY <1>1, StillFacts DEF OnlyWritten
  <2>2. Known(disk[f], f, target, plan)
    BY <1>3, <1>1, <2>1 DEF RewindInv, LeftSuffices
  <2>3. atStart' = atStart /\ (\A q : At(q)' = At(q)) /\ disk' = disk /\ target' = target
    BY <1>1, StillFacts
  <2>4. CASE disk[f] = atStart[target][f]
    BY <2>3, <2>4 DEF Known
  <2>5. CASE \E q \in plan : At(q).file = f /\ At(q).after = disk[f]
    <3>1. PICK q \in plan : At(q).file = f /\ At(q).after = disk[f]
      BY <2>5
    <3>2. Matches(At(q))
      BY <3>1 DEF Matches
    <3>3. q \in plan'
      BY <1>3, <1>2, <3>1, <3>2
    <3> QED
      BY <2>3, <3>1, <3>3 DEF Known
  <2> QED
    BY <2>2, <2>4, <2>5 DEF Known
<1> QED
  BY <1>4, <1>5, <1>6, <1>7, <1>8, <1>9 DEF RewindInv

(* A file is given back what the record says it had.  What it had is known *)
(* from the older records, and those are left: so it is for the target and *)
(* for each turn before it.                                                *)
LEMMA RestoreKeeps ==
  ASSUME RewindInv, Restore
  PROVE  RewindInv'
<1>1. /\ checked /\ checked' = FALSE /\ raced' = FALSE /\ Still
      /\ UNCHANGED <<target, undone, rewinds>>
  BY DEF Restore, Still, Mark
<1>2. PICK p \in plan :
        /\ IsNext(p) /\ plan' = plan \ {p}
        /\ \/ /\ disk' = [disk EXCEPT ![At(p).file] = At(p).before]
              /\ UNCHANGED ioFailed
           \/ /\ ioFailed' = ioFailed \cup {At(p).file}
              /\ UNCHANGED disk
           \/ /\ ioFailed' = ioFailed \cup {At(p).file}
              /\ disk' = [disk EXCEPT ![At(p).file] = Empty] /\ Mark({At(p).file})
  BY DEF Restore
<1>3. PICK g : g = At(p).file
  OBVIOUS
<1>4. PICK b : b = At(p).before
  OBVIOUS
<1>5. g \in Files /\ b \in OnDisk /\ p \in Places(1)
  BY <1>2, <1>3, <1>4, TheNext DEF Record
<1>6. disk \in [Files -> OnDisk] /\ \A f \in Files : f # g => disk'[f] = disk[f]
  BY <1>2, <1>3 DEF RewindInv, TypeOK
<1>7. \/ disk' = disk /\ g \in ioFailed'
      \/ disk'[g] = b
      \/ IsMarked(g) /\ g \in ioFailed'
  BY <1>2, <1>3, <1>4, <1>5, <1>6 DEF IsMarked, Mark
<1>8. ioFailed \subseteq ioFailed' /\ ioFailed' \subseteq Files /\ disk' \in [Files -> OnDisk]
  <2>1. Empty \in OnDisk
    BY DEF OnDisk, Content
  <2> QED
    BY <1>2, <1>3, <1>4, <1>5, <1>6, <2>1 DEF RewindInv, TypeOK
<1>9. /\ target \in Nat /\ target >= 1 /\ target <= Turn /\ Turn \in Nat /\ target \in 1..Turn
      /\ \A t \in 1..Turn : t > target => t \in undone
      /\ plan \subseteq Plan(target) /\ p \in Places(target)
      /\ \A q \in Plan(target) : Earlier(q, p) => q \in plan
  <2>1. /\ target # 0 /\ \A t \in 1..Turn : t > target => t \in undone
        /\ plan \subseteq Plan(target)
        /\ \A r \in plan, q \in Plan(target) : Earlier(q, r) => q \in plan
    BY <1>2 DEF RewindInv, PlanIsRest
  <2>2. target \in Nat /\ Turn \in Nat /\ target <= Turn
    BY DEF RewindInv, TypeOK, Turn
  <2>3. target >= 1 /\ target \in 1..Turn
    BY <2>1, <2>2
  <2>4. p \in Places(target) /\ \A q \in Plan(target) : Earlier(q, p) => q \in plan
    BY <1>2, <2>1 DEF Plan
  <2> QED
    BY <2>1, <2>2, <2>3, <2>4
<1>10. PlanIsRest' /\ plan' \subseteq Plan(1)'
  BY <1>1, <1>2, RestStays
<1>11. TypeOK'
  <2>1. others' \subseteq [turn : 0..MaxTurns, file : Files]
    <3>1. Turn \in 0..MaxTurns
      BY <1>9, RewindAssumption DEF RewindInv, TurnsApart
    <3>2. PICK M \in SUBSET Files : Mark(M)
      BY <1>2, <1>3, <1>5 DEF Restore
    <3> QED
      BY <3>1, <3>2, MarkFacts DEF RewindInv, TypeOK
  <2> QED
    BY <1>1, <1>8, <1>10, <2>1, StillFacts DEF RewindInv, TypeOK
<1>12. CheckedIsNext'
  BY <1>1 DEF CheckedIsNext
<1>13. TurnsApart'
  <2>1. plan = {} => plan' = {}
    BY <1>2
  <2> QED
    BY <1>1, <2>1, StillFacts DEF RewindInv, TurnsApart
<1>14. \A f : Settled(f) = disk[f] /\ Settled(f)' = disk'[f]
  <2>1. ~running
    BY <1>2 DEF RewindInv, TurnsApart
  <2> QED
    BY <1>1, <2>1, BetweenTurns
<1>15. BeforeIsKnown'
  BY <1>1, StillIsKnown DEF RewindInv
<1>16. DiskIsKnown'
  <2> SUFFICES ASSUME NEW t \in (1..Turn)' \ undone', NEW f \in Files, OnlyWritten(f, t)'
               PROVE  disk'[f] = atStart'[t][f]
                        \/ \E q \in Places(t)' : At(q)'.file = f /\ At(q)'.after = disk'[f]
    BY <1>14, DiskThen
  <2>1. t \in (1..Turn) \ undone /\ OnlyWritten(f, t) /\ t \in Nat
    BY <1>1, <1>9, StillFacts
  <2>2. Known(disk[f], f, t, Places(t))
    BY <1>14, <2>1 DEF RewindInv, DiskIsKnown
  <2>3. Places(t)' = Places(t) /\ atStart' = atStart /\ \A q : At(q)' = At(q)
    BY <1>1, StillFacts
  <2>4. CASE disk'[f] = disk[f]
    BY <2>2, <2>3, <2>4 DEF Known
  <2>5. CASE disk'[f] = b /\ f = g
    <3>1. t <= target
      BY <1>9, <2>1
    <3>2. p \in Places(t)
      BY <1>9, <2>1, <3>1, PlacesShrink
    <3>3. Known(At(p).before, f, t, {q \in Places(t) : Earlier(q, p)})
      BY <1>3, <2>1, <2>5, <3>2 DEF RewindInv, BeforeIsKnown
    <3>4. Known(b, f, t, Places(t))
      BY <1>4, <3>3 DEF Known
    <3> QED
      BY <2>3, <2>5, <3>4 DEF Known
  <2>6. ~IsMarked(f)
    BY <1>1, <1>9, <2>1, StillFacts, MarkedIsOut
  <2> QED
    BY <1>6, <1>7, <2>4, <2>5, <2>6
<1>17. LeftSuffices'
  <2> SUFFICES ASSUME target' # 0, target' \notin undone', NEW f \in Files \ ioFailed',
                      OnlyWritten(f, target)'
               PROVE  Known(disk[f], f, target, plan)'
    BY DEF LeftSuffices
  <2>1. OnlyWritten(f, target) /\ f \in Files /\ f \notin ioFailed
    BY <1>1, <1>8, StillFacts DEF OnlyWritten
  <2>2. Known(disk[f], f, target, plan)
    BY <1>1, <2>1 DEF RewindInv, LeftSuffices
  <2>3. atStart' = atStart /\ (\A q : At(q)' = At(q)) /\ target' = target
    BY <1>1, StillFacts
  <2>4. CASE f # g
    <3>1. disk'[f] = disk[f]
      BY <1>6, <2>1, <2>4
    <3>2. \A q \in plan : At(q).file = f => q \in plan'
      BY <1>2, <1>3, <2>4
    <3> QED
      BY <2>2, <2>3, <3>1, <3>2 DEF Known
  <2>5. CASE f = g
    <3>1. disk'[f] = b
      BY <1>7, <2>5
    <3>2. target \in (1..Turn) \ undone
      BY <1>1, <1>9
    <3>3. Known(At(p).before, f, target, {q \in Places(target) : Earlier(q, p)})
      BY <1>3, <1>9, <2>1, <2>5, <3>2 DEF RewindInv, BeforeIsKnown
    <3>4. \A q \in Places(target) : At(q).file = f => q \in Plan(target)
      BY <1>9, <2>1, NoneIsCut
    <3>5. \A q \in Places(target) : Earlier(q, p) /\ At(q).file = f => q \in plan'
      <4>1. ~Earlier(p, p)
        BY <1>2, TheNext
      <4> QED
        BY <1>2, <1>9, <3>4, <4>1
    <3>6. b = atStart[target][f] \/ \E q \in plan' : At(q).file = f /\ At(q).after = b
      BY <1>4, <3>3, <3>5 DEF Known
    <3> QED
      BY <2>3, <3>1, <3>6 DEF Known
  <2> QED
    BY <2>4, <2>5
<1> QED
  BY <1>10, <1>11, <1>12, <1>13, <1>15, <1>16, <1>17 DEF RewindInv

-----------------------------------------------------------------------------
(* The theorems.                                                           *)

(* What is known of files and records is so from the start.                *)
LEMMA InitIsInvariant == RewindInit => RewindInv
<1> SUFFICES ASSUME RewindInit
             PROVE  RewindInv
  OBVIOUS
<1> USE RewindAssumption
<1>1. Turn = 0 /\ 1..Turn = {} /\ 0 \in 0..Turn
  BY DEF RewindInit, Turn
<1>2. disk \in [Files -> OnDisk] /\ index \in [Files -> OnDisk]
  BY DEF RewindInit, OnDisk, Content
<1>3. TypeOK
  <2>1. records \in Seq(Seq(Record)) /\ atStart \in Seq([Files -> OnDisk]) /\ Len(atStart) = Turn
    BY <1>1 DEF RewindInit
  <2>2. 0 \in 0..MaxChanges /\ 0 \in 0..MaxRewinds
    OBVIOUS
  <2>3. writer \in WriterType /\ shell \in [Shells -> ShellType]
    BY DEF RewindInit, WriterType, ShellType
  <2> QED
    BY <1>1, <1>2, <2>1, <2>2, <2>3 DEF RewindInit, TypeOK
<1>4. TurnsApart
  BY <1>1 DEF RewindInit, TurnsApart
<1>5. PlanIsRest /\ CheckedIsNext /\ LeftSuffices
  BY DEF RewindInit, PlanIsRest, CheckedIsNext, LeftSuffices
<1>6. DiskIsKnown /\ BeforeIsKnown
  BY <1>1 DEF DiskIsKnown, BeforeIsKnown
<1> QED
  BY <1>3, <1>4, <1>5, <1>6 DEF RewindInv

(* A step that changes nothing keeps everything.                           *)
LEMMA StutterKeeps ==
  ASSUME RewindInv, UNCHANGED rewindVars
  PROVE  RewindInv'
<1>1. Still /\ UNCHANGED <<disk, others, plan, checked, raced, target, ioFailed, undone, rewinds>>
  BY DEF rewindVars, rewind, Still
<1>2. DiskIsKnown' /\ BeforeIsKnown'
  BY <1>1, StillIsKnown DEF RewindInv
<1>3. TypeOK' /\ TurnsApart'
  BY <1>1, StillFacts DEF RewindInv, TypeOK, TurnsApart
<1>4. PlanIsRest'
  <2>1. PICK P : P = Plan(target)
    OBVIOUS
  <2>2. Plan(target)' = P
    BY <1>1, <2>1, StillFacts DEF Plan
  <2> QED
    BY <1>1, <2>1, <2>2, StillFacts DEF RewindInv, PlanIsRest, Earlier
<1>5. CheckedIsNext'
  BY <1>1, StillFacts DEF RewindInv, CheckedIsNext, IsNext, Earlier, Matches
<1>6. LeftSuffices'
  BY <1>1, StillFacts DEF RewindInv, LeftSuffices, OnlyWritten, Truncated, Known
<1> QED
  BY <1>2, <1>3, <1>4, <1>5, <1>6 DEF RewindInv

(* Every step keeps what is known.                                         *)
LEMMA StepKeeps ==
  ASSUME RewindInv, [RewindNext]_rewindVars
  PROVE  RewindInv'
<1>1. CASE BeginTurn
  BY <1>1, BeginTurnKeeps
<1>2. CASE EndTurn
  BY <1>2, EndTurnKeeps
<1>3. CASE \/ \E f \in Files, before \in OnDisk : WriteBegin(f, before)
           \/ \E c \in Written : WriteTool(c)
           \/ WriteFails \/ WriteEnd
  BY <1>3, WriteBeginKeeps, WriteToolKeeps, WriteFailsKeeps, WriteEndKeeps
<1>4. CASE \E s \in Shells :
             \/ \E locked \in BOOLEAN : BashBegin(s, locked)
             \/ \E f \in Files, c \in Written \cup {NoFile} : BashChange(s, f, c)
             \/ BashFails(s) \/ BashLook(s)
             \/ \E unread \in SUBSET Files : BashRead(s, unread)
             \/ BashEnd(s)
  BY <1>4, BashBeginKeeps, BashChangeKeeps, BashFailsKeeps, BashLookKeeps, BashReadKeeps,
     BashEndKeeps
<1>5. CASE \E f \in Files, c \in Written \cup {NoFile} : UserEdit(f, c)
  BY <1>5, UserEditKeeps
<1>6. CASE \E t \in 1..Turn : BeginRewind(t)
  BY <1>6, BeginRewindKeeps
<1>7. CASE Check
  BY <1>7, CheckKeeps
<1>8. CASE Restore
  BY <1>8, RestoreKeeps
<1>9. CASE Quiet \/ UNCHANGED rewindVars
  BY <1>9, StutterKeeps DEF Quiet
<1> QED
  BY <1>1, <1>2, <1>3, <1>4, <1>5, <1>6, <1>7, <1>8, <1>9 DEF RewindNext

(* What a rewind rests on holds at all times. *)
THEOREM WhatIsKnownStaysKnown == RewindSpec => []RewindInv
BY InitIsInvariant, StepKeeps, PTL DEF RewindSpec

(* A rewind that has run to its end gave every file that only recorded     *)
(* write_file calls had to do with since the target turn, and no run_bash  *)
(* call claims, the content it had then, whichever calls ran beside each   *)
(* other and whichever turns, edits, failures and rewinds came before it   *)
(* (recordFileChange, planRewind, applyRewind).                            *)
THEOREM RewindsAreSound == RewindSpec => []RewindIsSound
<1>1. ASSUME RewindInv
      PROVE  RewindIsSound
  <2> SUFFICES ASSUME target # 0, plan = {}, target \notin undone,
                      NEW f \in Files \ ioFailed, OnlyWritten(f, target)
               PROVE  disk[f] = atStart[target][f]
    BY <1>1 DEF RewindInv, RewindIsSound, RestoresWrittenFiles
  <2>1. Known(disk[f], f, target, plan)
    BY <1>1 DEF RewindInv, LeftSuffices
  <2> QED
    BY <2>1 DEF Known
<1> QED
  BY <1>1, WhatIsKnownStaysKnown, PTL

(* A rewind changes a file only if it holds what some record says a tool   *)
(* of a rewound turn left there, but for an edit between its check and its *)
(* write (applyRewind).                                                    *)
THEOREM RewindsNeverClobber == RewindSpec => NeverClobbers
<1> DEFINE Step == (\E p \in plan : plan' = plan \ {p}) /\ ~raced =>
                     \A f \in Files : disk'[f] # disk[f] =>
                       \E u \in target..Turn : \E i \in DOMAIN records[u] :
                         records[u][i].file = f /\ records[u][i].after = disk[f]
<1>1. ASSUME RewindInv, [RewindNext]_rewindVars
      PROVE  Step
  <2> SUFFICES ASSUME NEW r \in plan, plan' = plan \ {r}, ~raced,
                      NEW f \in Files, disk'[f] # disk[f]
               PROVE  \E u \in target..Turn : \E i \in DOMAIN records[u] :
                        records[u][i].file = f /\ records[u][i].after = disk[f]
    OBVIOUS
  <2>1. CASE Restore
    <3>1. PICK p \in plan : /\ IsNext(p)
                            /\ \/ \E c : disk' = [disk EXCEPT ![At(p).file] = c]
                               \/ UNCHANGED disk
      BY <2>1 DEF Restore
    <3>2. f = At(p).file
      BY <3>1, <1>1 DEF RewindInv, TypeOK
    <3>3. Matches(At(p))
      BY <1>1, <2>1, <3>1 DEF Restore, RewindInv, CheckedIsNext
    <3>4. p \in Places(target)
      BY <1>1 DEF RewindInv, PlanIsRest, Plan
    <3>5. target \in Nat
      BY <1>1 DEF RewindInv, TypeOK, Turn
    <3>6. PICK u \in target..Turn : \E i \in DOMAIN records[u] : p = <<u, i>>
      BY <3>4, <3>5, PlaceFacts
    <3>7. PICK i \in DOMAIN records[u] : p = <<u, i>>
      BY <3>6
    <3>8. At(p) = records[u][i]
      BY <3>7 DEF At
    <3> QED
      BY <3>2, <3>3, <3>8 DEF Matches
  <2>2. CASE BeginTurn \/ EndTurn \/ Check \/ Quiet \/ UNCHANGED rewindVars
    BY <2>2 DEF BeginTurn, EndTurn, Check, Quiet, rewindVars
  <2>3. CASE \E t \in 1..Turn : BeginRewind(t)
    BY <2>3 DEF BeginRewind
  <2>4. plan' # plan
    OBVIOUS
  <2>5. CASE \/ \E g \in Files, before \in OnDisk : WriteBegin(g, before)
             \/ \E c \in Written : WriteTool(c)
             \/ WriteFails \/ WriteEnd
    BY <2>4, <2>5 DEF WriteBegin, WriteTool, WriteFails, WriteEnd, Change, InCall, rewind
  <2>6. CASE \E s \in Shells :
               \/ \E locked \in BOOLEAN : BashBegin(s, locked)
               \/ \E g \in Files, c \in Written \cup {NoFile} : BashChange(s, g, c)
               \/ BashFails(s) \/ BashLook(s)
               \/ \E unread \in SUBSET Files : BashRead(s, unread)
               \/ BashEnd(s)
    <3>1. ASSUME InCall \/ \E g, c : Change(g, c, {g})
          PROVE  FALSE
      BY <2>4, <3>1 DEF InCall, Change, rewind
    <3> QED
      BY <2>6, <3>1 DEF BashBegin, BashChange, BashFails, BashLook, BashRead, BashEnd
  <2>7. CASE \E g \in Files, c \in Written \cup {NoFile} : UserEdit(g, c)
    BY <2>4, <2>7 DEF UserEdit, Change
  <2> QED
    BY <1>1, <2>1, <2>2, <2>3, <2>5, <2>6, <2>7 DEF RewindNext
<1>2. NeverClobbers <=> [][Step]_rewindVars
  BY DEF NeverClobbers
<1>3. [RewindNext]_rewindVars /\ RewindInv => [Step]_rewindVars
  BY <1>1
<1> QED
  BY <1>2, <1>3, WhatIsKnownStaysKnown, PTL DEF RewindSpec
=============================================================================
