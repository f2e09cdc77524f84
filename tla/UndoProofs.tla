----------------------------- MODULE UndoProofs -----------------------------
(***************************************************************************)
(* Proofs about undo and redo in Threads: what turns become as the         *)
(* messages of a checkpoint and back, and that /redo keeps the branch of   *)
(* the conversation.                                                       *)
(***************************************************************************)
EXTENDS ThreadsProofs, NaturalsInduction, WellFoundedInduction

TurnRec == [input : Nat, resp : Nat, state : {"Processing", "Completed", "Failed", "Interrupted"}]

\* The messages of one turn.
Pair(turn) == IF turn.resp = 0 THEN <<User(turn.input)>> ELSE <<User(turn.input), Assistant(turn.resp)>>

\* One step of restore_from_messages, and all of them.
Step(done, msg) ==
    IF msg.role = "user" THEN Append(done, Turn(msg.of))
    ELSE IF done # <<>> /\ Last(done).resp = 0
    THEN SetLast(done, [Last(done) EXCEPT !.resp = msg.of, !.state = "Completed"])
    ELSE done
IsFold(f, msgs) == f = [n \in 0 .. Len(msgs) |-> IF n = 0 THEN <<>> ELSE Step(f[n - 1], msgs[n])]

-----------------------------------------------------------------------------
(* Induction over the natural numbers, for sets. *)

\* A set of numbers with 0 and every successor is all of them.
LEMMA NatSets ==
    ASSUME NEW T \in SUBSET Nat, 0 \in T, \A n \in T : n + 1 \in T
    PROVE  T = Nat
<1> DEFINE D == Nat \ T
<1>1. SUFFICES ASSUME D # {} PROVE FALSE
  OBVIOUS
<1>2. PICK x \in D : \A y \in D : ~(<<y, x>> \in OpToRel(<, Nat))
  <2>1. IsWellFoundedOn(OpToRel(<, Nat), Nat)
    BY NatLessThanWellFounded
  <2>2. D \subseteq Nat
    OBVIOUS
  <2> HIDE DEF D
  <2> QED BY <1>1, <2>1, <2>2, WFMin
<1>3. x \in Nat /\ x \notin T /\ x # 0
  OBVIOUS
<1>4. x - 1 \in Nat /\ x - 1 < x
  BY <1>3
<1>5. x - 1 \notin D
  BY <1>2, <1>3, <1>4 DEF OpToRel
<1>6. x - 1 \in T /\ (x - 1) + 1 = x
  BY <1>3, <1>4, <1>5
<1> QED BY <1>3, <1>6

\* There is a function that folds the messages, and only one.
LEMMA FoldExists ==
    ASSUME NEW msgs, Len(msgs) \in Nat
    PROVE  \E f : IsFold(f, msgs)
<1> DEFINE Upto(f, m) == f = [n \in 0 .. m |-> IF n = 0 THEN <<>> ELSE Step(f[n - 1], msgs[n])]
           T == {m \in Nat : \E f : Upto(f, m)}
<1>1. 0 \in T
  <2>1. Upto([n \in 0 .. 0 |-> <<>>], 0)
    OBVIOUS
  <2> QED BY <2>1
<1>2. ASSUME NEW m \in T PROVE m + 1 \in T
  <2>1. m \in Nat
    OBVIOUS
  <2>2. PICK f : Upto(f, m)
    OBVIOUS
  <2> DEFINE g == [n \in 0 .. m + 1 |-> IF n = m + 1 THEN Step(f[m], msgs[m + 1]) ELSE f[n]]
  <2>3. \A n \in 0 .. m : f[n] = IF n = 0 THEN <<>> ELSE Step(f[n - 1], msgs[n])
    BY <2>1, <2>2
  <2>4. ASSUME NEW n \in 0 .. m + 1 PROVE g[n] = IF n = 0 THEN <<>> ELSE Step(g[n - 1], msgs[n])
    <3>1. CASE n = m + 1
      <4>1. g[n - 1] = f[m] /\ n - 1 = m /\ n # 0
        BY <2>1, <3>1
      <4> QED BY <3>1, <4>1
    <3>2. CASE n # m + 1
      <4>1. n \in 0 .. m /\ g[n] = f[n]
        BY <2>1, <3>2
      <4>2. n # 0 => g[n - 1] = f[n - 1]
        BY <2>1, <4>1
      <4> QED BY <2>3, <4>1, <4>2
    <3> QED BY <3>1, <3>2
  <2>5. Upto(g, m + 1)
    <3>1. g = [n \in 0 .. m + 1 |-> g[n]]
      OBVIOUS
    <3> HIDE DEF g
    <3> QED BY <2>4, <3>1
  <2> HIDE DEF Upto, g
  <2> QED BY <2>1, <2>5
<1>3. T = Nat
  <2> HIDE DEF Upto
  <2>1. T \in SUBSET Nat
    OBVIOUS
  <2> HIDE DEF T
  <2> QED BY <1>1, <1>2, <2>1, NatSets
<1>4. Len(msgs) \in T
  BY <1>3
<1> QED BY <1>4 DEF IsFold


\* What restore_from_messages leaves of a thread is what its fold ends with.
LEMMA RestoreFolds ==
    ASSUME NEW th, ThreadOK(th), NEW msgs, Len(msgs) \in Nat
    PROVE  /\ \E f : IsFold(f, msgs) /\ RestoreFromMessages(th, msgs).turns = f[Len(msgs)]
           /\ RestoreFromMessages(th, msgs).state = "Idle"
<1> DEFINE f == CHOOSE f : IsFold(f, msgs)
<1>1. IsFold(f, msgs)
  BY FoldExists
<1>2. th = [state |-> th.state, turns |-> th.turns, req |-> th.req, auth |-> th.auth]
  BY DEF ThreadOK
<1>3. RestoreFromMessages(th, msgs) = [th EXCEPT !.turns = f[Len(msgs)], !.state = "Idle"]
  BY DEF RestoreFromMessages, IsFold, Step
<1> HIDE DEF f
<1>4. ASSUME NEW x PROVE [th EXCEPT !.turns = x, !.state = "Idle"].turns = x /\ [th EXCEPT !.turns = x, !.state = "Idle"].state = "Idle"
  BY <1>2
<1> QED BY <1>1, <1>3, <1>4

\* The messages of a turn.
LEMMA PairFacts ==
    ASSUME NEW turn \in TurnRec
    PROVE  /\ Pair(turn) \in Seq(Message) /\ Pair(turn)[1] = User(turn.input)
           /\ turn.resp = 0 => Len(Pair(turn)) = 1
           /\ turn.resp # 0 => Len(Pair(turn)) = 2 /\ Pair(turn)[2] = Assistant(turn.resp)
<1>1. turn.input \in Nat /\ turn.resp \in Nat
  BY DEF TurnRec
<1>2. User(turn.input) \in Message /\ Assistant(turn.resp) \in Message
  BY <1>1 DEF User, Assistant, Message
<1> QED BY <1>2 DEF Pair

\* Messages puts those of turn after turn at the end.
IsJoin(m, turns) ==
    /\ m \in [0 .. Len(turns) -> Seq(Message)] /\ m[0] = <<>>
    /\ \A n \in 1 .. Len(turns) : m[n] = m[n - 1] \o Pair(turns[n])

\* There is such a list of prefixes, and Messages is its last.
LEMMA MessagesJoin ==
    ASSUME NEW turns \in Seq(TurnRec)
    PROVE  \E m : IsJoin(m, turns) /\ Messages(turns) = m[Len(turns)]
<1> DEFINE N == Len(turns)
           seqs == [n \in DOMAIN turns |-> Pair(turns[n])]
           Upto(f, k) == f = [i \in 1 .. k |-> IF i = 1 THEN seqs[i] ELSE f[i - 1] \o seqs[i]]
           T == {k \in Nat : \E f : Upto(f, k)}
<1>0. N \in Nat /\ DOMAIN turns = 1 .. N /\ \A n \in 1 .. N : turns[n] \in TurnRec
  OBVIOUS
<1>1. seqs = [n \in 1 .. N |-> Pair(turns[n])] /\ \A n \in 1 .. N : seqs[n] \in Seq(Message)
  BY <1>0, PairFacts
<1>2. seqs \in Seq(Seq(Message)) /\ Len(seqs) = N /\ (N = 0 => seqs = <<>>)
  BY <1>0, <1>1, SeqDef
<1>3. Messages(turns) = FlattenSeq(seqs)
  BY DEF Messages, Pair
<1> HIDE DEF seqs
<1>4. 0 \in T
  <2>1. Upto([i \in 1 .. 0 |-> <<>>], 0)
    OBVIOUS
  <2> QED BY <2>1
<1>5. ASSUME NEW k \in T PROVE k + 1 \in T
  <2>1. k \in Nat
    OBVIOUS
  <2>2. PICK f : Upto(f, k)
    OBVIOUS
  <2> DEFINE new == IF k = 0 THEN seqs[1] ELSE f[k] \o seqs[k + 1]
             g == [i \in 1 .. k + 1 |-> IF i = k + 1 THEN new ELSE f[i]]
  <2>3. \A i \in 1 .. k : f[i] = IF i = 1 THEN seqs[i] ELSE f[i - 1] \o seqs[i]
    BY <2>1, <2>2
  <2>4. ASSUME NEW i \in 1 .. k + 1 PROVE g[i] = IF i = 1 THEN seqs[i] ELSE g[i - 1] \o seqs[i]
    <3>1. CASE i = k + 1
      <4>1. i # 1 => g[i - 1] = f[k] /\ k # 0
        BY <2>1, <3>1
      <4>2. g[i] = new /\ (i = 1 => k = 0)
        BY <2>1, <3>1
      <4> QED BY <2>1, <3>1, <4>1, <4>2
    <3>2. CASE i # k + 1
      <4>1. i \in 1 .. k /\ g[i] = f[i]
        BY <2>1, <3>2
      <4>2. i # 1 => g[i - 1] = f[i - 1]
        BY <2>1, <4>1
      <4> QED BY <2>3, <4>1, <4>2
    <3> QED BY <3>1, <3>2
  <2>5. Upto(g, k + 1)
    <3>1. g = [i \in 1 .. k + 1 |-> g[i]]
      OBVIOUS
    <3> HIDE DEF g
    <3> QED BY <2>4, <3>1
  <2> HIDE DEF Upto, g
  <2> QED BY <2>1, <2>5
<1>6. T = Nat
  <2> HIDE DEF Upto
  <2>1. T \in SUBSET Nat
    OBVIOUS
  <2> HIDE DEF T
  <2> QED BY <1>4, <1>5, <2>1, NatSets
<1>7. \E f : Upto(f, N)
  BY <1>0, <1>6
<1> DEFINE fl == CHOOSE f : Upto(f, N)
<1>8. Upto(fl, N)
  <2> HIDE DEF Upto
  <2> QED BY <1>7
<1>9. Messages(turns) = IF N = 0 THEN <<>> ELSE fl[N]
  <2>1. Messages(turns) = IF N = 0 THEN seqs ELSE fl[N]
    BY <1>2, <1>3 DEF FlattenSeq
  <2> QED BY <1>2, <2>1
<1> HIDE DEF fl
<1>10. \A i \in 1 .. N : fl[i] = IF i = 1 THEN seqs[i] ELSE fl[i - 1] \o seqs[i]
  BY <1>0, <1>8
<1> DEFINE Q == {k \in Nat : k \in 1 .. N => fl[k] \in Seq(Message)}
<1>11. Q = Nat
  <2>1. 0 \in Q /\ Q \in SUBSET Nat
    OBVIOUS
  <2>2. ASSUME NEW k \in Q PROVE k + 1 \in Q
    <3>1. k \in Nat /\ (k \in 1 .. N => fl[k] \in Seq(Message))
      OBVIOUS
    <3>2. CASE k + 1 \in 1 .. N
      <4>1. seqs[k + 1] \in Seq(Message)
        BY <1>1, <3>2
      <4>2. CASE k = 0
        BY <1>10, <3>2, <4>1, <4>2
      <4>3. CASE k # 0
        <5>0. k \in 1 .. N /\ k + 1 # 1 /\ (k + 1) - 1 = k
          BY <1>0, <3>1, <3>2, <4>3
        <5>1. fl[k + 1] = fl[k] \o seqs[k + 1] /\ fl[k] \in Seq(Message)
          <6> HIDE DEF N
          <6> QED BY <1>10, <3>1, <3>2, <5>0
        <5>2. fl[k + 1] \in Seq(Message)
          BY <4>1, <5>1
        <5> QED BY <5>2
      <4> QED BY <4>2, <4>3
    <3> QED BY <3>1, <3>2
  <2> HIDE DEF Q
  <2> QED BY <2>1, <2>2, NatSets
<1>12. \A k \in 1 .. N : fl[k] \in Seq(Message)
  BY <1>0, <1>11
<1> DEFINE m == [n \in 0 .. N |-> IF n = 0 THEN <<>> ELSE fl[n]]
<1>13. m \in [0 .. N -> Seq(Message)] /\ m[0] = <<>>
  BY <1>0, <1>12
<1>14. ASSUME NEW n \in 1 .. N PROVE m[n] = m[n - 1] \o Pair(turns[n])
  <2>1. m[n] = fl[n] /\ seqs[n] = Pair(turns[n]) /\ seqs[n] \in Seq(Message) /\ n \in 0 .. N /\ n # 0
    BY <1>0, <1>1
  <2>2. CASE n = 1
    <3>1. m[n - 1] = <<>> /\ fl[n] = seqs[n]
      BY <1>0, <1>10, <2>2
    <3>2. <<>> \o seqs[n] = seqs[n]
      BY <2>1
    <3> QED BY <2>1, <3>1, <3>2
  <2>3. CASE n # 1
    <3>1. m[n - 1] = fl[n - 1] /\ fl[n] = fl[n - 1] \o seqs[n]
      BY <1>0, <1>10, <2>3
    <3> QED BY <2>1, <3>1
  <2> QED BY <2>2, <2>3
<1>15. Messages(turns) = m[N]
  BY <1>0, <1>9
<1> HIDE DEF m
<1> QED BY <1>13, <1>14, <1>15 DEF IsJoin

\* Every one of the prefixes is one of the last.
LEMMA JoinPrefix ==
    ASSUME NEW turns \in Seq(TurnRec), NEW m, IsJoin(m, turns), NEW i \in 0 .. Len(turns)
    PROVE  LET N == Len(turns)
           IN  Len(m[i]) <= Len(m[N]) /\ \A k \in 1 .. Len(m[i]) : m[N][k] = m[i][k]
<1> DEFINE N == Len(turns)
           Prefix(a, b) == Len(a) <= Len(b) /\ \A k \in 1 .. Len(a) : b[k] = a[k]
           Q == {d \in Nat : d <= N => Prefix(m[N - d], m[N])}
<1>0. N \in Nat /\ \A n \in 1 .. N : turns[n] \in TurnRec
  OBVIOUS
<1>1. \A n \in 0 .. N : m[n] \in Seq(Message)
  BY DEF IsJoin
<1>2. 0 \in Q
  <2>1. N - 0 = N /\ m[N] \in Seq(Message)
    BY <1>0, <1>1
  <2>2. Prefix(m[N], m[N])
    BY <2>1
  <2> QED BY <2>1, <2>2
<1>3. ASSUME NEW d \in Q PROVE d + 1 \in Q
  <2>1. d \in Nat /\ (d <= N => Prefix(m[N - d], m[N]))
    OBVIOUS
  <2>2. SUFFICES ASSUME d + 1 <= N PROVE Prefix(m[N - (d + 1)], m[N])
    BY <2>1
  <2> DEFINE n == N - d
             a == m[n - 1]
             b == m[n]
             c == m[N]
             p == Pair(turns[n])
  <2>3. n \in 1 .. N /\ n - 1 = N - (d + 1) /\ n \in 0 .. N /\ n - 1 \in 0 .. N /\ N \in 0 .. N /\ d <= N
    BY <1>0, <2>1, <2>2
  <2>4. b = a \o p /\ a \in Seq(Message) /\ p \in Seq(Message) /\ c \in Seq(Message) /\ Prefix(b, c)
    <3>1. turns[n] \in TurnRec /\ b = a \o p
      BY <1>0, <2>3 DEF IsJoin
    <3> QED BY <1>1, <2>1, <2>3, <3>1, PairFacts
  <2> HIDE DEF a, b, c, p, n
  <2>5. Len(b) = Len(a) + Len(p) /\ \A k \in 1 .. Len(a) : b[k] = a[k]
    BY <2>4, ConcatProperties
  <2>6. Prefix(a, c)
    BY <2>4, <2>5
  <2> QED BY <2>3, <2>6 DEF a, c
<1>4. Q = Nat
  <2>1. Q \in SUBSET Nat
    OBVIOUS
  <2> HIDE DEF Q
  <2> QED BY <1>2, <1>3, <2>1, NatSets
<1>5. N - i \in Nat /\ N - i <= N /\ N - (N - i) = i
  BY <1>0
<1>6. N - i \in Q
  <2> HIDE DEF Q
  <2> QED BY <1>4, <1>5
<1> QED BY <1>5, <1>6

\* Turns whose first n say what those of turns say.
Alike(x, turns, n) ==
    /\ x \in Seq(TurnRec) /\ Len(x) = n
    /\ \A k \in 1 .. n : x[k].input = turns[k].input /\ x[k].resp = turns[k].resp

\* A user message adds a turn.
LEMMA StepUser ==
    ASSUME NEW x \in Seq(TurnRec), NEW i \in Nat
    PROVE  LET y == Step(x, User(i))
           IN  /\ y \in Seq(TurnRec) /\ Len(y) = Len(x) + 1 /\ \A k \in 1 .. Len(x) : y[k] = x[k]
               /\ y[Len(x) + 1].input = i /\ y[Len(x) + 1].resp = 0
<1>1. Turn(i) \in TurnRec /\ Turn(i).input = i /\ Turn(i).resp = 0
  BY DEF Turn, TurnRec
<1>2. Step(x, User(i)) = Append(x, Turn(i))
  BY DEF Step, User
<1> QED BY <1>1, <1>2, AppendProperties

\* The last turn is replaced.
LEMMA SetLastFacts ==
    ASSUME NEW x \in Seq(TurnRec), x # <<>>, NEW turn \in TurnRec
    PROVE  LET y == SetLast(x, turn)
           IN  /\ y \in Seq(TurnRec) /\ Len(y) = Len(x) /\ y # <<>> /\ y[Len(x)] = turn /\ Last(y) = turn
               /\ \A k \in 1 .. Len(x) - 1 : y[k] = x[k]
<1>1. Len(x) \in Nat /\ Len(x) >= 1
  BY EmptySeq
<1> DEFINE fr == Front(x)
<1>2. fr \in Seq(TurnRec) /\ Len(fr) = Len(x) - 1 /\ \A k \in 1 .. Len(x) - 1 : fr[k] = x[k]
  BY <1>1, SubSeqProperties DEF Front
<1>3. SetLast(x, turn) = Append(fr, turn)
  BY DEF SetLast
<1> HIDE DEF fr
<1>4. /\ Append(fr, turn) \in Seq(TurnRec) /\ Len(Append(fr, turn)) = Len(x) /\ Append(fr, turn)[Len(x)] = turn
      /\ \A k \in 1 .. Len(x) - 1 : Append(fr, turn)[k] = fr[k]
  BY <1>1, <1>2, AppendProperties
<1>5. Append(fr, turn) # <<>>
  BY <1>1, <1>4
<1> QED BY <1>2, <1>3, <1>4, <1>5 DEF Last

\* An assistant message answers the last turn.
LEMMA StepAssistant ==
    ASSUME NEW x \in Seq(TurnRec), x # <<>>, x[Len(x)].resp = 0, NEW r \in Nat
    PROVE  LET y == Step(x, Assistant(r))
           IN  /\ y \in Seq(TurnRec) /\ Len(y) = Len(x) /\ \A k \in 1 .. Len(x) - 1 : y[k] = x[k]
               /\ y[Len(x)].input = x[Len(x)].input /\ y[Len(x)].resp = r
<1> DEFINE last == x[Len(x)]
           new == [last EXCEPT !.resp = r, !.state = "Completed"]
<1>1. last \in TurnRec
  BY EmptySeq
<1>2. new \in TurnRec /\ new.input = last.input /\ new.resp = r
  BY <1>1 DEF TurnRec
<1>3. Step(x, Assistant(r)) = SetLast(x, new)
  BY DEF Step, Assistant, Last
<1> HIDE DEF new
<1>4. /\ SetLast(x, new) \in Seq(TurnRec) /\ Len(SetLast(x, new)) = Len(x) /\ SetLast(x, new)[Len(x)] = new
      /\ \A k \in 1 .. Len(x) - 1 : SetLast(x, new)[k] = x[k]
  BY <1>2, SetLastFacts
<1> QED BY <1>2, <1>3, <1>4

\* The messages of a turn make it again.
LEMMA StepTurn ==
    ASSUME NEW turns \in Seq(TurnRec), NEW n \in Nat, n + 1 <= Len(turns), NEW x, Alike(x, turns, n),
           NEW y, y = Step(x, User(turns[n + 1].input))
    PROVE  /\ turns[n + 1].resp = 0 => Alike(y, turns, n + 1)
           /\ turns[n + 1].resp # 0 => Alike(Step(y, Assistant(turns[n + 1].resp)), turns, n + 1)
<1> DEFINE turn == turns[n + 1]
<1>1. turn \in TurnRec
  OBVIOUS
<1>2. turn.input \in Nat /\ turn.resp \in Nat
  BY <1>1 DEF TurnRec
<1>3. x \in Seq(TurnRec) /\ Len(x) = n /\ \A k \in 1 .. n : x[k].input = turns[k].input /\ x[k].resp = turns[k].resp
  BY DEF Alike
<1> HIDE DEF turn
<1>4. /\ y \in Seq(TurnRec) /\ Len(y) = n + 1 /\ \A k \in 1 .. n : y[k] = x[k]
      /\ y[n + 1].input = turn.input /\ y[n + 1].resp = 0
  BY <1>2, <1>3, StepUser, SMTT(30), ZenonT(30) DEF turn
<1>5. ASSUME turn.resp = 0, NEW k \in 1 .. n + 1 PROVE y[k].input = turns[k].input /\ y[k].resp = turns[k].resp
  <2>1. CASE k = n + 1
    BY <1>4, <1>5, <2>1 DEF turn
  <2>2. CASE k \in 1 .. n
    BY <1>3, <1>4, <2>2
  <2> QED BY <2>1, <2>2
<1> DEFINE z == Step(y, Assistant(turn.resp))
<1>6. y # <<>>
  BY <1>4
<1>7. /\ z \in Seq(TurnRec) /\ Len(z) = n + 1 /\ \A k \in 1 .. n : z[k] = y[k]
      /\ z[n + 1].input = y[n + 1].input /\ z[n + 1].resp = turn.resp
  <2>1. /\ z \in Seq(TurnRec) /\ Len(z) = Len(y) /\ \A k \in 1 .. Len(y) - 1 : z[k] = y[k]
        /\ z[Len(y)].input = y[Len(y)].input /\ z[Len(y)].resp = turn.resp
    BY <1>2, <1>4, <1>6, StepAssistant
  <2>2. Len(y) - 1 = n
    BY <1>4
  <2> QED BY <1>4, <2>1, <2>2
<1> HIDE DEF z
<1>8. ASSUME NEW k \in 1 .. n + 1 PROVE z[k].input = turns[k].input /\ z[k].resp = turns[k].resp
  <2>1. CASE k = n + 1
    BY <1>4, <1>7, <2>1 DEF turn
  <2>2. CASE k \in 1 .. n
    BY <1>3, <1>4, <1>7, <2>2
  <2> QED BY <2>1, <2>2
<1>9. turn.resp = 0 => Alike(y, turns, n + 1)
  BY <1>4, <1>5 DEF Alike
<1>10. Alike(z, turns, n + 1)
  BY <1>7, <1>8 DEF Alike
<1> QED BY <1>9, <1>10 DEF turn, z

\* A checkpoint of any turns, restored, says what the turns said: Thread::messages
\* and Thread::restore_from_messages keep every input and every answer, each with
\* its turn and in order, also of turns that were never answered.
THEOREM CheckpointRoundTrip ==
    ASSUME NEW turns \in Seq(TurnRec), NEW th, ThreadOK(th)
    PROVE  Alike(RestoreFromMessages(th, Messages(turns)).turns, turns, Len(turns))
<1> DEFINE N == Len(turns)
<1>0. N \in Nat /\ \A n \in 1 .. N : turns[n] \in TurnRec
  OBVIOUS
<1>1. PICK m : IsJoin(m, turns) /\ Messages(turns) = m[N]
  BY MessagesJoin
<1> DEFINE msgs == m[N]
<1>2. \A n \in 0 .. N : m[n] \in Seq(Message) /\ Len(m[n]) \in Nat
  BY <1>1 DEF IsJoin
<1>3. Len(msgs) \in Nat
  BY <1>0, <1>2
<1>4. PICK f : IsFold(f, msgs) /\ RestoreFromMessages(th, msgs).turns = f[Len(msgs)]
  <2> HIDE DEF msgs
  <2> QED BY <1>3, RestoreFolds
<1>5. /\ f[0] = <<>>
      /\ \A n \in 1 .. Len(msgs) : f[n] = Step(f[n - 1], msgs[n])
  <2>1. \A n \in 0 .. Len(msgs) : f[n] = IF n = 0 THEN <<>> ELSE Step(f[n - 1], msgs[n])
    BY <1>3, <1>4 DEF IsFold
  <2> HIDE DEF msgs
  <2> QED BY <1>3, <2>1
<1> DEFINE Q == {n \in Nat : n <= N => Alike(f[Len(m[n])], turns, n)}
<1>6. 0 \in Q
  <2>1. m[0] = <<>>
    BY <1>1 DEF IsJoin
  <2>2. Len(m[0]) = 0 /\ <<>> \in Seq(TurnRec) /\ Len(<<>>) = 0
    BY <2>1
  <2>3. Alike(<<>>, turns, 0)
    BY <2>2 DEF Alike
  <2> QED BY <1>5, <2>2, <2>3
<1>7. ASSUME NEW n \in Q PROVE n + 1 \in Q
  <2>1. n \in Nat /\ (n <= N => Alike(f[Len(m[n])], turns, n))
    OBVIOUS
  <2>2. SUFFICES ASSUME n + 1 <= N PROVE Alike(f[Len(m[n + 1])], turns, n + 1)
    BY <2>1
  <2> DEFINE turn == turns[n + 1]
             a == m[n]
             b == m[n + 1]
             p == Pair(turn)
             L == Len(a)
             x == f[L]
             y == Step(x, User(turn.input))
  <2>3. n + 1 \in 1 .. N /\ (n + 1) - 1 = n /\ n \in 0 .. N /\ n + 1 \in 0 .. N /\ n <= N
    BY <1>0, <2>1, <2>2
  <2>4. turn \in TurnRec /\ a \in Seq(Message) /\ b \in Seq(Message) /\ b = a \o p /\ Alike(x, turns, n) /\ L \in Nat
    BY <1>0, <1>1, <1>2, <2>1, <2>3 DEF IsJoin
  <2>5. Len(b) <= Len(msgs) /\ \A k \in 1 .. Len(b) : msgs[k] = b[k]
    BY <1>1, <2>3, JoinPrefix
  <2>6. /\ p \in Seq(Message) /\ p[1] = User(turn.input)
        /\ turn.resp = 0 => Len(p) = 1
        /\ turn.resp # 0 => Len(p) = 2 /\ p[2] = Assistant(turn.resp)
    BY <2>4, PairFacts
  <2>7. /\ turn.resp = 0 => Alike(y, turns, n + 1)
        /\ turn.resp # 0 => Alike(Step(y, Assistant(turn.resp)), turns, n + 1)
    <3> HIDE DEF x
    <3> QED BY <2>1, <2>2, <2>4, StepTurn
  <2> HIDE DEF a, b, p, msgs
  <2>8. Len(b) = L + Len(p) /\ \A k \in 1 .. Len(p) : b[L + k] = p[k]
    BY <2>4, <2>6, ConcatProperties
  <2> HIDE DEF turn, L
  <2>9. Len(p) >= 1 /\ Len(p) \in Nat
    BY <2>6
  <2>10. f[L + 1] = y
    <3>1. b[L + 1] = User(turn.input)
      BY <2>6, <2>8, <2>9
    <3>2. L + 1 \in 1 .. Len(b) /\ L + 1 \in 1 .. Len(msgs) /\ (L + 1) - 1 = L
      BY <1>3, <2>4, <2>5, <2>8, <2>9
    <3>3. msgs[L + 1] = User(turn.input)
      BY <2>5, <3>1, <3>2
    <3>4. f[L + 1] = Step(f[(L + 1) - 1], msgs[L + 1])
      BY <1>5, <3>2
    <3> QED BY <3>2, <3>3, <3>4
  <2>11. CASE turn.resp = 0
    <3>1. Len(b) = L + 1
      BY <2>6, <2>8, <2>11
    <3> QED BY <2>7, <2>10, <2>11, <3>1 DEF b
  <2>12. CASE turn.resp # 0
    <3>1. Len(b) = L + 2 /\ b[L + 2] = Assistant(turn.resp)
      BY <2>6, <2>8, <2>12
    <3>2. L + 2 \in 1 .. Len(b) /\ L + 2 \in 1 .. Len(msgs) /\ (L + 2) - 1 = L + 1
      BY <1>3, <2>4, <2>5, <3>1
    <3>3. msgs[L + 2] = Assistant(turn.resp)
      BY <2>5, <3>1, <3>2
    <3>4. f[L + 2] = Step(f[(L + 2) - 1], msgs[L + 2])
      BY <1>5, <3>2
    <3> HIDE DEF y
    <3>5. f[L + 2] = Step(y, Assistant(turn.resp))
      BY <2>10, <3>2, <3>3, <3>4
    <3> QED BY <2>7, <2>12, <3>1, <3>5 DEF b
  <2> QED BY <2>11, <2>12
<1>8. Q = Nat
  <2>1. Q \in SUBSET Nat
    OBVIOUS
  <2> HIDE DEF Q
  <2> QED BY <1>6, <1>7, <2>1, NatSets
<1>9. N \in Q
  BY <1>0, <1>8
<1>10. Alike(f[Len(m[N])], turns, N)
  BY <1>0, <1>9
<1> QED BY <1>1, <1>4, <1>10

-----------------------------------------------------------------------------
(* Turns in order, and how far a conversation has come. *)

\* The turns' inputs ascend, and an answer is one to the turn's own input.
Good(turns) ==
    /\ turns \in Seq(TurnRec)
    /\ \A k \in 1 .. Len(turns) : turns[k].input > 0 /\ turns[k].resp \in {0, turns[k].input}
    /\ \A k \in 1 .. Len(turns) : \A j \in 1 .. k - 1 : turns[j].input < turns[k].input

\* The input that turns, or the messages of a checkpoint, end with.
Cur(turns) == IF turns = <<>> THEN 0 ELSE Last(turns).input
Top(msgs) == IF msgs = <<>> THEN 0 ELSE Last(msgs).of

\* The messages of such turns.
Chat(msgs) == \E turns : Good(turns) /\ msgs = Messages(turns)

\* The last input is the largest.
LEMMA GoodCur ==
    ASSUME NEW turns, Good(turns)
    PROVE  /\ Cur(turns) \in Nat /\ (turns # <<>> => Cur(turns) > 0)
           /\ \A k \in DOMAIN turns : turns[k].input \in Nat /\ turns[k].input <= Cur(turns)
<1> DEFINE N == Len(turns)
<1>1. turns \in Seq(TurnRec) /\ N \in Nat /\ DOMAIN turns = 1 .. N
  BY DEF Good
<1>2. \A k \in 1 .. N : turns[k].input \in Nat
  <2>1. \A k \in 1 .. N : turns[k] \in TurnRec
    BY <1>1
  <2> QED BY <2>1 DEF TurnRec
<1>3. CASE turns = <<>>
  BY <1>1, <1>3 DEF Cur
<1>4. CASE turns # <<>>
  <2>1. N \in 1 .. N /\ Cur(turns) = turns[N].input
    BY <1>1, <1>4, EmptySeq DEF Cur, Last
  <2>2. ASSUME NEW k \in 1 .. N PROVE turns[k].input <= turns[N].input
    <3>1. CASE k = N
      BY <1>2, <3>1
    <3>2. CASE k \in 1 .. N - 1
      BY <1>2, <2>1, <3>2 DEF Good
    <3>3. k = N \/ k \in 1 .. N - 1
      <4>1. N \in Nat
        BY <1>1
      <4> HIDE DEF N
      <4> QED BY <4>1
    <3> QED BY <3>1, <3>2, <3>3
  <2> QED BY <1>1, <1>2, <2>1, <2>2 DEF Good
<1> QED BY <1>3, <1>4

\* A checkpoint ends with what the turns ended with.
LEMMA TopOfMessages ==
    ASSUME NEW turns, Good(turns)
    PROVE  Top(Messages(turns)) = Cur(turns)
<1> DEFINE N == Len(turns)
<1>1. turns \in Seq(TurnRec) /\ N \in Nat
  BY DEF Good
<1>2. PICK m : IsJoin(m, turns) /\ Messages(turns) = m[N]
  BY <1>1, MessagesJoin
<1>3. CASE turns = <<>>
  <2>1. N = 0 /\ m[0] = <<>>
    BY <1>2, <1>3 DEF IsJoin
  <2> QED BY <1>2, <1>3, <2>1 DEF Top, Cur
<1>4. CASE turns # <<>>
  <2> DEFINE turn == turns[N]
             a == m[N - 1]
             b == m[N]
             p == Pair(turn)
  <2>1. N \in 1 .. N /\ Cur(turns) = turn.input /\ turn \in TurnRec /\ N - 1 \in 0 .. N
    BY <1>1, <1>4, EmptySeq DEF Cur, Last
  <2>2. b = a \o p /\ a \in Seq(Message)
    BY <1>2, <2>1 DEF IsJoin
  <2>3. /\ p \in Seq(Message) /\ p[1] = User(turn.input)
        /\ turn.resp = 0 => Len(p) = 1
        /\ turn.resp # 0 => Len(p) = 2 /\ p[2] = Assistant(turn.resp)
    BY <2>1, PairFacts
  <2>4. turn.resp \in {0, turn.input} /\ turn.input > 0 /\ turn.input \in Nat
    <3>1. turn.input \in Nat
      BY <2>1 DEF TurnRec
    <3> QED BY <2>1, <3>1 DEF Good
  <2>5. Len(p) \in Nat /\ Len(p) >= 1 /\ p[Len(p)].of = turn.input
    BY <2>3, <2>4 DEF User, Assistant
  <2> HIDE DEF a, b, p, turn
  <2>6. b # <<>> /\ b[Len(b)] = p[Len(p)]
    <3>1. Len(b) = Len(a) + Len(p) /\ b[Len(a) + Len(p)] = p[Len(p)] /\ Len(a) \in Nat
      BY <2>2, <2>3, <2>5, ConcatProperties
    <3>2. Len(b) > 0
      BY <2>5, <3>1
    <3> QED BY <3>1, <3>2
  <2> QED BY <1>2, <2>1, <2>5, <2>6 DEF Top, Last, b
<1> QED BY <1>3, <1>4

\* What says the same is as good.
LEMMA AlikeGood ==
    ASSUME NEW turns, Good(turns), NEW x, Alike(x, turns, Len(turns))
    PROVE  Good(x) /\ Cur(x) = Cur(turns)
<1>1. /\ turns \in Seq(TurnRec) /\ x \in Seq(TurnRec) /\ Len(x) = Len(turns) /\ Len(x) \in Nat
      /\ \A k \in 1 .. Len(x) : x[k].input = turns[k].input /\ x[k].resp = turns[k].resp
  BY DEF Good, Alike
<1>2. Good(x)
  BY <1>1 DEF Good
<1>3. x = <<>> <=> turns = <<>>
  BY <1>1, EmptySeq
<1>4. x # <<>> => Len(x) \in 1 .. Len(x)
  BY <1>1, EmptySeq
<1> QED BY <1>1, <1>2, <1>3, <1>4 DEF Cur, Last

\* A turn with a new input.
LEMMA GoodAppend ==
    ASSUME NEW turns, Good(turns), NEW i \in Nat, Cur(turns) <= i
    PROVE  LET x == Append(turns, Turn(i + 1)) IN Good(x) /\ Cur(x) = i + 1
<1> DEFINE x == Append(turns, Turn(i + 1))
           N == Len(turns)
<1>1. turns \in Seq(TurnRec) /\ N \in Nat /\ DOMAIN turns = 1 .. N
  BY DEF Good
<1>2. Turn(i + 1) \in TurnRec /\ Turn(i + 1).input = i + 1 /\ Turn(i + 1).resp = 0
  BY DEF Turn, TurnRec
<1>3. /\ x \in Seq(TurnRec) /\ Len(x) = N + 1 /\ x[N + 1] = Turn(i + 1) /\ \A k \in 1 .. N : x[k] = turns[k]
  BY <1>1, <1>2, AppendProperties
<1>4. \A k \in 1 .. N : turns[k].input \in Nat /\ turns[k].input < i + 1
  BY <1>1, GoodCur
<1> HIDE DEF x
<1>5. ASSUME NEW k \in 1 .. Len(x) PROVE x[k].input > 0 /\ x[k].resp \in {0, x[k].input}
  BY <1>1, <1>2, <1>3 DEF Good
<1>6. ASSUME NEW k \in 1 .. Len(x), NEW j \in 1 .. k - 1 PROVE x[j].input < x[k].input
  <2>1. CASE k = N + 1
    BY <1>1, <1>2, <1>3, <1>4, <2>1
  <2>2. CASE k \in 1 .. N
    BY <1>1, <1>3, <2>2 DEF Good
  <2> QED BY <1>1, <1>3, <2>1, <2>2
<1>7. x # <<>>
  BY <1>1, <1>3
<1>8. Good(x) /\ Cur(x) = i + 1
  BY <1>2, <1>3, <1>5, <1>6, <1>7 DEF Good, Cur, Last
<1> QED BY <1>8 DEF x

\* The last turn is answered, or only its state is set.
LEMMA GoodSetLast ==
    ASSUME NEW turns, Good(turns), NEW turn \in TurnRec,
           turns # <<>> => turn.input = Last(turns).input /\ turn.resp \in {0, turn.input}
    PROVE  Good(SetLast(turns, turn)) /\ Cur(SetLast(turns, turn)) = Cur(turns)
<1> DEFINE x == SetLast(turns, turn)
           N == Len(turns)
<1>1. turns \in Seq(TurnRec) /\ N \in Nat
  BY DEF Good
<1>2. CASE turns = <<>>
  BY <1>2 DEF SetLast
<1>3. CASE turns # <<>>
  <2>1. /\ x \in Seq(TurnRec) /\ Len(x) = N /\ x # <<>> /\ x[N] = turn /\ Last(x) = turn
        /\ \A k \in 1 .. N - 1 : x[k] = turns[k]
    BY <1>1, <1>3, SetLastFacts
  <2>2. N \in 1 .. N /\ Last(turns) = turns[N]
    BY <1>1, <1>3, EmptySeq DEF Last
  <2> HIDE DEF x
  <2>3. \A k \in 1 .. N : x[k].input = turns[k].input /\ x[k].resp \in {0, x[k].input}
    <3>1. ASSUME NEW k \in 1 .. N PROVE x[k].input = turns[k].input /\ x[k].resp \in {0, x[k].input}
      <4>1. CASE k = N
        BY <1>3, <2>1, <2>2, <4>1
      <4>2. CASE k \in 1 .. N - 1
        BY <2>1, <4>2 DEF Good
      <4> QED BY <1>1, <4>1, <4>2
    <3> QED BY <3>1
  <2>4. Good(x) /\ Cur(x) = Cur(turns)
    BY <1>1, <1>3, <2>1, <2>2, <2>3 DEF Good, Cur
  <2> QED BY <2>4 DEF x
<1> QED BY <1>2, <1>3

\* A compaction keeps the last turn.
LEMMA GoodTruncate ==
    ASSUME NEW turns, Good(turns)
    PROVE  Good(Truncate(turns)) /\ Cur(Truncate(turns)) = Cur(turns)
<1> DEFINE x == Truncate(turns)
           N == Len(turns)
           d == N - KeepRecent
<1>1. turns \in Seq(TurnRec) /\ N \in Nat /\ KeepRecent \in Nat \ {0}
  BY ThreadsAssumption DEF Good
<1>2. CASE N <= KeepRecent
  BY <1>1, <1>2 DEF Truncate
<1>3. CASE N > KeepRecent
  <2>1. x = SubSeq(turns, d + 1, N) /\ d \in Nat /\ d + 1 \in 1 .. N /\ N \in 1 .. N
    BY <1>1, <1>3 DEF Truncate
  <2>2. x \in Seq(TurnRec) /\ Len(x) = KeepRecent /\ \A k \in 1 .. KeepRecent : x[k] = turns[d + k]
    <3>1. /\ x \in Seq(TurnRec) /\ Len(x) = N - (d + 1) + 1
          /\ \A k \in 1 .. N - (d + 1) + 1 : x[k] = turns[(d + 1) + k - 1]
      BY <1>1, <2>1, SubSeqProperties
    <3>2. N - (d + 1) + 1 = KeepRecent /\ \A k \in 1 .. KeepRecent : (d + 1) + k - 1 = d + k
      BY <1>1, <2>1
    <3> QED BY <3>1, <3>2
  <2> HIDE DEF x, d
  <2>3. \A k \in 1 .. KeepRecent : d + k \in 1 .. N /\ \A j \in 1 .. k - 1 : j \in 1 .. KeepRecent /\ d + j \in 1 .. (d + k) - 1
    BY <1>1, <1>3, <2>1 DEF d
  <2>4. Good(x)
    BY <2>2, <2>3 DEF Good
  <2>5. x # <<>> /\ turns # <<>> /\ d + KeepRecent = N /\ KeepRecent \in 1 .. KeepRecent
    BY <1>1, <1>3, <2>2 DEF d
  <2>6. Cur(x) = Cur(turns)
    BY <2>2, <2>5 DEF Cur, Last
  <2> QED BY <2>4, <2>6 DEF x
<1> QED BY <1>1, <1>2, <1>3

-----------------------------------------------------------------------------
(* The undo and the redo stack. *)

\* Around a thread that has come to c: the checkpoints ascend up to c, what redo
\* brings back descends down to c, and nothing is newer than input i.
Stacks(u, c, i) ==
    /\ Listed(u.undo) /\ Listed(u.redo)
    /\ \A n \in 1 .. Len(u.undo) :
          /\ Chat(u.undo[n]) /\ Top(u.undo[n]) <= c
          /\ \A m \in 1 .. n - 1 : Top(u.undo[m]) <= Top(u.undo[n])
    /\ \A n \in 1 .. Len(u.redo) :
          /\ Chat(u.redo[n]) /\ c <= Top(u.redo[n]) /\ Top(u.redo[n]) <= i
          /\ \A m \in 1 .. n - 1 : Top(u.redo[n]) <= Top(u.redo[m])

\* What a checkpoint ends with, and the thread it makes again.
LEMMA ChatFacts ==
    ASSUME NEW msgs, Chat(msgs)
    PROVE  /\ Top(msgs) \in Nat /\ (msgs = <<>> => Top(msgs) = 0)
           /\ \A th : ThreadOK(th) => LET turns == RestoreFromMessages(th, msgs).turns
                                      IN  Good(turns) /\ Cur(turns) = Top(msgs)
<1>1. PICK turns : Good(turns) /\ msgs = Messages(turns)
  BY DEF Chat
<1>2. Top(msgs) = Cur(turns) /\ Cur(turns) \in Nat
  BY <1>1, TopOfMessages, GoodCur
<1>3. ASSUME NEW th, ThreadOK(th) PROVE LET x == RestoreFromMessages(th, msgs).turns IN Good(x) /\ Cur(x) = Top(msgs)
  <2> DEFINE x == RestoreFromMessages(th, msgs).turns
  <2>1. turns \in Seq(TurnRec)
    BY <1>1 DEF Good
  <2>2. Alike(x, turns, Len(turns))
    BY <1>1, <1>3, <2>1, CheckpointRoundTrip
  <2> HIDE DEF x
  <2>3. Good(x) /\ Cur(x) = Cur(turns)
    BY <1>1, <2>2, AlikeGood
  <2> QED BY <1>2, <2>3 DEF x
<1> QED BY <1>2, <1>3 DEF Top

\* Empty stacks.
LEMMA StacksNew == \A c, i : Stacks(NewUndo, c, i)
<1>1. NewUndo.undo = <<>> /\ NewUndo.redo = <<>>
  BY DEF NewUndo
<1> QED BY <1>1, SeqsAreListed DEF Stacks

\* More inputs may have come.
LEMMA StacksLater ==
    ASSUME NEW u, NEW c, NEW i \in Nat, NEW j \in Nat, i <= j, Stacks(u, c, i)
    PROVE  Stacks(u, c, j)
<1>1. ASSUME NEW n \in 1 .. Len(u.redo) PROVE Top(u.redo[n]) \in Nat /\ Top(u.redo[n]) <= i
  BY ChatFacts DEF Stacks
<1>2. ASSUME NEW n \in 1 .. Len(u.redo) PROVE Top(u.redo[n]) <= j
  BY <1>1
<1> QED BY <1>2 DEF Stacks

\* A checkpoint of where the thread is, and the thread goes on.
LEMMA StacksPush ==
    ASSUME NEW u, NEW c \in Nat, NEW i \in Nat, Stacks(u, c, i), NEW msgs, Chat(msgs), Top(msgs) = c,
           NEW d \in Nat, c <= d, NEW j
    PROVE  Stacks(Checkpoint(u, msgs), d, j)
<1> DEFINE stack == Append(u.undo, msgs)
           N == Len(u.undo)
<1>1. /\ Listed(u.undo) /\ N \in Nat
      /\ \A n \in 1 .. N : /\ Chat(u.undo[n]) /\ Top(u.undo[n]) \in Nat /\ Top(u.undo[n]) <= c
                           /\ \A m \in 1 .. n - 1 : Top(u.undo[m]) <= Top(u.undo[n])
  BY ChatFacts DEF Stacks, Listed
<1>2. /\ Listed(stack) /\ Len(stack) = N + 1 /\ stack[N + 1] = msgs
      /\ \A n \in 1 .. N : stack[n] = u.undo[n]
  BY <1>1, ListedFacts
<1> HIDE DEF stack
<1>3. ASSUME NEW n \in 1 .. N + 1
      PROVE  /\ Chat(stack[n]) /\ Top(stack[n]) \in Nat /\ Top(stack[n]) <= c
             /\ \A m \in 1 .. n - 1 : Top(stack[m]) <= Top(stack[n])
  <2>1. CASE n = N + 1
    BY <1>1, <1>2, <2>1
  <2>2. CASE n \in 1 .. N
    <3> HIDE DEF N
    <3>1. \A m \in 1 .. n - 1 : m \in 1 .. N
      BY <1>1, <2>2
    <3> QED BY <1>1, <1>2, <2>2, <3>1
  <2> HIDE DEF N
  <2> QED BY <1>1, <2>1, <2>2
<1> DEFINE y == IF Len(stack) > MaxCheckpoints THEN Tail(stack) ELSE stack
<1>4. Checkpoint(u, msgs).undo = y /\ Checkpoint(u, msgs).redo = <<>>
  BY DEF Checkpoint, stack
<1>5. /\ Listed(y)
      /\ \A n \in 1 .. Len(y) : /\ Chat(y[n]) /\ Top(y[n]) <= d
                                /\ \A m \in 1 .. n - 1 : Top(y[m]) <= Top(y[n])
  <2>1. CASE y = stack
    <3>1. ASSUME NEW n \in 1 .. N + 1 PROVE Top(stack[n]) <= d
      BY <1>3
    <3> QED BY <1>2, <1>3, <2>1, <3>1
  <2>2. CASE y = Tail(stack)
    <3>1. stack # <<>> /\ stack \in Seq({stack[k] : k \in 1 .. N + 1})
      <4>1. stack = [k \in 1 .. N + 1 |-> stack[k]] /\ N + 1 \in Nat
        BY <1>1, <1>2 DEF Listed
      <4> HIDE DEF N
      <4>2. stack # <<>>
        BY <1>1, <1>2
      <4>3. stack \in [1 .. N + 1 -> {stack[k] : k \in 1 .. N + 1}]
        BY <4>1
      <4> QED BY <4>1, <4>2, <4>3, SeqDef
    <3>2. Listed(Tail(stack)) /\ Len(Tail(stack)) = N /\ \A n \in 1 .. N : Tail(stack)[n] = stack[n + 1]
      <4>1. Listed(Tail(stack)) /\ Len(Tail(stack)) = Len(stack) - 1
        BY <1>2, <3>1, ListedFacts
      <4>2. Len(Tail(stack)) = N
        BY <1>1, <1>2, <4>1
      <4>3. \A n \in 1 .. Len(Tail(stack)) : Tail(stack)[n] = stack[n + 1]
        BY <3>1, HeadTailProperties
      <4> QED BY <4>1, <4>2, <4>3
    <3> HIDE DEF y, N
    <3>3. ASSUME NEW n \in 1 .. N
          PROVE  /\ Chat(y[n]) /\ Top(y[n]) <= d
                 /\ \A m \in 1 .. n - 1 : Top(y[m]) <= Top(y[n])
      <4>1. n + 1 \in 1 .. N + 1 /\ y[n] = stack[n + 1]
        BY <1>1, <2>2, <3>2
      <4>2. ASSUME NEW m \in 1 .. n - 1 PROVE m \in 1 .. N /\ m + 1 \in 1 .. (n + 1) - 1 /\ y[m] = stack[m + 1]
        BY <1>1, <2>2, <3>2
      <4>3. Chat(stack[n + 1]) /\ Top(stack[n + 1]) <= c /\ Top(stack[n + 1]) \in Nat
            /\ \A m \in 1 .. (n + 1) - 1 : Top(stack[m]) <= Top(stack[n + 1])
        BY <1>3, <4>1
      <4>4. Top(stack[n + 1]) <= d
        BY <4>3
      <4>5. ASSUME NEW m \in 1 .. n - 1 PROVE Top(y[m]) <= Top(y[n])
        BY <4>1, <4>2, <4>3
      <4> QED BY <4>1, <4>3, <4>4, <4>5
    <3> QED BY <2>2, <3>2, <3>3
  <2> QED BY <2>1, <2>2
<1> HIDE DEF y
<1>6. Len(<<>>) = 0 /\ Listed(<<>>)
  BY SeqsAreListed
<1> QED BY <1>4, <1>5, <1>6 DEF Stacks

\* Undo: where the thread is goes onto the redo stack, the last checkpoint stays.
LEMMA StacksUndo ==
    ASSUME NEW u, NEW c \in Nat, NEW i \in Nat, c <= i, Stacks(u, c, i), u.undo # <<>>, NEW msgs, Chat(msgs), Top(msgs) = c
    PROVE  /\ Chat(Last(u.undo)) /\ Top(Last(u.undo)) \in Nat /\ Top(Last(u.undo)) <= i
           /\ Stacks([undo |-> u.undo, redo |-> Append(u.redo, msgs)], Top(Last(u.undo)), i)
<1> DEFINE N == Len(u.undo)
           R == Len(u.redo)
           d == Top(Last(u.undo))
           x == Append(u.redo, msgs)
<1>1. /\ Listed(u.undo) /\ N \in Nat /\ N \in 1 .. N
      /\ \A n \in 1 .. N : /\ Chat(u.undo[n]) /\ Top(u.undo[n]) \in Nat /\ Top(u.undo[n]) <= c
                           /\ \A m \in 1 .. n - 1 : Top(u.undo[m]) <= Top(u.undo[n])
  <2>1. Listed(u.undo) /\ N \in Nat /\ \A n \in 1 .. N : Chat(u.undo[n])
    BY DEF Stacks, Listed
  <2>2. N # 0
    <3>1. u.undo = [k \in 1 .. N |-> u.undo[k]]
      BY <2>1 DEF Listed
    <3> QED BY <3>1
  <2> QED BY <2>1, <2>2, ChatFacts DEF Stacks
<1>2. /\ Listed(u.redo) /\ R \in Nat
      /\ \A n \in 1 .. R : /\ Chat(u.redo[n]) /\ Top(u.redo[n]) \in Nat /\ c <= Top(u.redo[n]) /\ Top(u.redo[n]) <= i
                           /\ \A m \in 1 .. n - 1 : Top(u.redo[n]) <= Top(u.redo[m])
  BY ChatFacts DEF Stacks, Listed
<1>3. d = Top(u.undo[N]) /\ d \in Nat /\ d <= c /\ Chat(Last(u.undo))
  BY <1>1 DEF Last
<1>4. /\ Listed(x) /\ Len(x) = R + 1 /\ x[R + 1] = msgs /\ \A n \in 1 .. R : x[n] = u.redo[n]
  BY <1>2, ListedFacts
<1> HIDE DEF x, d, N, R
<1>5. ASSUME NEW n \in 1 .. N PROVE Top(u.undo[n]) <= d
  <2>1. CASE n = N
    BY <1>1, <1>3, <2>1
  <2>2. CASE n \in 1 .. N - 1
    BY <1>1, <1>3, <2>2
  <2> QED BY <1>1, <2>1, <2>2
<1>6. ASSUME NEW n \in 1 .. R + 1
      PROVE  /\ Chat(x[n]) /\ d <= Top(x[n]) /\ Top(x[n]) <= i
             /\ \A m \in 1 .. n - 1 : Top(x[n]) <= Top(x[m])
  <2>1. CASE n = R + 1
    <3>1. \A m \in 1 .. n - 1 : m \in 1 .. R
      BY <1>2, <2>1
    <3> QED BY <1>2, <1>3, <1>4, <2>1, <3>1
  <2>2. CASE n \in 1 .. R
    <3>1. \A m \in 1 .. n - 1 : m \in 1 .. R
      BY <1>2, <2>2
    <3>2. d <= Top(u.redo[n])
      BY <1>2, <1>3, <2>2
    <3> QED BY <1>2, <1>4, <2>2, <3>1, <3>2
  <2> QED BY <1>2, <2>1, <2>2
<1> DEFINE v == [undo |-> u.undo, redo |-> x]
<1>7. v.undo = u.undo /\ v.redo = x
  OBVIOUS
<1> HIDE DEF v
<1>8. Stacks(v, d, i)
  BY <1>1, <1>4, <1>5, <1>6, <1>7 DEF Stacks, N
<1>9. d <= i
  BY <1>3
<1> QED BY <1>3, <1>8, <1>9 DEF v, x, d

\* Redo: the thread becomes what the redo stack ends with.
LEMMA StacksRedo ==
    ASSUME NEW u, NEW c \in Nat, NEW i \in Nat, Stacks(u, c, i), u.redo # <<>>
    PROVE  /\ Chat(Last(u.redo)) /\ Top(Last(u.redo)) \in Nat /\ Top(Last(u.redo)) <= i
           /\ Stacks([undo |-> u.undo, redo |-> Front(u.redo)], Top(Last(u.redo)), i)
<1> DEFINE N == Len(u.undo)
           R == Len(u.redo)
           d == Top(Last(u.redo))
           x == Front(u.redo)
<1>1. /\ Listed(u.undo) /\ N \in Nat
      /\ \A n \in 1 .. N : /\ Chat(u.undo[n]) /\ Top(u.undo[n]) \in Nat /\ Top(u.undo[n]) <= c
                           /\ \A m \in 1 .. n - 1 : Top(u.undo[m]) <= Top(u.undo[n])
  BY ChatFacts DEF Stacks, Listed
<1>2. /\ Listed(u.redo) /\ R \in Nat /\ R \in 1 .. R
      /\ \A n \in 1 .. R : /\ Chat(u.redo[n]) /\ Top(u.redo[n]) \in Nat /\ c <= Top(u.redo[n]) /\ Top(u.redo[n]) <= i
                           /\ \A m \in 1 .. n - 1 : Top(u.redo[n]) <= Top(u.redo[m])
  <2>1. Listed(u.redo) /\ R \in Nat /\ \A n \in 1 .. R : Chat(u.redo[n])
    BY DEF Stacks, Listed
  <2>2. R # 0
    <3>1. u.redo = [k \in 1 .. R |-> u.redo[k]]
      BY <2>1 DEF Listed
    <3> QED BY <3>1
  <2> QED BY <2>1, <2>2, ChatFacts DEF Stacks
<1>3. d = Top(u.redo[R]) /\ d \in Nat /\ c <= d /\ d <= i /\ Chat(Last(u.redo))
  BY <1>2 DEF Last
<1>4. Listed(x) /\ Len(x) = R - 1 /\ \A n \in 1 .. R - 1 : x[n] = u.redo[n]
  <2>1. DOMAIN u.redo = 1 .. R /\ x = SubSeq(u.redo, 1, R - 1)
    BY <1>2, ListedFacts DEF Front
  <2>2. Listed(x) /\ Len(x) = R - 1
    BY <1>2, <2>1, ListedFacts, SMTT(30), ZenonT(30)
  <2>3. u.redo \in Seq({u.redo[k] : k \in 1 .. R})
    <3>1. u.redo = [k \in 1 .. R |-> u.redo[k]]
      BY <1>2 DEF Listed
    <3> HIDE DEF R
    <3>2. u.redo \in [1 .. R -> {u.redo[k] : k \in 1 .. R}]
      BY <3>1
    <3> QED BY <1>2, <3>2, SeqDef
  <2>4. \A n \in 1 .. R - 1 : x[n] = u.redo[n]
    BY <1>2, <2>1, <2>3, SubSeqProperties
  <2> QED BY <2>2, <2>4
<1> HIDE DEF x, d, N, R
<1>5. ASSUME NEW n \in 1 .. N PROVE Top(u.undo[n]) <= d
  BY <1>1, <1>3
<1>6. ASSUME NEW n \in 1 .. R - 1
      PROVE  /\ Chat(x[n]) /\ d <= Top(x[n]) /\ Top(x[n]) <= i
             /\ \A m \in 1 .. n - 1 : Top(x[n]) <= Top(x[m])
  <2>1. n \in 1 .. R /\ \A m \in 1 .. n - 1 : m \in 1 .. R - 1
    BY <1>2
  <2>2. d <= Top(u.redo[n])
    BY <1>2, <1>3
  <2> QED BY <1>2, <1>4, <2>1, <2>2
<1> DEFINE v == [undo |-> u.undo, redo |-> x]
<1>7. v.undo = u.undo /\ v.redo = x
  OBVIOUS
<1> HIDE DEF v
<1>8. Stacks(v, d, i)
  BY <1>1, <1>4, <1>5, <1>6, <1>7 DEF Stacks, N
<1> QED BY <1>3, <1>8 DEF v, x, d

\* Resume: the thread becomes the nth checkpoint, the ones before it stay.
LEMMA StacksResume ==
    ASSUME NEW u, NEW c \in Nat, NEW i \in Nat, c <= i, Stacks(u, c, i), NEW n \in DOMAIN u.undo
    PROVE  /\ Chat(u.undo[n]) /\ Top(u.undo[n]) \in Nat /\ Top(u.undo[n]) <= i
           /\ Stacks([undo |-> SubSeq(u.undo, 1, n - 1), redo |-> <<>>], Top(u.undo[n]), i)
<1> DEFINE N == Len(u.undo)
           x == SubSeq(u.undo, 1, n - 1)
<1>1. /\ Listed(u.undo) /\ N \in Nat /\ DOMAIN u.undo = 1 .. N
      /\ \A k \in 1 .. N : /\ Chat(u.undo[k]) /\ Top(u.undo[k]) \in Nat /\ Top(u.undo[k]) <= c
                           /\ \A m \in 1 .. k - 1 : Top(u.undo[m]) <= Top(u.undo[k])
  BY ChatFacts, ListedFacts DEF Stacks, Listed
<1>2. n \in 1 .. N
  BY <1>1
<1>3. Listed(x) /\ Len(x) = n - 1 /\ \A k \in 1 .. n - 1 : x[k] = u.undo[k]
  <2>1. Listed(x) /\ Len(x) = n - 1
    BY <1>1, ListedFacts
  <2>2. u.undo \in Seq({u.undo[k] : k \in 1 .. N})
    <3>1. u.undo = [k \in 1 .. N |-> u.undo[k]]
      BY <1>1 DEF Listed
    <3> HIDE DEF N
    <3>2. u.undo \in [1 .. N -> {u.undo[k] : k \in 1 .. N}]
      BY <3>1
    <3> QED BY <1>1, <3>2, SeqDef
  <2>3. \A k \in 1 .. n - 1 : x[k] = u.undo[k]
    BY <1>1, <1>2, <2>2, SubSeqProperties
  <2> QED BY <2>1, <2>3
<1> HIDE DEF x, N
<1>4. ASSUME NEW k \in 1 .. n - 1
      PROVE  Chat(x[k]) /\ Top(x[k]) <= Top(u.undo[n]) /\ \A m \in 1 .. k - 1 : Top(x[m]) <= Top(x[k])
  <2>1. k \in 1 .. N /\ \A m \in 1 .. k - 1 : m \in 1 .. n - 1
    BY <1>1, <1>2
  <2> QED BY <1>1, <1>2, <1>3, <2>1
<1> DEFINE v == [undo |-> x, redo |-> <<>>]
<1>5. v.undo = x /\ v.redo = <<>>
  OBVIOUS
<1> HIDE DEF v
<1>6. Stacks(v, Top(u.undo[n]), i)
  BY <1>3, <1>4, <1>5, SeqsAreListed DEF Stacks
<1>7. Chat(u.undo[n]) /\ Top(u.undo[n]) \in Nat /\ Top(u.undo[n]) <= i
  BY <1>1, <1>2
<1> QED BY <1>6, <1>7 DEF v, x

-----------------------------------------------------------------------------
(* What the handlers make of a thread and its undo manager. *)

\* Thread th and undo manager u when i inputs have come.
BranchOK(th, u, i) ==
    /\ Good(th.turns) /\ Cur(th.turns) <= i /\ Stacks(u, Cur(th.turns), i)
    /\ th.state = "AwaitingApproval" => th.turns # <<>> /\ th.req.input = Cur(th.turns)

\* A thread with no more in it than its state, turns, request and auth mode.
LEMMA ThreadFields ==
    ASSUME NEW th, ThreadOK(th), NEW turns, NEW st
    PROVE  /\ [th EXCEPT !.turns = turns, !.state = st].turns = turns /\ [th EXCEPT !.turns = turns, !.state = st].state = st
           /\ [th EXCEPT !.state = st, !.turns = turns].turns = turns /\ [th EXCEPT !.state = st, !.turns = turns].state = st
           /\ [th EXCEPT !.turns = turns].turns = turns /\ [th EXCEPT !.turns = turns].state = th.state
           /\ [th EXCEPT !.turns = turns].req = th.req
<1>1. th = [state |-> th.state, turns |-> th.turns, req |-> th.req, auth |-> th.auth]
  BY DEF ThreadOK
<1> QED BY <1>1

\* A thread that says the same and waits for nothing new.
LEMMA SameBranch ==
    ASSUME NEW th, NEW u, NEW i, BranchOK(th, u, i), NEW x, x.turns = th.turns,
           x.state = "AwaitingApproval" => th.state = "AwaitingApproval" /\ x.req = th.req
    PROVE  BranchOK(x, u, i)
  BY DEF BranchOK

\* Undo, redo and resume put the thread at the end of a checkpoint.
LEMMA BackBranch ==
    ASSUME NEW th, ThreadOK(th), NEW msgs, Chat(msgs), NEW u, NEW i, Top(msgs) <= i, Stacks(u, Top(msgs), i)
    PROVE  BranchOK(RestoreFromMessages(th, msgs), u, i)
<1> DEFINE x == RestoreFromMessages(th, msgs)
<1>1. x.state = "Idle" /\ ThreadOK(x)
  BY TurnsOK
<1>2. Good(x.turns) /\ Cur(x.turns) = Top(msgs)
  BY ChatFacts
<1> HIDE DEF x
<1>3. BranchOK(x, u, i)
  BY <1>1, <1>2 DEF BranchOK
<1> QED BY <1>3 DEF x

\* process_undo, process_redo and process_resume.
LEMMA UndoBranch ==
    ASSUME NEW th, ThreadOK(th), NEW u, NEW i \in Nat, BranchOK(th, u, i)
    PROVE  /\ u.undo # <<>> => BranchOK(RestoreFromMessages(th, Last(u.undo)),
                                        [undo |-> u.undo, redo |-> Append(u.redo, Messages(th.turns))], i)
           /\ u.redo # <<>> => BranchOK(RestoreFromMessages(th, Last(u.redo)),
                                        [undo |-> u.undo, redo |-> Front(u.redo)], i)
           /\ \A n \in DOMAIN u.undo : BranchOK(RestoreFromMessages(th, u.undo[n]),
                                                [undo |-> SubSeq(u.undo, 1, n - 1), redo |-> <<>>], i)
<1> DEFINE c == Cur(th.turns)
           msgs == Messages(th.turns)
<1>1. Good(th.turns) /\ c \in Nat /\ c <= i /\ Stacks(u, c, i)
  BY GoodCur DEF BranchOK
<1>2. Chat(msgs) /\ Top(msgs) = c
  BY <1>1, TopOfMessages DEF Chat
<1> HIDE DEF c, msgs
<1>3. ASSUME u.undo # <<>>
      PROVE  BranchOK(RestoreFromMessages(th, Last(u.undo)), [undo |-> u.undo, redo |-> Append(u.redo, msgs)], i)
  <2> DEFINE v == [undo |-> u.undo, redo |-> Append(u.redo, msgs)]
             back == Last(u.undo)
  <2>1. Chat(back) /\ Top(back) <= i /\ Stacks(v, Top(back), i)
    BY <1>1, <1>2, <1>3, StacksUndo
  <2> HIDE DEF v, back
  <2>2. BranchOK(RestoreFromMessages(th, back), v, i)
    BY <2>1, BackBranch
  <2> QED BY <2>2 DEF v, back
<1>4. ASSUME u.redo # <<>>
      PROVE  BranchOK(RestoreFromMessages(th, Last(u.redo)), [undo |-> u.undo, redo |-> Front(u.redo)], i)
  <2> DEFINE v == [undo |-> u.undo, redo |-> Front(u.redo)]
             back == Last(u.redo)
  <2>1. Chat(back) /\ Top(back) <= i /\ Stacks(v, Top(back), i)
    BY <1>1, <1>4, StacksRedo
  <2> HIDE DEF v, back
  <2>2. BranchOK(RestoreFromMessages(th, back), v, i)
    BY <2>1, BackBranch
  <2> QED BY <2>2 DEF v, back
<1>5. ASSUME NEW n \in DOMAIN u.undo
      PROVE  BranchOK(RestoreFromMessages(th, u.undo[n]), [undo |-> SubSeq(u.undo, 1, n - 1), redo |-> <<>>], i)
  <2> DEFINE v == [undo |-> SubSeq(u.undo, 1, n - 1), redo |-> <<>>]
             back == u.undo[n]
  <2>1. Chat(back) /\ Top(back) <= i /\ Stacks(v, Top(back), i)
    BY <1>1, StacksResume
  <2> HIDE DEF v, back
  <2>2. BranchOK(RestoreFromMessages(th, back), v, i)
    BY <2>1, BackBranch
  <2> QED BY <2>2 DEF v, back
<1> QED BY <1>3, <1>4, <1>5 DEF msgs

\* Compaction, a new turn on a checkpoint, /clear.
LEMMA TurnsBranch ==
    ASSUME NEW th, ThreadOK(th), NEW u, NEW i \in Nat, BranchOK(th, u, i), NEW turns \in {th.turns, Truncate(th.turns)}
    PROVE  /\ BranchOK([th EXCEPT !.turns = turns], u, i)
           /\ LET x == StartTurn([th EXCEPT !.turns = turns], i + 1)
              IN  BranchOK(x, Checkpoint(u, Messages(turns)), i + 1) /\ x.turns # <<>> /\ Cur(x.turns) = i + 1
           /\ BranchOK([th EXCEPT !.turns = <<>>, !.state = "Idle"], NewUndo, i)
<1> DEFINE c == Cur(th.turns)
<1>1. Good(th.turns) /\ c \in Nat /\ c <= i /\ Stacks(u, c, i)
  BY GoodCur DEF BranchOK
<1>2. Good(turns) /\ Cur(turns) = c
  BY <1>1, GoodTruncate
<1>3. turns = <<>> <=> th.turns = <<>>
  <2>1. th.turns # <<>> => c > 0
    BY <1>1, GoodCur
  <2>2. turns # <<>> => Cur(turns) > 0
    BY <1>2, GoodCur
  <2>3. (th.turns = <<>> => c = 0) /\ (turns = <<>> => Cur(turns) = 0)
    BY DEF Cur
  <2> HIDE DEF c
  <2> QED BY <1>1, <1>2, <2>1, <2>2, <2>3
<1> DEFINE x == [th EXCEPT !.turns = turns]
<1>4. x.turns = turns /\ x.state = th.state /\ x.req = th.req /\ ThreadOK(x)
  <2>1. x.turns = turns /\ x.state = th.state /\ x.req = th.req
    BY ThreadFields
  <2>2. ThreadOK(x)
    BY FieldsOK, Zenon
  <2> QED BY <2>1, <2>2
<1> HIDE DEF x
<1>5. BranchOK(x, u, i)
  BY <1>1, <1>2, <1>3, <1>4 DEF BranchOK
<1> DEFINE y == StartTurn(x, i + 1)
           more == Append(turns, Turn(i + 1))
           v == Checkpoint(u, Messages(turns))
<1>6. y.turns = more /\ y.state = "Processing"
  <2>1. y = [x EXCEPT !.turns = more, !.state = "Processing"]
    BY <1>4 DEF StartTurn
  <2> HIDE DEF more, y
  <2> QED BY <1>4, <2>1, ThreadFields
<1>7. Good(more) /\ Cur(more) = i + 1
  BY <1>1, <1>2, GoodAppend
<1>8. more # <<>>
  <2>1. turns \in Seq(TurnRec) /\ Turn(i + 1) \in TurnRec
    BY <1>2 DEF Good, Turn, TurnRec
  <2> QED BY <2>1, AppendProperties
<1>9. Stacks(v, i + 1, i + 1)
  <2> DEFINE msgs == Messages(turns)
  <2>1. Chat(msgs) /\ Top(msgs) = c
    BY <1>2, TopOfMessages DEF Chat
  <2>2. i + 1 \in Nat /\ c <= i + 1
    BY <1>1
  <2> HIDE DEF msgs, c
  <2>3. Stacks(Checkpoint(u, msgs), i + 1, i + 1)
    BY <1>1, <2>1, <2>2, StacksPush
  <2> QED BY <2>3 DEF msgs
<1> HIDE DEF y, more, v
<1>10. BranchOK(y, v, i + 1) /\ y.turns # <<>> /\ Cur(y.turns) = i + 1
  BY <1>6, <1>7, <1>8, <1>9 DEF BranchOK
<1>11. ASSUME NEW b, b = <<>> PROVE BranchOK([th EXCEPT !.turns = b, !.state = "Idle"], NewUndo, i)
  <2> DEFINE z == [th EXCEPT !.turns = b, !.state = "Idle"]
  <2>1. z.turns = b /\ z.state = "Idle"
    BY ThreadFields
  <2>2. Good(b) /\ Cur(b) = 0 /\ Stacks(NewUndo, 0, i)
    BY <1>11, StacksNew DEF Good, Cur
  <2> HIDE DEF z
  <2>3. BranchOK(z, NewUndo, i)
    BY <2>1, <2>2 DEF BranchOK
  <2> QED BY <2>3 DEF z
<1>12. BranchOK([th EXCEPT !.turns = <<>>, !.state = "Idle"], NewUndo, i)
  BY <1>11, Zenon
<1> QED BY <1>5, <1>10, <1>12 DEF x, y, v

\* The end of a turn that works on the last input, and an interrupt.
LEMMA EndBranch ==
    ASSUME NEW th, ThreadOK(th), NEW u, NEW i, BranchOK(th, u, i)
    PROVE  /\ BranchOK(Interrupt(th), u, i)
           /\ BranchOK(FailTurn(th), u, i)
           /\ th.turns # <<>> => \A j : j = Cur(th.turns) => BranchOK(CompleteTurn(th, j), u, i)
           /\ th.turns # <<>> => \A req \in Question : req.input = Cur(th.turns) => BranchOK(AwaitApproval(th, req), u, i)
<1> DEFINE c == Cur(th.turns)
           last == Last(th.turns)
<1>1. Good(th.turns) /\ c \in Nat /\ c <= i /\ Stacks(u, c, i)
  BY GoodCur DEF BranchOK
<1>2. ASSUME NEW turn, th.turns # <<>> => turn \in TurnRec /\ turn.input = last.input /\ turn.resp \in {0, turn.input},
             NEW st \in {"Idle", "Interrupted"}, NEW x, x = [th EXCEPT !.state = st, !.turns = SetLast(th.turns, turn)]
      PROVE  BranchOK(x, u, i)
  <2> DEFINE y == SetLast(th.turns, turn)
  <2>1. Good(y) /\ Cur(y) = c
    <3>1. CASE th.turns = <<>>
      BY <1>1, <3>1 DEF SetLast
    <3>2. CASE th.turns # <<>>
      BY <1>1, <1>2, <3>2, GoodSetLast
    <3> QED BY <3>1, <3>2
  <2> HIDE DEF y
  <2>2. x.turns = y /\ x.state = st
    BY <1>2, ThreadFields DEF y
  <2> QED BY <1>1, <2>1, <2>2 DEF BranchOK
<1>3. ASSUME th.turns # <<>>
      PROVE  /\ last \in TurnRec /\ last.input = c /\ last.resp \in {0, last.input}
             /\ \A st \in {"Failed", "Interrupted"} : LET turn == [last EXCEPT !.state = st]
                   IN  turn \in TurnRec /\ turn.input = last.input /\ turn.resp \in {0, turn.input}
             /\ LET turn == [last EXCEPT !.resp = c, !.state = "Completed"]
                   IN  turn \in TurnRec /\ turn.input = last.input /\ turn.resp \in {0, turn.input}
  <2>1. th.turns \in Seq(TurnRec)
    BY <1>1 DEF Good
  <2>2. Len(th.turns) \in 1 .. Len(th.turns)
    BY <1>3, <2>1, EmptySeq
  <2>3. last \in TurnRec /\ last.input = c /\ last.resp \in {0, last.input}
    BY <1>1, <1>3, <2>1, <2>2 DEF Good, Last, Cur
  <2> HIDE DEF last, c
  <2> QED BY <1>1, <2>3 DEF TurnRec
<1>4. BranchOK(Interrupt(th), u, i)
  <2>1. Interrupt(th) = [th EXCEPT !.state = "Interrupted", !.turns = SetLast(th.turns, [last EXCEPT !.state = "Interrupted"])]
    BY DEF Interrupt
  <2> DEFINE turn == [last EXCEPT !.state = "Interrupted"]
  <2>2. th.turns # <<>> => turn \in TurnRec /\ turn.input = last.input /\ turn.resp \in {0, turn.input}
    BY <1>3
  <2> HIDE DEF turn
  <2> QED BY <1>2, <2>1, <2>2 DEF turn
<1>5. BranchOK(FailTurn(th), u, i)
  <2>1. FailTurn(th) = [th EXCEPT !.state = "Idle", !.turns = SetLast(th.turns, [last EXCEPT !.state = "Failed"])]
    BY DEF FailTurn
  <2> DEFINE turn == [last EXCEPT !.state = "Failed"]
  <2>2. th.turns # <<>> => turn \in TurnRec /\ turn.input = last.input /\ turn.resp \in {0, turn.input}
    BY <1>3
  <2> HIDE DEF turn
  <2> QED BY <1>2, <2>1, <2>2 DEF turn
<1>6. ASSUME th.turns # <<>> PROVE BranchOK(CompleteTurn(th, c), u, i)
  <2>1. CompleteTurn(th, c) = [th EXCEPT !.state = "Idle",
                                         !.turns = SetLast(th.turns, [last EXCEPT !.resp = c, !.state = "Completed"])]
    BY DEF CompleteTurn
  <2> DEFINE turn == [last EXCEPT !.resp = c, !.state = "Completed"]
  <2>2. turn \in TurnRec /\ turn.input = last.input /\ turn.resp \in {0, turn.input}
    BY <1>3, <1>6
  <2> HIDE DEF turn
  <2> QED BY <1>2, <2>1, <2>2 DEF turn
<1>7. ASSUME th.turns # <<>>, NEW req \in Question, req.input = c PROVE BranchOK(AwaitApproval(th, req), u, i)
  <2> DEFINE x == AwaitApproval(th, req)
  <2>1. x.req = req /\ x.turns = th.turns
    <3>1. th = [state |-> th.state, turns |-> th.turns, req |-> th.req, auth |-> th.auth]
      BY DEF ThreadOK
    <3>2. x = [th EXCEPT !.state = "AwaitingApproval", !.req = req]
      BY DEF AwaitApproval
    <3> HIDE DEF x
    <3>3. x = [state |-> "AwaitingApproval", turns |-> th.turns, req |-> req, auth |-> th.auth]
      BY <3>1, <3>2
    <3> QED BY <3>3
  <2> HIDE DEF x
  <2>2. BranchOK(x, u, i)
    BY <1>1, <1>7, <2>1 DEF BranchOK
  <2> QED BY <2>2 DEF x
<1> QED BY <1>4, <1>5, <1>6, <1>7

-----------------------------------------------------------------------------
(* The invariant of the branches. *)

\* Every thread that was not hydrated, with its undo manager.
BranchesOK ==
    \A s \in DOMAIN sess : \A t \in DOMAIN sess[s].threads :
        t \notin restored => BranchOK(sess[s].threads[t], undo[t], inputs)

\* Such a thread is in one session.
OneHome ==
    \A s, p \in DOMAIN sess : \A t \in DOMAIN sess[s].threads :
        t \in DOMAIN sess[p].threads /\ t \notin restored => s = p

\* The turn the loop works on is the last of its thread.
LastTurn ==
    loop.at \in Places /\ loop.t \notin restored =>
        LET turns == sess[loop.s].threads[loop.t].turns IN turns # <<>> /\ Cur(turns) = loop.i

BranchInv == BranchesOK /\ OneHome /\ LastTurn

\* From sessions S to sessions U only thread q of session p changes, or is new.
Sole(S, U, p, q, th) ==
    \A s \in DOMAIN U : \A t \in DOMAIN U[s].threads :
        \/ s = p /\ t = q /\ U[s].threads[t] = th
        \/ /\ s # p \/ t # q
           /\ s \in DOMAIN S /\ t \in DOMAIN S[s].threads /\ U[s].threads[t] = S[s].threads[t]

\* Every thread of U is one of S, with the same turns.
SameTurns(S, U) ==
    \A s \in DOMAIN U : \A t \in DOMAIN U[s].threads :
        s \in DOMAIN S /\ t \in DOMAIN S[s].threads /\ U[s].threads[t].turns = S[s].threads[t].turns

\* Undo managers stay or are cleared.
UndoStays == \A t \in ThreadIds : undo'[t] \in {undo[t], NewUndo}

\* A thread is set, or put into a session; a session is freed.
LEMMA SoleFacts ==
    ASSUME NEW ids, NEW S, SessOK(S, ids), NEW s \in DOMAIN S, NEW th, ThreadOK(th)
    PROVE  /\ \A t \in DOMAIN S[s].threads : Sole(S, SetIn(S, s, t, th), s, t, th)
           /\ \A t \in ids : Sole(S, PutIn(S, s, t, th), s, t, th)
           /\ \A t : Sole(S, FreeIn(S, s), s, t, th)
<1>0. SessionOK(S[s], ids)
  BY DEF SessOK
<1>1. ASSUME NEW t \in DOMAIN S[s].threads PROVE Sole(S, SetIn(S, s, t, th), s, t, th)
  <2> DEFINE U == SetIn(S, s, t, th)
             x == SetThread(S[s], t, th)
  <2>1. U = SetSession(S, s, x)
    <3>1. S[s] = [threads |-> S[s].threads, active |-> S[s].active, auto |-> S[s].auto]
      BY <1>0 DEF SessionOK
    <3>2. [S[s] EXCEPT !.threads[t] = th] = x
      BY <3>1 DEF SetThread
    <3>3. U = [S EXCEPT ![s] = [S[s] EXCEPT !.threads[t] = th]]
      BY DEF SetIn
    <3> QED BY <3>2, <3>3 DEF SetSession
  <2>2. /\ SessionOK(x, ids) /\ DOMAIN x.threads = DOMAIN S[s].threads
        /\ \A u \in DOMAIN S[s].threads : x.threads[u] = IF u = t THEN th ELSE S[s].threads[u]
    BY <1>0, SetThreadOK
  <2> HIDE DEF U, x
  <2>3. DOMAIN U = DOMAIN S /\ \A p \in DOMAIN S : U[p] = IF p = s THEN x ELSE S[p]
    BY <2>1, <2>2, SessionsChange
  <2>4. Sole(S, U, s, t, th)
    BY <2>2, <2>3 DEF Sole
  <2> QED BY <2>4 DEF U
<1>2. ASSUME NEW t \in ids PROVE Sole(S, PutIn(S, s, t, th), s, t, th)
  <2> DEFINE U == PutIn(S, s, t, th)
             x == WithThread(S[s], t, th)
  <2>1. U = SetSession(S, s, x)
    BY DEF PutIn, SetSession
  <2>2. /\ SessionOK(x, ids) /\ DOMAIN x.threads = DOMAIN S[s].threads \cup {t}
        /\ \A u \in DOMAIN S[s].threads \cup {t} : x.threads[u] = IF u = t THEN th ELSE S[s].threads[u]
    BY <1>0, WithThreadOK
  <2> HIDE DEF U, x
  <2>3. DOMAIN U = DOMAIN S /\ \A p \in DOMAIN S : U[p] = IF p = s THEN x ELSE S[p]
    BY <2>1, <2>2, SessionsChange
  <2>4. Sole(S, U, s, t, th)
    BY <2>2, <2>3 DEF Sole
  <2> QED BY <2>4 DEF U
<1>3. ASSUME NEW t PROVE Sole(S, FreeIn(S, s), s, t, th)
  <2> DEFINE U == FreeIn(S, s)
  <2>1. U = SetSession(S, s, NewSession) /\ SessionOK(NewSession, ids) /\ DOMAIN NewSession.threads = {}
    BY NewIsOK DEF FreeIn, SetSession
  <2> HIDE DEF U
  <2>3. DOMAIN U = DOMAIN S /\ \A p \in DOMAIN S : U[p] = IF p = s THEN NewSession ELSE S[p]
    BY <2>1, SessionsChange
  <2>4. Sole(S, U, s, t, th)
    BY <2>1, <2>3 DEF Sole
  <2> QED BY <2>4 DEF U
<1> QED BY <1>1, <1>2, <1>3

\* The same with a session made for the user.
LEMMA SoleFromLive ==
    ASSUME NEW ids, SessOK(sess, ids), live \in 0 .. Len(sess), NEW U, NEW p, NEW q, NEW th, Sole(SessionsWithLive, U, p, q, th)
    PROVE  Sole(sess, U, p, q, th)
<1>1. /\ \A s \in DOMAIN sess : SessionsWithLive[s] = sess[s]
      /\ \A s \in DOMAIN SessionsWithLive : s \notin DOMAIN sess => DOMAIN SessionsWithLive[s].threads = {}
  <2> HIDE DEF SessionsWithLive
  <2> QED BY LiveIsThere, NewIsOK
<1> HIDE DEF SessionsWithLive
<1> QED BY <1>1 DEF Sole

\* A step that leaves all turns alone and lets nothing new wait.
LEMMA SameTurnsKeep ==
    ASSUME BaseOK, BranchesOK, OneHome, SameTurns(sess, sess'), StillWaits(sess, sess'), UndoStays,
           UNCHANGED <<inputs, restored>>
    PROVE  BranchesOK' /\ OneHome'
<1>1. ASSUME NEW s \in DOMAIN sess', NEW t \in DOMAIN sess'[s].threads, t \notin restored'
      PROVE  BranchOK(sess'[s].threads[t], undo'[t], inputs')
  <2> DEFINE x == sess'[s].threads[t]
             th == sess[s].threads[t]
  <2>1. s \in DOMAIN sess /\ t \in DOMAIN sess[s].threads /\ x.turns = th.turns
    BY <1>1 DEF SameTurns
  <2>2. x.state = "AwaitingApproval" => th.state = "AwaitingApproval" /\ x.req = th.req
    BY <1>1 DEF StillWaits
  <2>3. BranchOK(th, undo[t], inputs)
    BY <1>1, <2>1 DEF BranchesOK
  <2>4. SessionOK(sess[s], ThreadIds)
    BY <2>1 DEF BaseOK, SessOK
  <2>5. t \in ThreadIds
    BY <2>1, <2>4 DEF SessionOK
  <2> HIDE DEF x, th
  <2>6. BranchOK(x, undo[t], inputs)
    BY <2>1, <2>2, <2>3, SameBranch
  <2>7. BranchOK(x, NewUndo, inputs)
    BY <2>6, StacksNew DEF BranchOK
  <2> QED BY <2>5, <2>6, <2>7 DEF UndoStays, x
<1>2. BranchesOK'
  BY <1>1 DEF BranchesOK
<1>3. OneHome'
  BY DEF SameTurns, OneHome
<1> QED BY <1>2, <1>3

\* A step that changes one thread, or makes it, and its undo manager.
LEMMA SoleKeeps ==
    ASSUME BaseOK, BranchesOK, OneHome, NEW p, NEW q, NEW th, Sole(sess, sess', p, q, th), inputs' \in Nat, inputs <= inputs',
           restored \subseteq restored',
           \A t \in ThreadIds : t # q => undo'[t] = undo[t],
           q \notin restored' => BranchOK(th, undo'[q], inputs'),
           q \in restored' \/ q \notin ThreadIds \/ (p \in DOMAIN sess /\ q \in DOMAIN sess[p].threads)
    PROVE  BranchesOK' /\ OneHome'
<1>0. inputs \in Nat
  BY DEF BaseOK
<1>1. ASSUME NEW s \in DOMAIN sess, NEW t \in DOMAIN sess[s].threads
      PROVE  t \in ThreadIds /\ (t \notin restored => BranchOK(sess[s].threads[t], undo[t], inputs))
  <2>1. SessionOK(sess[s], ThreadIds)
    BY DEF BaseOK, SessOK
  <2> QED BY <2>1 DEF SessionOK, BranchesOK
<1>2. ASSUME NEW s \in DOMAIN sess, q \in DOMAIN sess[s].threads, q \notin restored' PROVE s = p
  BY <1>1, <1>2 DEF OneHome
<1>3. ASSUME NEW s \in DOMAIN sess', NEW t \in DOMAIN sess'[s].threads, t \notin restored'
      PROVE  BranchOK(sess'[s].threads[t], undo'[t], inputs')
  <2>1. CASE s = p /\ t = q /\ sess'[s].threads[t] = th
    BY <1>3, <2>1
  <2>2. CASE /\ s # p \/ t # q
             /\ s \in DOMAIN sess /\ t \in DOMAIN sess[s].threads /\ sess'[s].threads[t] = sess[s].threads[t]
    <3>1. t # q /\ t \in ThreadIds /\ undo'[t] = undo[t] /\ t \notin restored
      BY <1>1, <1>2, <1>3, <2>2
    <3> DEFINE x == sess[s].threads[t]
    <3>2. BranchOK(x, undo[t], inputs)
      BY <1>1, <2>2, <3>1
    <3> HIDE DEF x
    <3>3. Stacks(undo[t], Cur(x.turns), inputs')
      BY <1>0, <3>2, StacksLater DEF BranchOK
    <3>4. Cur(x.turns) \in Nat
      BY <3>2, GoodCur DEF BranchOK
    <3>5. Cur(x.turns) <= inputs'
      <4>1. \A a, b, c \in Nat : a <= b /\ b <= c => a <= c
        OBVIOUS
      <4>2. Cur(x.turns) <= inputs
        BY <3>2 DEF BranchOK
      <4> QED BY <1>0, <3>4, <4>1, <4>2
    <3>6. BranchOK(x, undo[t], inputs')
      BY <3>2, <3>3, <3>5 DEF BranchOK
    <3> QED BY <2>2, <3>1, <3>6 DEF x
  <2> QED BY <2>1, <2>2 DEF Sole
<1>4. BranchesOK'
  BY <1>3 DEF BranchesOK
<1>5. ASSUME NEW s \in DOMAIN sess', NEW r \in DOMAIN sess', NEW t \in DOMAIN sess'[s].threads,
             t \in DOMAIN sess'[r].threads, t \notin restored'
      PROVE  s = r
  <2>1. CASE t = q
    <3>1. s = p
      BY <1>2, <1>5, <2>1 DEF Sole
    <3>2. r = p
      BY <1>2, <1>5, <2>1 DEF Sole
    <3> QED BY <3>1, <3>2
  <2>2. CASE t # q
    BY <1>5, <2>2 DEF Sole, OneHome
  <2> QED BY <2>1, <2>2
<1>6. OneHome'
  BY <1>5 DEF OneHome
<1> QED BY <1>4, <1>6

\* The undo managers, one of which is set.
LEMMA UndoManagers ==
    ASSUME BaseOK
    PROVE  /\ DOMAIN undo = ThreadIds
           /\ \A t \in ThreadIds : /\ undo = SetUndo(undo, t, undo[t])
                                   /\ undo[t] = [undo |-> undo[t].undo, redo |-> undo[t].redo]
           /\ \A t \in ThreadIds : \A x : /\ SetUndo(undo, t, x)[t] = x
                                          /\ \A u \in ThreadIds : u # t => SetUndo(undo, t, x)[u] = undo[u]
<1>1. Listed(undo) /\ Len(undo) = Len(db) /\ db \in Seq(Seq(Message)) /\ \A t \in DOMAIN undo : UndoOK(undo[t])
  BY DEF BaseOK
<1>2. DOMAIN undo = ThreadIds
  BY <1>1, ListedFacts DEF ThreadIds
<1>3. undo = [t \in ThreadIds |-> undo[t]]
  BY <1>1, <1>2 DEF Listed
<1> QED BY <1>1, <1>2, <1>3 DEF SetUndo, UndoOK

\* The thread a message is handled in says what it said.
LEMMA HereBranch ==
    ASSUME BaseOK, LoopOK, BranchesOK, loop.at \in {"dispatch", "token"} \cup Places
    PROVE  /\ Here.turns = sess[loop.s].threads[loop.t].turns
           /\ loop.t \notin restored => /\ BranchOK(Here, undo[loop.t], inputs)
                                        /\ BranchOK(sess[loop.s].threads[loop.t], undo[loop.t], inputs)
<1> DEFINE th == sess[loop.s].threads[loop.t]
<1>1. /\ loop.s \in DOMAIN sess /\ loop.t \in DOMAIN sess[loop.s].threads /\ ThreadOK(th)
      /\ Here.state = th.state /\ Here.req = th.req
  BY HereFacts DEF Thread
<1>2. Here = [th EXCEPT !.auth = FALSE]
  BY DEF Here, Thread
<1> HIDE DEF th, Here
<1>3. [th EXCEPT !.auth = FALSE].turns = th.turns
  BY <1>1, FieldsOK
<1>4. Here.turns = th.turns
  BY <1>2, <1>3
<1>5. ASSUME loop.t \notin restored PROVE BranchOK(th, undo[loop.t], inputs)
  BY <1>1, <1>5 DEF BranchesOK, th
<1>6. ASSUME loop.t \notin restored PROVE BranchOK(Here, undo[loop.t], inputs)
  BY <1>1, <1>4, <1>5, <1>6, SameBranch
<1> QED BY <1>4, <1>5, <1>6 DEF th

\* A handler replies with a thread that goes with its undo manager.
LEMMA ReplyBranch ==
    ASSUME BaseOK, LoopOK, BranchesOK, OneHome, loop.at \in {"dispatch", "token"} \cup Places,
           NEW th, ThreadOK(th), Reply(th), NEW x, undo' = SetUndo(undo, loop.t, x), UNCHANGED <<inputs, restored>>,
           loop.t \notin restored => BranchOK(th, x, inputs)
    PROVE  BranchInv'
<1>1. /\ loop.s \in DOMAIN sess /\ loop.t \in DOMAIN sess[loop.s].threads /\ loop.t \in ThreadIds
      /\ SessOK(sess, ThreadIds) /\ inputs \in Nat
  BY HereFacts DEF BaseOK
<1> DEFINE U == SetIn(sess, loop.s, loop.t, th)
           V == FreeIn(sess, loop.s)
<1>2. (sess' = U \/ sess' = V) /\ loop' = Idle
  BY DEF Reply, Done, SetIn, FreeIn
<1>3. Sole(sess, U, loop.s, loop.t, th) /\ Sole(sess, V, loop.s, loop.t, th)
  BY <1>1, SoleFacts
<1> HIDE DEF U, V
<1>4. Sole(sess, sess', loop.s, loop.t, th)
  BY <1>2, <1>3
<1>5. undo'[loop.t] = x /\ \A t \in ThreadIds : t # loop.t => undo'[t] = undo[t]
  BY <1>1, UndoManagers
<1>6. inputs' \in Nat /\ inputs <= inputs' /\ restored \subseteq restored'
  BY <1>1
<1>7. loop.t \notin restored' => BranchOK(th, undo'[loop.t], inputs')
  BY <1>5
<1>8. BranchesOK' /\ OneHome'
  BY <1>1, <1>4, <1>5, <1>6, <1>7, SoleKeeps
<1>9. LastTurn'
  BY <1>2 DEF LastTurn, Idle, Places
<1> QED BY <1>8, <1>9 DEF BranchInv

\* It replies with a thread that says what it said and waits for nothing new.
LEMMA SameReply ==
    ASSUME BaseOK, LoopOK, BranchesOK, OneHome, loop.at \in {"dispatch", "token"} \cup Places,
           NEW th, ThreadOK(th), Reply(th), UNCHANGED <<undo, inputs, restored>>,
           th.turns = sess[loop.s].threads[loop.t].turns,
           th.state = "AwaitingApproval" =>
               /\ sess[loop.s].threads[loop.t].state = "AwaitingApproval"
               /\ th.req = sess[loop.s].threads[loop.t].req
    PROVE  BranchInv'
<1> DEFINE x == undo[loop.t]
<1>1. loop.t \in ThreadIds
  BY HereFacts
<1>2. undo' = SetUndo(undo, loop.t, x)
  BY <1>1, UndoManagers
<1>3. ASSUME loop.t \notin restored PROVE BranchOK(th, x, inputs)
  BY <1>3, HereBranch, SameBranch
<1> HIDE DEF x
<1> QED BY <1>2, <1>3, ReplyBranch

\* The handlers of submissions that leave the thread with Reply keep the branches.
LEMMA PlainBranch ==
    ASSUME BaseOK, LoopOK, BranchesOK, OneHome, Plain, UNCHANGED <<live, db, restored>>
    PROVE  BranchInv'
<1>1. loop.at = "dispatch" /\ UNCHANGED inputs /\ loop.at \in {"dispatch", "token"} \cup Places
  BY DEF Plain, Handling, RefuseInput, ProcessUndo, ProcessRedo, ProcessResume, ProcessInterrupt,
         ProcessCompact, ProcessClear, ProcessOther
<1>2. /\ loop.t \in ThreadIds /\ ThreadOK(Here) /\ inputs \in Nat
      /\ Here.state = sess[loop.s].threads[loop.t].state /\ Here.req = sess[loop.s].threads[loop.t].req
      /\ Here.turns = sess[loop.s].threads[loop.t].turns
  BY <1>1, HereFacts, HereBranch DEF BaseOK, Thread
<1> DEFINE u == undo[loop.t]
<1>3. loop.t \notin restored => BranchOK(Here, u, inputs)
  BY <1>1, HereBranch
<1>4. undo = SetUndo(undo, loop.t, u) /\ u = [undo |-> u.undo, redo |-> u.redo]
  BY <1>2, UndoManagers
<1>5. ASSUME NEW r, undo' = [undo EXCEPT ![loop.t].redo = r] PROVE undo' = SetUndo(undo, loop.t, [undo |-> u.undo, redo |-> r])
  <2>1. undo' = [undo EXCEPT ![loop.t] = [u EXCEPT !.redo = r]]
    BY <1>2, <1>5, UndoManagers
  <2>2. [u EXCEPT !.redo = r] = [undo |-> u.undo, redo |-> r]
    <3> HIDE DEF u
    <3> QED BY <1>4
  <2> QED BY <2>1, <2>2 DEF SetUndo
<1> HIDE DEF Here
<1>6. ASSUME Reply(Here), UNCHANGED undo PROVE BranchInv'
  BY <1>1, <1>2, <1>6, SameReply
<1>7. CASE RefuseInput \/ ProcessOther
  BY <1>6, <1>7 DEF RefuseInput, ProcessOther
<1>8. CASE ProcessUndo
  <2> DEFINE x == [undo |-> u.undo, redo |-> Append(u.redo, Messages(Here.turns))]
             th == RestoreFromMessages(Here, Last(u.undo))
  <2>1. \/ Reply(Here) /\ UNCHANGED undo
        \/ u.undo # <<>> /\ undo' = [undo EXCEPT ![loop.t].redo = Append(u.redo, Messages(Here.turns))] /\ Reply(th)
    BY <1>8 DEF ProcessUndo
  <2>2. ASSUME u.undo # <<>>, undo' = [undo EXCEPT ![loop.t].redo = Append(u.redo, Messages(Here.turns))], Reply(th)
        PROVE  BranchInv'
    <3>1. undo' = SetUndo(undo, loop.t, x)
      BY <1>5, <2>2
    <3>2. ThreadOK(th)
      BY <1>2, TurnsOK
    <3>3. loop.t \notin restored => BranchOK(th, x, inputs)
      BY <1>2, <1>3, <2>2, UndoBranch
    <3> HIDE DEF x, th, u
    <3> QED BY <1>1, <2>2, <3>1, <3>2, <3>3, ReplyBranch
  <2> QED BY <1>6, <2>1, <2>2
<1>9. CASE ProcessRedo
  <2> DEFINE x == [undo |-> u.undo, redo |-> Front(u.redo)]
             th == RestoreFromMessages(Here, Last(u.redo))
  <2>1. \/ Reply(Here) /\ UNCHANGED undo
        \/ u.redo # <<>> /\ undo' = [undo EXCEPT ![loop.t].redo = Front(u.redo)] /\ Reply(th)
    BY <1>9 DEF ProcessRedo
  <2>2. ASSUME u.redo # <<>>, undo' = [undo EXCEPT ![loop.t].redo = Front(u.redo)], Reply(th)
        PROVE  BranchInv'
    <3>1. undo' = SetUndo(undo, loop.t, x)
      BY <1>5, <2>2
    <3>2. ThreadOK(th)
      BY <1>2, TurnsOK
    <3>3. loop.t \notin restored => BranchOK(th, x, inputs)
      BY <1>2, <1>3, <2>2, UndoBranch
    <3> HIDE DEF x, th, u
    <3> QED BY <1>1, <2>2, <3>1, <3>2, <3>3, ReplyBranch
  <2> QED BY <1>6, <2>1, <2>2
<1>10. CASE ProcessResume
  <2>1. CASE Reply(Here) /\ UNCHANGED undo
    BY <1>6, <2>1
  <2>2. ASSUME NEW n \in DOMAIN u.undo, Reply(RestoreFromMessages(Here, u.undo[n])),
               undo' = [undo EXCEPT ![loop.t] = [undo |-> SubSeq(u.undo, 1, n - 1), redo |-> <<>>]]
        PROVE  BranchInv'
    <3> DEFINE x == [undo |-> SubSeq(u.undo, 1, n - 1), redo |-> <<>>]
               th == RestoreFromMessages(Here, u.undo[n])
    <3>1. undo' = SetUndo(undo, loop.t, x)
      BY <2>2 DEF SetUndo
    <3>2. ThreadOK(th)
      BY <1>2, TurnsOK
    <3>3. loop.t \notin restored => BranchOK(th, x, inputs)
      BY <1>2, <1>3, <2>2, UndoBranch
    <3>4. Reply(th)
      BY <2>2
    <3> HIDE DEF x, th, u
    <3> QED BY <1>1, <3>1, <3>2, <3>3, <3>4, ReplyBranch
  <2> QED BY <1>10, <2>1, <2>2 DEF ProcessResume
<1>11. CASE ProcessInterrupt
  <2> DEFINE th == Interrupt(Here)
  <2>1. (Reply(Here) \/ Reply(th)) /\ UNCHANGED undo
    BY <1>11 DEF ProcessInterrupt
  <2>2. ThreadOK(th)
    BY <1>2, TurnsOK
  <2>3. loop.t \notin restored => BranchOK(th, u, inputs)
    BY <1>2, <1>3, EndBranch
  <2> HIDE DEF th, u
  <2>4. ASSUME Reply(th) PROVE BranchInv'
    BY <1>1, <1>4, <2>1, <2>2, <2>3, <2>4, ReplyBranch
  <2> QED BY <1>6, <2>1, <2>4
<1>12. CASE ProcessCompact
  <2>1. PICK turns \in {Here.turns, Truncate(Here.turns)} : Reply([Here EXCEPT !.turns = turns])
    BY <1>12 DEF ProcessCompact
  <2> DEFINE th == [Here EXCEPT !.turns = turns]
  <2>2. ThreadOK(th)
    BY <1>2, FieldsOK, Zenon
  <2>3. loop.t \notin restored => BranchOK(th, u, inputs)
    BY <1>2, <1>3, TurnsBranch
  <2>4. UNCHANGED undo /\ Reply(th)
    BY <1>12, <2>1 DEF ProcessCompact
  <2> HIDE DEF th, u
  <2> QED BY <1>1, <1>4, <2>2, <2>3, <2>4, ReplyBranch
<1>13. CASE ProcessClear
  <2>1. PICK th : th = [Here EXCEPT !.turns = <<>>, !.state = "Idle"]
    OBVIOUS
  <2>2. ThreadOK(th)
    <3>1. \A turns : ThreadOK([Here EXCEPT !.turns = turns, !.state = "Idle"])
      BY <1>2, FieldsOK
    <3> QED BY <2>1, <3>1, Zenon
  <2>3. loop.t \notin restored => BranchOK(th, NewUndo, inputs)
    <3>1. ASSUME loop.t \notin restored PROVE BranchOK([Here EXCEPT !.turns = <<>>, !.state = "Idle"], NewUndo, inputs)
      BY <1>2, <1>3, <3>1, TurnsBranch
    <3> QED BY <2>1, <3>1
  <2>4. Reply(th) /\ undo' = SetUndo(undo, loop.t, NewUndo)
    BY <1>13, <2>1 DEF ProcessClear, SetUndo
  <2> QED BY <1>1, <2>2, <2>3, <2>4, ReplyBranch
<1> QED BY <1>7, <1>8, <1>9, <1>10, <1>11, <1>12, <1>13 DEF Plain

\* A change of one thread that leaves its turns alone.
LEMMA SoleSame ==
    ASSUME NEW S, NEW U, NEW p \in DOMAIN S, NEW q \in DOMAIN S[p].threads, NEW th,
           Sole(S, U, p, q, th), th.turns = S[p].threads[q].turns
    PROVE  SameTurns(S, U)
  BY DEF Sole, SameTurns

\* The session that is made for the user has no threads.
LEMMA LiveSame ==
    ASSUME BaseOK
    PROVE  SameTurns(sess, SessionsWithLive)
<1>1. /\ \A s \in DOMAIN sess : SessionsWithLive[s] = sess[s]
      /\ \A s \in DOMAIN SessionsWithLive : s \notin DOMAIN sess => DOMAIN SessionsWithLive[s].threads = {}
  BY LiveIsThere, NewIsOK DEF BaseOK
<1> HIDE DEF SessionsWithLive
<1> QED BY <1>1 DEF SameTurns

\* The loop goes on with its turn, the thread of which says what it said.
LEMMA LastTurnKeeps ==
    ASSUME LastTurn, SameTurns(sess, sess'), UNCHANGED restored,
           loop'.at \in Places => /\ loop.at \in Places /\ loop'.s = loop.s /\ loop'.t = loop.t /\ loop'.i = loop.i
                                  /\ loop.s \in DOMAIN sess' /\ loop.t \in DOMAIN sess'[loop.s].threads
    PROVE  LastTurn'
  BY DEF LastTurn, SameTurns

\* A new thread goes with its new undo manager.
LEMMA NewBranch == \A i \in Nat : BranchOK(NewThread, NewUndo, i)
<1>1. NewThread.turns = <<>> /\ NewThread.state = "Idle"
  BY DEF NewThread
<1>2. ASSUME NEW b, b = <<>> PROVE Good(b) /\ Cur(b) = 0
  BY <1>2 DEF Good, Cur
<1>3. Good(NewThread.turns) /\ Cur(NewThread.turns) = 0
  BY <1>1, <1>2
<1> QED BY <1>1, <1>3, StacksNew DEF BranchOK

\* A step that leaves all turns alone and adds a thread with a new id.
LEMMA NewThreadKeeps ==
    ASSUME BaseOK, BranchesOK, OneHome, AddId, StillWaits(sess, sess'), UNCHANGED <<inputs, restored>>,
           NEW V, SameTurns(sess, V), NEW p, Sole(V, sess', p, FreshId, NewThread)
    PROVE  BranchesOK' /\ OneHome'
<1>1. FreshId \notin ThreadIds /\ inputs \in Nat
  BY NewIdFacts DEF BaseOK
<1>2. undo'[FreshId] = NewUndo /\ \A t \in ThreadIds : undo'[t] = undo[t]
  <2>1. Listed(undo) /\ Len(undo) = Len(db)
    BY DEF BaseOK
  <2>2. undo' = Append(undo, NewUndo) /\ FreshId = Len(undo) + 1 /\ DOMAIN undo = ThreadIds
    BY <2>1, UndoManagers DEF AddId, FreshId
  <2>3. \A e : /\ Append(undo, e)[Len(undo) + 1] = e /\ \A i \in DOMAIN undo : Append(undo, e)[i] = undo[i]
    BY <2>1, ListedFacts
  <2> QED BY <2>2, <2>3
<1>3. ASSUME NEW s \in DOMAIN sess, NEW t \in DOMAIN sess[s].threads PROVE t \in ThreadIds /\ t # FreshId
  <2>1. SessionOK(sess[s], ThreadIds)
    BY DEF BaseOK, SessOK
  <2> QED BY <1>1, <2>1 DEF SessionOK
<1>4. ASSUME NEW s \in DOMAIN sess', NEW t \in DOMAIN sess'[s].threads
      PROVE  \/ s = p /\ t = FreshId /\ sess'[s].threads[t] = NewThread
             \/ /\ s \in DOMAIN sess /\ t \in DOMAIN sess[s].threads
                /\ sess'[s].threads[t].turns = sess[s].threads[t].turns
  <2>1. CASE s \in DOMAIN V /\ t \in DOMAIN V[s].threads /\ sess'[s].threads[t] = V[s].threads[t]
    BY <2>1 DEF SameTurns
  <2> QED BY <2>1 DEF Sole
<1>5. ASSUME NEW s \in DOMAIN sess', NEW t \in DOMAIN sess'[s].threads, t \notin restored'
      PROVE  BranchOK(sess'[s].threads[t], undo'[t], inputs')
  <2>1. CASE t = FreshId
    BY <1>1, <1>2, <1>3, <1>4, <2>1, NewBranch
  <2>2. CASE t # FreshId
    <3> DEFINE x == sess'[s].threads[t]
               th == sess[s].threads[t]
    <3>1. s \in DOMAIN sess /\ t \in DOMAIN sess[s].threads /\ x.turns = th.turns /\ undo'[t] = undo[t]
      BY <1>2, <1>3, <1>4, <2>2
    <3>2. x.state = "AwaitingApproval" => th.state = "AwaitingApproval" /\ x.req = th.req
      BY <3>1 DEF StillWaits
    <3>3. BranchOK(th, undo[t], inputs)
      BY <1>5, <3>1 DEF BranchesOK
    <3> HIDE DEF x, th
    <3>4. BranchOK(x, undo[t], inputs)
      BY <3>1, <3>2, <3>3, SameBranch
    <3> QED BY <3>1, <3>4 DEF x
  <2> QED BY <2>1, <2>2
<1>6. BranchesOK'
  BY <1>5 DEF BranchesOK
<1>7. OneHome'
  <2>1. ASSUME NEW s \in DOMAIN sess', NEW r \in DOMAIN sess', NEW t \in DOMAIN sess'[s].threads,
               t \in DOMAIN sess'[r].threads, t \notin restored'
        PROVE  s = r
    <3>1. CASE t = FreshId
      BY <1>3, <1>4, <2>1, <3>1
    <3>2. CASE t # FreshId
      <4>1. s \in DOMAIN sess /\ r \in DOMAIN sess /\ t \in DOMAIN sess[s].threads /\ t \in DOMAIN sess[r].threads
        BY <1>4, <2>1, <3>2
      <4> QED BY <2>1, <4>1 DEF OneHome
    <3> QED BY <3>1, <3>2
  <2> QED BY <2>1 DEF OneHome
<1> QED BY <1>6, <1>7

\* A refused or denied approval, or a token that was tried, keeps the branches.
LEMMA ApprovalBranch ==
    ASSUME BaseOK, LoopOK, BranchesOK, OneHome, RefuseApproval \/ Deny \/ TryToken,
           UNCHANGED <<live, undo, db, inputs, restored>>
    PROVE  BranchInv'
<1>1. loop.at \in {"dispatch", "token"}
  BY DEF Handling, RefuseApproval, Deny, TryToken
<1>2. /\ ThreadOK(Here) /\ Here.state = Thread(loop.s, loop.t).state /\ Here.req = Thread(loop.s, loop.t).req
      /\ ThreadOK(Thread(loop.s, loop.t)) /\ Here.turns = Thread(loop.s, loop.t).turns
  BY <1>1, HereFacts, HereBranch DEF Thread
<1>4. ASSUME NEW th, ThreadOK(th), Reply(th), th.turns = Here.turns,
             th.state = "Idle" \/ (th.state = Here.state /\ th.req = Here.req)
      PROVE  BranchInv'
  <2>1. /\ th.turns = sess[loop.s].threads[loop.t].turns
        /\ th.state = "AwaitingApproval" => /\ sess[loop.s].threads[loop.t].state = "AwaitingApproval"
                                            /\ th.req = sess[loop.s].threads[loop.t].req
    BY <1>2, <1>4 DEF Thread
  <2> QED BY <1>1, <1>4, <2>1, SameReply
<1> HIDE DEF Here
<1>5. CASE RefuseApproval
  BY <1>2, <1>4, <1>5 DEF RefuseApproval
<1>6. CASE Deny
  <2> DEFINE th == [Here EXCEPT !.req = NoRequest, !.state = "Idle"]
  <2>1. Reply(th)
    BY <1>6 DEF Deny
  <2>2. "Idle" \in States
    BY DEF States
  <2>3. ThreadOK(th) /\ th.state = "Idle"
    BY <1>2, <2>2, FieldsOK
  <2>4. th.turns = Here.turns
    BY <1>2 DEF ThreadOK
  <2> HIDE DEF th
  <2> QED BY <1>4, <2>1, <2>3, <2>4
<1>7. CASE TryToken
  <2>1. PICK b \in BOOLEAN : Reply([Thread(loop.s, loop.t) EXCEPT !.auth = b])
    <3>1. Thread(loop.s, loop.t).auth \in BOOLEAN
      BY <1>2 DEF ThreadOK
    <3>2. PICK again \in BOOLEAN : Reply([Thread(loop.s, loop.t) EXCEPT !.auth = Thread(loop.s, loop.t).auth \/ again])
      BY <1>7 DEF TryToken
    <3> QED BY <3>1, <3>2
  <2> DEFINE th == [Thread(loop.s, loop.t) EXCEPT !.auth = b]
  <2>2. /\ ThreadOK(th) /\ th.state = Thread(loop.s, loop.t).state /\ th.req = Thread(loop.s, loop.t).req
        /\ th.turns = Thread(loop.s, loop.t).turns
    BY <1>2, FieldsOK
  <2>3. Reply(th)
    BY <2>1
  <2> HIDE DEF th
  <2> QED BY <1>2, <1>4, <2>2, <2>3
<1> QED BY <1>5, <1>6, <1>7

\* Ending the auth mode leaves all turns alone.
LEMMA ClearedSame ==
    ASSUME BaseOK, LoopOK, BranchesOK, loop.at = "dispatch"
    PROVE  SameTurns(sess, Cleared)
<1>0. SessOK(sess, ThreadIds) /\ live \in 0 .. Len(sess)
  BY DEF BaseOK
<1>1. /\ SessOK(SessionsWithLive, ThreadIds)
      /\ \A s \in DOMAIN sess : s \in DOMAIN SessionsWithLive /\ SessionsWithLive[s] = sess[s]
  BY <1>0, LiveIsThere
<1>2. /\ loop.s \in DOMAIN sess /\ loop.t \in DOMAIN sess[loop.s].threads
      /\ ThreadOK(Here) /\ Here.turns = sess[loop.s].threads[loop.t].turns
  BY HereFacts, HereBranch
<1> HIDE DEF SessionsWithLive, Here
<1>3. loop.s \in DOMAIN SessionsWithLive /\ loop.t \in DOMAIN SessionsWithLive[loop.s].threads
  BY <1>1, <1>2
<1>4. Sole(SessionsWithLive, Cleared, loop.s, loop.t, Here)
  BY <1>1, <1>2, <1>3, SoleFacts DEF Cleared
<1>5. Sole(sess, Cleared, loop.s, loop.t, Here)
  BY <1>0, <1>4, SoleFromLive
<1> QED BY <1>2, <1>5, SoleSame

\* So does /thread <uuid>.
LEMMA SwitchBranch ==
    ASSUME BaseOK, LoopOK, BranchesOK, OneHome, ProcessSwitchThread,
           UNCHANGED <<db, ran, writes, budget, map, prune, restored>>
    PROVE  BranchInv'
<1>1. loop.at = "dispatch" /\ loop' = Idle /\ UNCHANGED <<undo, inputs, restored>>
  BY DEF ProcessSwitchThread, Handling, Done
<1>2. SameTurns(sess, Cleared) /\ SessOK(Cleared, ThreadIds) /\ LiveSession \in DOMAIN Cleared
  BY <1>1, ClearedSame, ClearedFacts
<1>3. StillWaits(sess, sess')
  BY SwitchReplies DEF Replied, Calm
<1>4. \/ sess' = Cleared
      \/ \E t \in DOMAIN Cleared[LiveSession].threads : sess' = [Cleared EXCEPT ![LiveSession].active = t]
  BY DEF ProcessSwitchThread, Cleared, SetIn
<1> HIDE DEF LiveSession, Cleared
<1>5. ASSUME NEW t \in DOMAIN Cleared[LiveSession].threads, sess' = [Cleared EXCEPT ![LiveSession].active = t]
      PROVE  SameTurns(sess, sess')
  <2> DEFINE C == Cleared[LiveSession]
             x == [C EXCEPT !.active = t]
  <2>1. SessionOK(C, ThreadIds) /\ t \in DOMAIN C.threads
    BY <1>2 DEF SessOK
  <2>2. SessionOK(x, ThreadIds) /\ x.threads = C.threads
    BY <2>1, ActiveOK
  <2>3. sess' = SetSession(Cleared, LiveSession, x)
    BY <1>5 DEF SetSession
  <2> HIDE DEF x
  <2>4. DOMAIN sess' = DOMAIN Cleared /\ \A p \in DOMAIN Cleared : sess'[p] = IF p = LiveSession THEN x ELSE Cleared[p]
    BY <1>2, <2>2, <2>3, SessionsChange
  <2>5. \A p \in DOMAIN Cleared : sess'[p].threads = Cleared[p].threads
    BY <2>2, <2>4
  <2> QED BY <1>2, <2>4, <2>5 DEF SameTurns
<1>6. SameTurns(sess, sess')
  BY <1>2, <1>4, <1>5
<1>7. UndoStays
  BY <1>1 DEF UndoStays
<1>8. BranchesOK' /\ OneHome'
  BY <1>1, <1>3, <1>6, <1>7, SameTurnsKeep
<1>9. LastTurn'
  BY <1>1 DEF LastTurn, Idle, Places
<1> QED BY <1>8, <1>9 DEF BranchInv

\* So does a new thread, from whomever.
LEMMA NewThreadBranch ==
    ASSUME BaseOK, LoopOK, TurnOK, BranchInv, ProcessNewThread \/ WebNewThread \/ Mint, UNCHANGED restored
    PROVE  BranchInv'
<1> USE DEF BranchInv
<1>1. AddId /\ UNCHANGED inputs
  BY DEF ProcessNewThread, WebNewThread, Mint
<1>2. /\ ThreadIds' = ThreadIds \cup {FreshId} /\ FreshId \in ThreadIds' /\ ThreadOK(NewThread)
      /\ SessOK(sess, ThreadIds) /\ live \in 0 .. Len(sess)
  BY <1>1, NewIdFacts, NewIsOK DEF BaseOK
<1>3. ASSUME NEW V, SessOK(V, ThreadIds), SameTurns(sess, V), NEW p \in DOMAIN V, sess' = PutIn(V, p, FreshId, NewThread), Calm
      PROVE  BranchesOK' /\ OneHome'
  <2>1. SessOK(V, ThreadIds')
    BY <1>2, <1>3, MoreIds
  <2>2. Sole(V, sess', p, FreshId, NewThread)
    BY <1>2, <1>3, <2>1, SoleFacts
  <2> QED BY <1>1, <1>3, <2>2, NewThreadKeeps DEF Calm
<1>4. CASE ProcessNewThread
  <2>1. loop.at = "dispatch" /\ loop' = Idle /\ Calm /\ sess' = PutIn(Cleared, LiveSession, FreshId, NewThread)
    BY <1>4, NewThreadCalm DEF ProcessNewThread, Cleared, SetIn, PutIn
  <2>2. SameTurns(sess, Cleared) /\ SessOK(Cleared, ThreadIds) /\ LiveSession \in DOMAIN Cleared
    BY <2>1, ClearedSame, ClearedFacts
  <2> HIDE DEF Cleared, LiveSession
  <2>3. BranchesOK' /\ OneHome'
    BY <1>3, <2>1, <2>2
  <2>4. LastTurn'
    BY <2>1 DEF LastTurn, Idle, Places
  <2> QED BY <2>3, <2>4
<1>5. CASE WebNewThread
  <2>1. loop' = loop /\ Calm /\ Holds(sess') /\ sess' = PutIn(SessionsWithLive, LiveSession, FreshId, NewThread)
    BY <1>5, OutsideSessions DEF WebNewThread, PutIn
  <2>2. SameTurns(sess, SessionsWithLive) /\ SessOK(SessionsWithLive, ThreadIds) /\ LiveSession \in DOMAIN SessionsWithLive
    BY <1>2, LiveSame, LiveIsThere
  <2> HIDE DEF SessionsWithLive, LiveSession
  <2>3. BranchesOK' /\ OneHome'
    BY <1>3, <2>1, <2>2
  <2>4. LastTurn'
    <3>1. ASSUME loop.at \in Places, loop.t \notin restored
          PROVE  LET turns == sess'[loop.s].threads[loop.t].turns IN turns # <<>> /\ Cur(turns) = loop.i
      <4>1. loop.s \in DOMAIN sess' /\ loop.t \in DOMAIN sess'[loop.s].threads /\ loop.t \in ThreadIds
        <5>1. loop.at \in {"dispatch", "token"} \cup Places /\ loop.at \notin {"idle", "resolve"}
          BY <3>1 DEF Places
        <5> QED BY <2>1, <5>1, HereFacts DEF Holds
      <4>2. FreshId # loop.t
        BY <1>1, <4>1, NewIdFacts
      <4>3. SessOK(SessionsWithLive, ThreadIds')
        BY <1>2, <2>2, MoreIds
      <4>4. Sole(SessionsWithLive, sess', LiveSession, FreshId, NewThread)
        BY <1>2, <2>1, <2>2, <4>3, SoleFacts
      <4>5. sess'[loop.s].threads[loop.t].turns = sess[loop.s].threads[loop.t].turns
        BY <2>2, <4>1, <4>2, <4>4 DEF Sole, SameTurns
      <4> QED BY <3>1, <4>5 DEF LastTurn
    <3> QED BY <2>1, <3>1 DEF LastTurn
  <2> QED BY <2>3, <2>4
<1>6. CASE Mint
  <2>1. Calm /\ loop'.at = "dispatch" /\ sess' = PutIn(sess, loop.s, FreshId, NewThread) /\ loop.s \in DOMAIN sess
    BY <1>6, ResolvingSessions DEF Mint, PutIn, LoopOK
  <2>2. SameTurns(sess, sess)
    BY DEF SameTurns
  <2>3. BranchesOK' /\ OneHome'
    BY <1>2, <1>3, <2>1, <2>2
  <2>4. LastTurn'
    BY <2>1 DEF LastTurn, Places
  <2> QED BY <2>3, <2>4
<1> QED BY <1>4, <1>5, <1>6

\* A user input starts the turn the loop works on, after a checkpoint.
LEMMA InputBranch ==
    ASSUME BaseOK, LoopOK, BranchesOK, OneHome, ProcessUserInput, UNCHANGED <<live, db, restored>>
    PROVE  BranchInv'
<1>1. /\ loop.at = "dispatch" /\ inputs' = inputs + 1 /\ loop' = Turning(inputs + 1, "input")
      /\ inputs \in Nat /\ SessOK(sess, ThreadIds)
  BY DEF ProcessUserInput, Handling, BaseOK
<1>2. /\ loop.s \in DOMAIN sess /\ loop.t \in DOMAIN sess[loop.s].threads /\ loop.t \in ThreadIds /\ ThreadOK(Here)
  BY <1>1, HereFacts
<1>3. PICK turns \in {Here.turns, Truncate(Here.turns)} :
         /\ undo' = [undo EXCEPT ![loop.t] = Checkpoint(undo[loop.t], Messages(turns))]
         /\ PutHere(StartTurn([Here EXCEPT !.turns = turns], inputs + 1))
  BY DEF ProcessUserInput
<1> DEFINE u == undo[loop.t]
           b == [Here EXCEPT !.turns = turns]
           th == StartTurn(b, inputs + 1)
           x == Checkpoint(u, Messages(turns))
<1>4. sess' = SetIn(sess, loop.s, loop.t, th) /\ undo' = SetUndo(undo, loop.t, x)
  BY <1>3 DEF PutHere, Put, SetIn, SetUndo
<1>5. ThreadOK(b)
  BY <1>2, FieldsOK
<1>6. ASSUME loop.t \notin restored
      PROVE  BranchOK(th, x, inputs + 1) /\ th.turns # <<>> /\ Cur(th.turns) = inputs + 1
  <2>1. BranchOK(Here, u, inputs)
    BY <1>1, <1>6, HereBranch
  <2> HIDE DEF Here, u
  <2> QED BY <1>1, <1>2, <2>1, TurnsBranch
<1> HIDE DEF b, Here
<1>7. ThreadOK(th)
  BY <1>5, TurnsOK
<1> HIDE DEF th, x, u
<1>8. Sole(sess, sess', loop.s, loop.t, th)
  BY <1>1, <1>2, <1>4, <1>7, SoleFacts
<1>9. undo'[loop.t] = x /\ \A t \in ThreadIds : t # loop.t => undo'[t] = undo[t]
  BY <1>2, <1>4, UndoManagers
<1>10. inputs' \in Nat /\ inputs <= inputs' /\ restored \subseteq restored'
  BY <1>1
<1>11. loop.t \notin restored' => BranchOK(th, undo'[loop.t], inputs')
  BY <1>1, <1>6, <1>9
<1>12. BranchesOK' /\ OneHome'
  BY <1>2, <1>8, <1>9, <1>10, <1>11, SoleKeeps
<1>13. LastTurn'
  <2>1. loop'.s = loop.s /\ loop'.t = loop.t /\ loop'.i = inputs + 1
    BY <1>1 DEF Turning
  <2>2. loop.s \in DOMAIN sess' /\ loop.t \in DOMAIN sess'[loop.s].threads /\ sess'[loop.s].threads[loop.t] = th
    <3>1. SessionOK(sess[loop.s], ThreadIds)
      BY <1>1, <1>2 DEF SessOK
    <3>2. sess' = [sess EXCEPT ![loop.s].threads[loop.t] = th]
      BY <1>4 DEF SetIn
    <3>3. DOMAIN sess' = DOMAIN sess /\ sess'[loop.s] = [sess[loop.s] EXCEPT !.threads[loop.t] = th]
      BY <1>2, <3>2
    <3>4. sess[loop.s] = [threads |-> sess[loop.s].threads, active |-> sess[loop.s].active, auto |-> sess[loop.s].auto]
      BY <3>1 DEF SessionOK
    <3>5. sess'[loop.s].threads = [sess[loop.s].threads EXCEPT ![loop.t] = th]
      BY <3>3, <3>4
    <3> QED BY <1>2, <3>3, <3>5
  <2> QED BY <1>6, <2>1, <2>2 DEF LastTurn
<1> QED BY <1>12, <1>13 DEF BranchInv

\* An approval goes on with the turn that asked for it, the last of its thread.
LEMMA ApproveBranch ==
    ASSUME BaseOK, LoopOK, BusyInv, WaitInv, BranchesOK, OneHome, Approve, UNCHANGED <<live, undo, db, inputs, restored>>
    PROVE  BranchInv'
<1>1. /\ loop.at = "dispatch" /\ StillWaits(sess, sess')
      /\ Thread(loop.s, loop.t).state = "AwaitingApproval" /\ Thread(loop.s, loop.t).req = Here.req
      /\ loop.s \in DOMAIN sess' /\ loop.t \in DOMAIN sess'[loop.s].threads
      /\ loop' = [Turning(Here.req.input, "approval") EXCEPT !.at = "run", !.batch = <<Here.req.tool>>]
  BY ApproveStarts DEF OnlyHereBusy
<1>2. /\ loop.s \in DOMAIN sess /\ loop.t \in DOMAIN sess[loop.s].threads /\ ThreadOK(Here)
      /\ SessOK(sess, ThreadIds) /\ Here.turns = sess[loop.s].threads[loop.t].turns
  BY <1>1, HereFacts, HereBranch DEF BaseOK
<1>3. loop'.s = loop.s /\ loop'.t = loop.t /\ loop'.i = Here.req.input
  BY <1>1 DEF Turning
<1>4. SameTurns(sess, sess')
  <2> DEFINE th == [Here EXCEPT !.req = NoRequest, !.state = "Processing"]
             x == sess[loop.s]
  <2>1. th.turns = Here.turns
    BY <1>2 DEF ThreadOK
  <2>2. PICK auto : sess' = [sess EXCEPT ![loop.s].auto = auto, ![loop.s].threads[loop.t] = th]
    BY DEF Approve
  <2> DEFINE y == [threads |-> [x.threads EXCEPT ![loop.t] = th], active |-> x.active, auto |-> auto]
             w == [threads |-> x.threads, active |-> x.active, auto |-> auto]
  <2>3. x = [threads |-> x.threads, active |-> x.active, auto |-> x.auto]
    BY <1>2 DEF SessOK, SessionOK
  <2> HIDE DEF th, Here
  <2>4. [x EXCEPT !.auto = auto] = w
    BY <2>3
  <2>5. [w EXCEPT !.threads[loop.t] = th] = y
    OBVIOUS
  <2>6. DOMAIN y.threads = DOMAIN x.threads /\ \A t \in DOMAIN x.threads : y.threads[t] = IF t = loop.t THEN th ELSE x.threads[t]
    OBVIOUS
  <2> HIDE DEF w, y
  <2>7. [sess EXCEPT ![loop.s].auto = auto] = [sess EXCEPT ![loop.s] = w]
    BY <1>2, <2>4
  <2>8. [[sess EXCEPT ![loop.s] = w] EXCEPT ![loop.s].threads[loop.t] = th] = [sess EXCEPT ![loop.s] = y]
    BY <1>2, <2>5
  <2>9. sess' = [sess EXCEPT ![loop.s] = y]
    BY <2>2, <2>7, <2>8
  <2>10. DOMAIN sess' = DOMAIN sess /\ \A s \in DOMAIN sess : sess'[s] = IF s = loop.s THEN y ELSE sess[s]
    BY <2>9
  <2> QED BY <1>2, <2>1, <2>6, <2>10 DEF SameTurns
<1>5. UndoStays
  BY DEF UndoStays
<1>6. BranchesOK' /\ OneHome'
  BY <1>1, <1>4, <1>5, SameTurnsKeep
<1>7. LastTurn'
  <2>1. ASSUME loop.t \notin restored
        PROVE  Here.turns # <<>> /\ Cur(Here.turns) = Here.req.input
    <3>1. BranchOK(sess[loop.s].threads[loop.t], undo[loop.t], inputs)
      BY <1>1, <2>1, HereBranch
    <3> QED BY <1>1, <1>2, <3>1 DEF BranchOK, Thread
  <2>2. sess'[loop.s].threads[loop.t].turns = Here.turns
    BY <1>1, <1>2, <1>4 DEF SameTurns
  <2> HIDE DEF Here
  <2> QED BY <1>3, <2>1, <2>2 DEF LastTurn
<1> QED BY <1>6, <1>7 DEF BranchInv

\* A token is read: the turns stay.
LEMMA TokenBranch ==
    ASSUME BaseOK, LoopOK, BranchesOK, OneHome, ReadToken, UNCHANGED <<live, undo, db, inputs, restored>>
    PROVE  BranchInv'
<1>1. loop.at = "dispatch" /\ Calm /\ sess' = SetIn(sess, loop.s, loop.t, Here) /\ loop'.at = "token"
  BY TokenRead DEF ReadToken, PutHere, Put, SetIn
<1>2. /\ loop.s \in DOMAIN sess /\ loop.t \in DOMAIN sess[loop.s].threads /\ ThreadOK(Here)
      /\ SessOK(sess, ThreadIds) /\ Here.turns = sess[loop.s].threads[loop.t].turns
  BY <1>1, HereFacts, HereBranch DEF BaseOK
<1> HIDE DEF Here
<1>3. Sole(sess, sess', loop.s, loop.t, Here)
  BY <1>1, <1>2, SoleFacts
<1>4. SameTurns(sess, sess') /\ UndoStays
  BY <1>2, <1>3, SoleSame DEF UndoStays
<1>5. BranchesOK' /\ OneHome'
  BY <1>1, <1>4, SameTurnsKeep DEF Calm
<1>6. LastTurn'
  BY <1>1 DEF LastTurn, Places
<1> QED BY <1>5, <1>6 DEF BranchInv

\* The agentic loop goes on with the same turn.
LEMMA TurnBranch ==
    ASSUME BaseOK, LoopOK, TurnOK, BranchInv, (CallLlm /\ UNCHANGED sess) \/ AdmitTool \/ RunTool \/ RequestApproval,
           UNCHANGED <<live, undo, db, inputs, restored>>
    PROVE  BranchInv'
<1> USE DEF BranchInv
<1>1. GoesOn
  BY TurnGoesOn
<1>2. loop.at \in Places /\ loop.at \in {"dispatch", "token"} \cup Places
  BY <1>1 DEF GoesOn
<1>3. loop'.i = loop.i
  <2>1. loop = [at |-> loop.at, s |-> loop.s, t |-> loop.t, i |-> loop.i, via |-> loop.via,
                iteration |-> loop.iteration, batch |-> loop.batch, result |-> loop.result]
    BY <1>2 DEF TurnOK
  <2>3. ASSUME NEW result, End(result) PROVE loop'.i = loop.i
    BY <2>1, <2>3 DEF End
  <2>4. CASE CallLlm
    <3>1. ASSUME NEW batch, loop' = [loop EXCEPT !.at = "tools", !.batch = batch, !.iteration = @ + 1]
          PROVE  loop'.i = loop.i
      BY <2>1, <3>1
    <3> QED BY <2>3, <2>4, <3>1 DEF CallLlm
  <2>5. CASE AdmitTool
    BY <2>1, <2>5 DEF AdmitTool
  <2>6. CASE RunTool
    <3>1. ASSUME loop' = [loop EXCEPT !.at = "llm", !.batch = <<>>] PROVE loop'.i = loop.i
      BY <2>1, <3>1
    <3>2. ASSUME loop' = [loop EXCEPT !.at = "tools", !.batch = Tail(@)] PROVE loop'.i = loop.i
      BY <2>1, <3>2
    <3> QED BY <2>3, <2>6, <3>1, <3>2 DEF RunTool
  <2>7. CASE RequestApproval
    BY <2>1, <2>7 DEF RequestApproval
  <2> QED BY <2>4, <2>5, <2>6, <2>7
<1>4. SameTurns(sess, sess')
  <2>1. CASE UNCHANGED sess
    BY <2>1 DEF SameTurns
  <2>2. CASE Put(loop.s, loop.t, [Thread(loop.s, loop.t) EXCEPT !.auth = TRUE])
    <3> DEFINE old == sess[loop.s].threads[loop.t]
               th == [old EXCEPT !.auth = TRUE]
    <3>1. /\ loop.s \in DOMAIN sess /\ loop.t \in DOMAIN sess[loop.s].threads /\ ThreadOK(old)
          /\ SessOK(sess, ThreadIds)
      BY <1>2, HereFacts DEF BaseOK, Thread
    <3>2. sess' = SetIn(sess, loop.s, loop.t, th)
      BY <2>2 DEF Put, SetIn, Thread
    <3> HIDE DEF old
    <3>3. ThreadOK(th) /\ th.turns = old.turns
      BY <3>1, FieldsOK
    <3> HIDE DEF th
    <3>4. Sole(sess, sess', loop.s, loop.t, th)
      BY <3>1, <3>2, <3>3, SoleFacts
    <3> QED BY <3>1, <3>3, <3>4, SoleSame DEF old
  <2>3. UNCHANGED sess \/ Put(loop.s, loop.t, [Thread(loop.s, loop.t) EXCEPT !.auth = TRUE])
    BY DEF AdmitTool, RunTool, RequestApproval
  <2> QED BY <2>1, <2>2, <2>3
<1>5. BranchesOK' /\ OneHome'
  BY <1>1, <1>4, SameTurnsKeep DEF GoesOn, Calm, UndoStays
<1>6. LastTurn'
  <2>1. loop.s \in DOMAIN sess' /\ loop.t \in DOMAIN sess'[loop.s].threads
    BY <1>1, <1>2 DEF GoesOn, Holds, Places
  <2> QED BY <1>1, <1>2, <1>3, <1>4, <2>1, LastTurnKeeps DEF GoesOn
<1> QED BY <1>5, <1>6

\* The turn that ends is the last of its thread.
LEMMA FinishBranch ==
    ASSUME BaseOK, LoopOK, TurnOK, BranchInv, Finish, UNCHANGED <<undo, inputs, restored>>
    PROVE  BranchInv'
<1> USE DEF BranchInv
<1> DEFINE old == sess[loop.s].threads[loop.t]
           u == undo[loop.t]
           req == [id |-> Len(ran), tool |-> Head(loop.batch), input |-> loop.i]
<1>1. loop.at = "end" /\ loop.at \in Places /\ loop.at \in {"dispatch", "token"} \cup Places
  BY DEF Finish, Places
<1>2. ThreadOK(old) /\ loop.t \in ThreadIds
  BY <1>1, HereFacts DEF Thread
<1>3. undo = SetUndo(undo, loop.t, u)
  BY <1>2, UndoManagers
<1>4. ASSUME loop.t \notin restored
      PROVE  BranchOK(old, u, inputs) /\ old.turns # <<>> /\ Cur(old.turns) = loop.i
  BY <1>1, <1>4, HereBranch DEF LastTurn
<1>5. ASSUME NEW th, ThreadOK(th), Reply(th), loop.t \notin restored => BranchOK(th, u, inputs)
      PROVE  BranchInv'
  BY <1>1, <1>3, <1>5, ReplyBranch
<1>6. \/ Reply(old)
      \/ Reply(CompleteTurn(old, loop.i))
      \/ Reply(FailTurn(old))
      \/ loop.result = "approval" /\ Reply(AwaitApproval(old, req))
  BY DEF Finish, Thread
<1> HIDE DEF old, u
<1>7. CASE Reply(old)
  BY <1>2, <1>4, <1>5, <1>7
<1>8. CASE Reply(CompleteTurn(old, loop.i))
  BY <1>2, <1>4, <1>5, <1>8, TurnsOK, EndBranch
<1>9. CASE Reply(FailTurn(old))
  BY <1>2, <1>4, <1>5, <1>9, TurnsOK, EndBranch
<1>10. CASE loop.result = "approval" /\ Reply(AwaitApproval(old, req))
  <2>1. loop.i \in Nat /\ loop.batch \in Seq(Tools) /\ loop.batch # <<>> /\ ran \in Seq(Nat)
    BY <1>1, <1>10 DEF TurnOK, BaseOK
  <2>2. Head(loop.batch) \in Tools /\ Len(ran) \in Nat
    BY <2>1
  <2>3. req \in Question /\ req.input = loop.i
    BY <2>1, <2>2 DEF Question
  <2> HIDE DEF req
  <2>4. ThreadOK(AwaitApproval(old, req))
    BY <1>2, <2>3, TurnsOK
  <2>5. loop.t \notin restored => BranchOK(AwaitApproval(old, req), u, inputs)
    BY <1>2, <1>4, <2>3, EndBranch
  <2> QED BY <1>5, <1>10, <2>4, <2>5
<1> QED BY <1>6, <1>7, <1>8, <1>9, <1>10

\* The web and the prunings, at any time, and a restart.
LEMMA OutsideBranch ==
    ASSUME BaseOK, LoopOK, TurnOK, BranchInv,
           WebClearAuth \/ PruneRemove \/ PruneClean \/ Restart \/ \E w \in writes : PersistTurn(w),
           UNCHANGED restored
    PROVE  BranchInv'
<1> USE DEF BranchInv
<1>1. UNCHANGED inputs
  BY DEF WebClearAuth, PruneRemove, PruneClean, Restart, PersistTurn
<1>2. SessOK(sess, ThreadIds) /\ live \in 0 .. Len(sess) /\ DOMAIN undo = ThreadIds
  BY UndoManagers DEF BaseOK
<1>3. ASSUME SameTurns(sess, sess'), StillWaits(sess, sess'), Holds(sess'), UndoStays, loop' = loop
      PROVE  BranchInv'
  <2>1. BranchesOK' /\ OneHome'
    BY <1>1, <1>3, SameTurnsKeep
  <2>2. loop.at \in Places => loop.s \in DOMAIN sess' /\ loop.t \in DOMAIN sess'[loop.s].threads
    BY <1>3 DEF Holds, Places
  <2>3. LastTurn'
    BY <1>3, <2>2, LastTurnKeeps
  <2> QED BY <2>1, <2>3
<1>4. ASSUME UNCHANGED <<sess, loop>>, UndoStays PROVE BranchInv'
  <2>1. SameTurns(sess, sess') /\ StillWaits(sess, sess')
    BY <1>4 DEF SameTurns, StillWaits
  <2>2. Holds(sess')
    BY <1>4 DEF Holds, LoopOK, Places
  <2> QED BY <1>3, <1>4, <2>1, <2>2
<1>5. CASE \E w \in writes : PersistTurn(w)
  BY <1>4, <1>5 DEF PersistTurn, UndoStays
<1>6. CASE PruneClean
  <2>1. UNCHANGED <<sess, loop>> /\ \A t \in ThreadIds : undo'[t] \in {undo[t], NewUndo}
    BY <1>2, <1>6 DEF PruneClean
  <2> QED BY <1>4, <2>1 DEF UndoStays
<1>7. CASE PruneRemove
  <2> DEFINE U == FreeIn(sess, live)
  <2>1. Calm /\ Holds(sess') /\ UNCHANGED <<loop, undo>> /\ live \in DOMAIN sess /\ (sess' = sess \/ sess' = U)
    <3>1. DOMAIN sess = 1 .. Len(sess) /\ Len(sess) \in Nat
      BY <1>2, ListedFacts DEF SessOK, Listed
    <3>2. live \in DOMAIN sess
      BY <1>2, <1>7, <3>1 DEF PruneRemove
    <3>3. UNCHANGED <<loop, undo>> /\ (sess' = sess \/ sess' = U)
      BY <1>7 DEF PruneRemove, FreeIn
    <3> HIDE DEF U
    <3>4. Calm /\ Holds(sess')
      BY <1>7, OutsideSessions
    <3> QED BY <3>2, <3>3, <3>4
  <2>2. SameTurns(sess, U)
    <3>1. DOMAIN U = DOMAIN sess /\ \A s \in DOMAIN sess : U[s] = IF s = live THEN NewSession ELSE sess[s]
      BY <2>1 DEF FreeIn
    <3> HIDE DEF U
    <3> QED BY <3>1, NewIsOK DEF SameTurns
  <2>3. SameTurns(sess, sess)
    BY DEF SameTurns
  <2> HIDE DEF U
  <2> QED BY <1>3, <2>1, <2>2, <2>3 DEF Calm, UndoStays
<1>8. CASE WebClearAuth
  <2> DEFINE S == SessionsWithLive
             L == LiveSession
             a == S[L].active
             old == S[L].threads[a]
             th == [old EXCEPT !.auth = FALSE]
             U == SetIn(S, L, a, th)
  <2>1. Calm /\ Holds(sess') /\ UNCHANGED <<loop, undo>>
    BY <1>8, OutsideSessions DEF WebClearAuth
  <2>2. sess' = S \/ (a # NoId /\ sess' = U)
    BY <1>8 DEF WebClearAuth, SetIn
  <2>3. SameTurns(sess, S) /\ SessOK(S, ThreadIds) /\ L \in DOMAIN S
    BY <1>2, LiveSame, LiveIsThere
  <2> HIDE DEF S, L
  <2>4. ASSUME a # NoId PROVE SameTurns(sess, U)
    <3>1. SessionOK(S[L], ThreadIds)
      BY <2>3 DEF SessOK
    <3>2. a \in DOMAIN S[L].threads /\ ThreadOK(old)
      BY <2>4, <3>1 DEF SessionOK
    <3> HIDE DEF old, a
    <3>3. ThreadOK(th) /\ th.turns = old.turns
      BY <3>2, FieldsOK
    <3> HIDE DEF th
    <3>4. Sole(S, U, L, a, th)
      BY <2>3, <3>2, <3>3, SoleFacts
    <3> HIDE DEF U
    <3>5. SameTurns(S, U)
      BY <2>3, <3>2, <3>3, <3>4, SoleSame DEF old
    <3> QED BY <2>3, <3>5 DEF SameTurns
  <2> HIDE DEF U, a
  <2>5. SameTurns(sess, sess')
    BY <2>2, <2>3, <2>4
  <2> QED BY <1>3, <2>1, <2>5 DEF Calm, UndoStays
<1>9. CASE Restart
  <2>1. sess' = <<>> /\ loop' = Idle
    BY <1>9 DEF Restart
  <2>2. DOMAIN sess' = {}
    BY <2>1
  <2> QED BY <2>1, <2>2 DEF BranchesOK, OneHome, LastTurn, Idle, Places
<1> QED BY <1>5, <1>6, <1>7, <1>8, <1>9

\* A message on its way to its thread.
LEMMA ResolvingBranch ==
    ASSUME BaseOK, LoopOK, BranchesOK, OneHome, Receive \/ Resolve, UNCHANGED restored
    PROVE  BranchInv'
<1>1. UNCHANGED <<inputs, undo>> /\ loop'.at \notin Places /\ (sess' = sess \/ sess' = SessionsWithLive)
  BY DEF Receive, Resolve, Places
<1>2. SameTurns(sess, sess')
  <2>1. SameTurns(sess, sess)
    BY DEF SameTurns
  <2> HIDE DEF SessionsWithLive
  <2> QED BY <1>1, <2>1, LiveSame
<1>3. StillWaits(sess, sess')
  BY ResolvingSessions DEF Calm
<1>4. BranchesOK' /\ OneHome'
  BY <1>1, <1>2, <1>3, SameTurnsKeep DEF UndoStays
<1>5. LastTurn'
  BY <1>1 DEF LastTurn
<1> QED BY <1>4, <1>5 DEF BranchInv

\* A hydrated thread is one the invariant does not speak of.
LEMMA HydrateBranch ==
    ASSUME BaseOK, LoopOK, BranchesOK, OneHome, Hydrate, restored' = restored \cup {loop.key}
    PROVE  BranchInv'
<1> DEFINE th == RestoreFromMessages(NewThread, loop.msgs)
<1>1. /\ sess' = PutIn(sess, loop.s, loop.key, th) /\ loop'.at = "resolve" /\ UNCHANGED <<undo, inputs>>
      /\ loop.s \in DOMAIN sess /\ loop.key \in ThreadIds /\ SessOK(sess, ThreadIds) /\ inputs \in Nat
  BY DEF Hydrate, PutIn, LoopOK, BaseOK
<1>2. ThreadOK(th)
  <2>1. ThreadOK(NewThread)
    BY NewIsOK
  <2> QED BY <2>1, TurnsOK
<1> HIDE DEF th
<1>3. Sole(sess, sess', loop.s, loop.key, th)
  BY <1>1, <1>2, SoleFacts
<1>4. loop.key \in restored' /\ restored \subseteq restored' /\ inputs' \in Nat /\ inputs <= inputs'
  BY <1>1
<1>5. BranchesOK' /\ OneHome'
  BY <1>1, <1>3, <1>4, SoleKeeps
<1>6. LastTurn'
  BY <1>1 DEF LastTurn, Places
<1> QED BY <1>5, <1>6 DEF BranchInv

\* Only hydration adds to the hydrated threads.
LEMMA RestoredChange ==
    ASSUME LoopOK, Next
    PROVE  restored' = IF Hydrate THEN restored \cup {loop.key} ELSE restored
<1>1. Hydrate => loop.at = "hydrate" /\ loop'.at = "resolve"
  BY DEF Hydrate
<1>2. ASSUME loop.at = "hydrate", loop'.at = "resolve" PROVE Hydrate
  <2>1. ~Handlers
    BY <1>2 DEF Handlers, Handling, RefuseInput, ProcessUserInput, ProcessUndo, ProcessRedo, ProcessResume,
           ProcessInterrupt, ProcessCompact, ProcessClear, ProcessOther, ProcessSwitchThread, ProcessNewThread,
           RefuseApproval, Approve, Deny, ReadToken, TryToken
  <2>2. ~AgenticLoop
    BY <1>2 DEF AgenticLoop, CallLlm, RequestApproval, AdmitTool, RunTool, Finish
  <2>3. ~Receive /\ ~Resolve /\ ~Mint
    BY <1>2 DEF Receive, Resolve, Mint
  <2>4. WebNewThread \/ WebClearAuth \/ (\E w \in writes : PersistTurn(w)) \/ PruneRemove \/ PruneClean => loop' = loop
    BY DEF WebNewThread, WebClearAuth, PersistTurn, PruneRemove, PruneClean
  <2>5. Restart => loop'.at = "idle"
    BY DEF Restart, Idle
  <2> QED BY <1>2, <2>1, <2>2, <2>3, <2>4, <2>5 DEF Next, MessageLoop
<1>3. restored' = IF loop.at = "hydrate" /\ loop'.at = "resolve" THEN restored \cup {loop.key} ELSE restored
  BY DEF Next, Observe
<1> QED BY <1>1, <1>2, <1>3

\* Every step keeps the branches.
LEMMA NextBranch ==
    ASSUME IInv, BranchInv, Next
    PROVE  BranchInv'
<1> USE DEF IInv
<1>0. BranchesOK /\ OneHome
  BY DEF BranchInv
<1>1. CASE Hydrate
  BY <1>0, <1>1, RestoredChange, HydrateBranch
<1>2. ASSUME ~Hydrate PROVE BranchInv'
  <2>0. UNCHANGED restored
    BY <1>2, RestoredChange
  <2>1. CASE Handlers /\ Spare /\ UNCHANGED <<map, prune>>
    <3>1. CASE Plain /\ UNCHANGED <<live, db>>
      BY <1>0, <2>0, <3>1, PlainBranch
    <3>2. CASE ProcessUserInput /\ UNCHANGED <<live, db>>
      BY <1>0, <2>0, <3>2, InputBranch
    <3>3. CASE ProcessSwitchThread /\ UNCHANGED <<db, ran, writes>>
      BY <1>0, <2>0, <2>1, <3>3, SwitchBranch DEF Spare
    <3>4. CASE ProcessNewThread
      BY <2>0, <3>4, NewThreadBranch
    <3>5. CASE (RefuseApproval \/ Deny \/ TryToken) /\ UNCHANGED <<live, undo, db, inputs>>
      BY <1>0, <2>0, <3>5, ApprovalBranch
    <3>6. CASE Approve /\ UNCHANGED <<live, undo, db, inputs>>
      BY <1>0, <2>0, <3>6, ApproveBranch
    <3>7. CASE ReadToken /\ UNCHANGED <<live, undo, db, inputs>>
      BY <1>0, <2>0, <3>7, TokenBranch
    <3> QED BY <2>1, <3>1, <3>2, <3>3, <3>4, <3>5, <3>6, <3>7 DEF Handlers, Plain
  <2>2. CASE AgenticLoop
    <3>1. CASE Finish
      BY <2>0, <2>2, <3>1, FinishBranch DEF AgenticLoop
    <3>2. CASE (CallLlm /\ UNCHANGED sess) \/ AdmitTool \/ RunTool \/ RequestApproval
      <4>1. UNCHANGED <<live, undo, db, inputs, restored>>
        BY <2>0, <2>2 DEF AgenticLoop
      <4> QED BY <3>2, <4>1, TurnBranch
    <3> QED BY <2>2, <3>1, <3>2 DEF AgenticLoop
  <2>3. CASE WebNewThread \/ Mint
    BY <2>0, <2>3, NewThreadBranch
  <2>4. CASE Receive \/ Resolve
    BY <1>0, <2>0, <2>4, ResolvingBranch
  <2>5. CASE WebClearAuth \/ PruneRemove \/ PruneClean \/ Restart \/ \E w \in writes : PersistTurn(w)
    BY <2>0, <2>5, OutsideBranch
  <2> QED BY <1>2, <2>1, <2>2, <2>3, <2>4, <2>5 DEF Next, MessageLoop
<1> QED BY <1>1, <1>2

\* A step that changes nothing keeps them too.
LEMMA StutterBranch == BranchInv /\ UNCHANGED vars => BranchInv'
<1> SUFFICES ASSUME BranchInv, UNCHANGED vars PROVE BranchInv'
  OBVIOUS
<1>1. UNCHANGED <<sess, undo, inputs, restored, loop>>
  BY DEF vars
<1>2. BranchesOK'
  BY <1>1 DEF BranchInv, BranchesOK
<1>3. OneHome'
  BY <1>1 DEF BranchInv, OneHome
<1>4. LastTurn'
  BY <1>1 DEF BranchInv, LastTurn
<1> QED BY <1>2, <1>3, <1>4 DEF BranchInv

-----------------------------------------------------------------------------
(* Theorems. *)

\* The checkpoints of every thread that was not hydrated, the turns it has and
\* the turn the loop works on are in the order of their inputs.
THEOREM BranchInvariance == Spec => []BranchInv
<1>1. Init => BranchInv
  <2>1. SUFFICES ASSUME Init PROVE BranchInv
    OBVIOUS
  <2>2. sess = <<>> /\ loop = Idle
    BY <2>1 DEF Init
  <2>3. DOMAIN sess = {}
    BY <2>2
  <2> QED BY <2>2, <2>3 DEF BranchInv, BranchesOK, OneHome, LastTurn, Idle, Places
<1>2. IInv /\ BranchInv /\ [Next]_vars => BranchInv'
  BY NextBranch, StutterBranch
<1> QED BY <1>1, <1>2, Invariance, PTL DEF Spec

\* /redo never revives a branch that a newer turn has replaced, and never takes
\* the thread back (UndoManager::checkpoint, undo, redo and restore), whatever
\* the inputs, compactions, approvals, interrupts, prunings and restarts between.
THEOREM RedoIsSafe == Spec => []RedoKeepsTheBranch
<1>1. BaseOK /\ BranchInv => RedoKeepsTheBranch
  <2>1. SUFFICES ASSUME BaseOK, BranchInv, NEW s \in DOMAIN sess, NEW t \in DOMAIN sess[s].threads, t \notin restored,
                        NEW n \in DOMAIN undo[t].redo, NEW k \in DOMAIN sess[s].threads[t].turns
                 PROVE  undo[t].redo[n] # <<>> /\ Last(undo[t].redo[n]).of >= sess[s].threads[t].turns[k].input
    BY DEF RedoKeepsTheBranch, Threads, Thread
  <2> DEFINE turns == sess[s].threads[t].turns
             redo == undo[t].redo
             c == Cur(turns)
  <2>2. Good(turns) /\ Stacks(undo[t], c, inputs)
    BY <2>1 DEF BranchInv, BranchesOK, BranchOK
  <2>3. DOMAIN redo = 1 .. Len(redo)
    BY <2>2, ListedFacts DEF Stacks
  <2>4. c <= Top(redo[n]) /\ Chat(redo[n])
    BY <2>1, <2>2, <2>3 DEF Stacks
  <2> HIDE DEF redo, c
  <2>5. c \in Nat /\ turns[k].input \in Nat /\ turns[k].input <= c /\ c > 0
    <3>1. turns # <<>>
      BY <2>1
    <3> QED BY <2>1, <2>2, <3>1, GoodCur DEF c
  <2>6. Top(redo[n]) \in Nat
    BY <2>4, ChatFacts
  <2>7. Top(redo[n]) > 0 /\ Top(redo[n]) >= turns[k].input
    BY <2>4, <2>5, <2>6
  <2>8. redo[n] # <<>> /\ Top(redo[n]) = Last(redo[n]).of
    BY <2>7 DEF Top
  <2> QED BY <2>7, <2>8 DEF redo
<1>2. IInv => BaseOK
  BY DEF IInv
<1> QED BY <1>1, <1>2, Invariance, BranchInvariance, PTL
=============================================================================
