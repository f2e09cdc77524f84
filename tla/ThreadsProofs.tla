---------------------------- MODULE ThreadsProofs ----------------------------
(***************************************************************************)
(* Proofs about Threads, for every set of submissions and batches of tool  *)
(* calls and any number of messages, threads, prunings and restarts.       *)
(***************************************************************************)
EXTENDS Threads, SequenceTheorems, TLAPS

\* s is a sequence, of whatever.
Listed(s) == Len(s) \in Nat /\ s = [i \in 1 .. Len(s) |-> s[i]]

States == {"Idle", "Processing", "AwaitingApproval", "Interrupted"}
Places == {"llm", "tools", "run", "end"}           \* in the agentic loop
Guarded == {"auth", "shell", "rm"}                 \* tools that may need approval
Message == [role : {"user", "assistant"}, of : Nat]
Question == [id : Nat, tool : Tools, input : Nat]
Write == [t : ThreadIds, input : Nat, resp : BOOLEAN, user : BOOLEAN]

\* What a thread's turns and an undo manager's messages are does not matter here.
ThreadOK(th) ==
    /\ th = [state |-> th.state, turns |-> th.turns, req |-> th.req, auth |-> th.auth]
    /\ th.state \in States /\ th.req \in Question /\ th.auth \in BOOLEAN
SessionOK(x, ids) ==
    /\ x = [threads |-> x.threads, active |-> x.active, auto |-> x.auto]
    /\ x.threads = [t \in DOMAIN x.threads |-> x.threads[t]]
    /\ DOMAIN x.threads \subseteq ids /\ x.active \in {NoId} \cup DOMAIN x.threads
    /\ x.auto \subseteq {"auth", "shell"}
    /\ \A t \in DOMAIN x.threads : ThreadOK(x.threads[t])
SessOK(sessions, ids) == Listed(sessions) /\ \A s \in DOMAIN sessions : SessionOK(sessions[s], ids)
UndoOK(u) == u = [undo |-> u.undo, redo |-> u.redo] /\ Listed(u.undo) /\ Len(u.undo) <= MaxCheckpoints

\* Where the loop is, and what it holds on to there.
LoopOK ==
    /\ loop.at \in {"idle", "resolve", "hydrate", "mint", "dispatch", "token"} \cup Places
    /\ loop.at = "idle" => loop = Idle
    /\ loop.at = "resolve" => loop = [at |-> "resolve", key |-> loop.key]
    /\ loop.at = "hydrate" => loop = [at |-> "hydrate", key |-> loop.key, s |-> loop.s, msgs |-> loop.msgs]
    /\ loop.at = "mint" => loop = [at |-> "mint", key |-> loop.key, s |-> loop.s]
    /\ loop.at \in {"dispatch", "token"} =>
          loop = [at |-> loop.at, key |-> loop.key, s |-> loop.s, t |-> loop.t]
    /\ loop.at \in {"resolve", "mint", "dispatch", "token"} => loop.key \in {NoId} \cup ThreadIds
    /\ loop.at = "hydrate" => loop.key \in ThreadIds
    /\ loop.at \notin {"idle", "resolve"} => loop.s \in DOMAIN sess
    /\ loop.at \in {"dispatch", "token"} \cup Places => loop.t \in DOMAIN sess[loop.s].threads

\* The turn it works on.
TurnOK ==
    loop.at \in Places =>
        /\ loop = [at |-> loop.at, s |-> loop.s, t |-> loop.t, i |-> loop.i, via |-> loop.via,
                   iteration |-> loop.iteration, batch |-> loop.batch, result |-> loop.result]
        /\ loop.i \in Nat /\ loop.batch \in Seq(Tools)
        /\ loop.at \in {"tools", "run"} => loop.batch # <<>>
        /\ loop.at = "end" => loop.result \in {"error", "response", "approval"}
        /\ loop.at = "end" /\ loop.result = "approval" => loop.batch # <<>> /\ Head(loop.batch) \in Guarded

BaseOK ==
    /\ SessOK(sess, ThreadIds) /\ live \in 0 .. Len(sess)
    /\ map = [k \in DOMAIN map |-> map[k]]
    /\ DOMAIN map \subseteq {NoId} \cup ThreadIds /\ \A k \in DOMAIN map : map[k] \in ThreadIds
    /\ Listed(undo) /\ Len(undo) = Len(db) /\ \A t \in DOMAIN undo : UndoOK(undo[t])
    /\ db \in Seq(Seq(Message)) /\ writes \subseteq Write
    /\ prune.at \in {"idle", "clean"}
    /\ inputs \in Nat /\ ran \in Seq(Nat) /\ void \subseteq Requests
    /\ budget \in [messages : Nat, events : Nat]

\* A message becomes at most one turn.
Pending == IF loop.at \in {"resolve", "hydrate", "mint", "dispatch"} THEN 1 ELSE 0
BudgetInv == inputs + budget.messages + Pending <= MaxMessages

\* A thread is Processing only while the loop works on it.
BusyInv ==
    \A s \in DOMAIN sess : \A t \in DOMAIN sess[s].threads :
        Thread(s, t).state = "Processing" => loop.at \in Places /\ loop.s = s /\ loop.t = t

\* A request that waits does so in one thread, has not run and is not void, nor
\* is the one the loop is about to put into its thread.
WaitInv ==
    /\ \A s \in DOMAIN sess : \A t \in DOMAIN sess[s].threads :
          Thread(s, t).state = "AwaitingApproval" =>
              LET r == Thread(s, t).req
              IN  /\ r.id \in Requests /\ r.tool \in Guarded /\ ran[r.id] = 0 /\ r.id \notin void
                  /\ \A p \in DOMAIN sess : \A u \in DOMAIN sess[p].threads :
                        Thread(p, u).state = "AwaitingApproval" /\ Thread(p, u).req.id = r.id => p = s /\ u = t
                  /\ loop.at = "end" /\ loop.result = "approval" => r.id # Len(ran)
    /\ loop.at = "end" /\ loop.result = "approval" =>
          Len(ran) \in Requests /\ ran[Len(ran)] = 0 /\ Len(ran) \notin void

\* The thread a key is about to be given a new one for is not in the session.
MintInv ==
    loop.at = "mint" /\ loop.key \in DOMAIN map /\ live # 0 => map[loop.key] \notin DOMAIN sess[live].threads

\* A persist_turn that has written the question finds it in the database.
AnswerInv ==
    /\ AnswersFollowQuestions
    /\ \A w \in writes : w.user => \E q \in DOMAIN db[w.t] : db[w.t][q] = User(w.input)

\* The inductive invariant of the conversations.
IInv == BaseOK /\ LoopOK /\ TurnOK /\ BudgetInv /\ BusyInv /\ WaitInv /\ ApprovedOnce /\ MintInv /\ AnswerInv

-----------------------------------------------------------------------------
(* Sequences, threads and sessions. *)

\* A sequence of whatever can be appended to, cut and changed in one place.
LEMMA ListedFacts ==
    ASSUME NEW s, Listed(s)
    PROVE  /\ DOMAIN s = 1 .. Len(s)
           /\ \A e : /\ Listed(Append(s, e)) /\ Len(Append(s, e)) = Len(s) + 1
                     /\ Append(s, e)[Len(s) + 1] = e
                     /\ \A i \in DOMAIN s : Append(s, e)[i] = s[i]
           /\ s # <<>> => Listed(Tail(s)) /\ Len(Tail(s)) = Len(s) - 1
           /\ \A n \in DOMAIN s : Listed(SubSeq(s, 1, n - 1)) /\ Len(SubSeq(s, 1, n - 1)) = n - 1
           /\ \A i \in DOMAIN s : \A e : /\ Listed([s EXCEPT ![i] = e]) /\ Len([s EXCEPT ![i] = e]) = Len(s)
<1> DEFINE S == {s[i] : i \in 1 .. Len(s)}
<1>1. DOMAIN s = 1 .. Len(s) /\ Len(s) \in Nat
  BY DEF Listed
<1>2. s \in Seq(S)
  BY SeqDef DEF Listed
<1>3. ASSUME NEW T, NEW x \in Seq(T) PROVE Listed(x)
  BY DEF Listed
<1>4. ASSUME NEW e
      PROVE  /\ Listed(Append(s, e)) /\ Len(Append(s, e)) = Len(s) + 1 /\ Append(s, e)[Len(s) + 1] = e
             /\ \A i \in DOMAIN s : Append(s, e)[i] = s[i]
  <2>1. s \in Seq(S \cup {e}) /\ e \in S \cup {e}
    BY <1>2, SeqDef
  <2>2. Append(s, e) \in Seq(S \cup {e})
    BY <2>1
  <2> HIDE DEF S
  <2>3. Listed(Append(s, e))
    BY <1>3, <2>2
  <2> QED BY <1>1, <2>1, <2>3, AppendProperties
<1>5. ASSUME s # <<>> PROVE Listed(Tail(s)) /\ Len(Tail(s)) = Len(s) - 1
  <2> HIDE DEF S
  <2>1. Tail(s) \in Seq(S)
    BY <1>2, <1>5
  <2>2. Listed(Tail(s))
    BY <1>3, <2>1
  <2> QED BY <1>2, <1>5, <2>2, HeadTailProperties
<1>6. ASSUME NEW n \in DOMAIN s PROVE Listed(SubSeq(s, 1, n - 1)) /\ Len(SubSeq(s, 1, n - 1)) = n - 1
  <2> HIDE DEF S
  <2>1. SubSeq(s, 1, n - 1) \in Seq(S) /\ Len(SubSeq(s, 1, n - 1)) = n - 1
    BY <1>1, <1>2, SubSeqProperties
  <2> QED BY <1>3, <2>1
<1>7. ASSUME NEW i \in DOMAIN s, NEW e
      PROVE  Listed([s EXCEPT ![i] = e]) /\ Len([s EXCEPT ![i] = e]) = Len(s)
  <2>1. s \in Seq(S \cup {e}) /\ e \in S \cup {e}
    BY <1>2, SeqDef
  <2> HIDE DEF S
  <2>2. [s EXCEPT ![i] = e] \in Seq(S \cup {e}) /\ Len([s EXCEPT ![i] = e]) = Len(s)
    BY <1>1, <1>7, <2>1
  <2> QED BY <1>3, <2>2
<1> QED BY <1>1, <1>4, <1>5, <1>6, <1>7

\* Typed sequences are sequences, and so is the empty one.
LEMMA SeqsAreListed == Listed(<<>>) /\ Len(<<>>) = 0 /\ \A S : \A s \in Seq(S) : Listed(s)
  BY DEF Listed

\* From sessions S to sessions U only thread q of session p changes: it becomes
\* th, and every other thread of U was the same in S or is new.
Only(S, U, p, q, th) ==
    \A s \in DOMAIN U : \A t \in DOMAIN U[s].threads :
        \/ s = p /\ t = q /\ U[s].threads[t] = th
        \/ U[s].threads[t] = NewThread
        \/ /\ s # p \/ t # q
           /\ s \in DOMAIN S /\ t \in DOMAIN S[s].threads /\ U[s].threads[t] = S[s].threads[t]

\* Whatever waits in U, or is Processing, did so in S.
StillWaits(S, U) ==
    \A s \in DOMAIN U : \A t \in DOMAIN U[s].threads :
        U[s].threads[t].state = "AwaitingApproval" =>
            /\ s \in DOMAIN S /\ t \in DOMAIN S[s].threads
            /\ S[s].threads[t].state = "AwaitingApproval" /\ S[s].threads[t].req = U[s].threads[t].req
StillBusy(S, U) ==
    \A s \in DOMAIN U : \A t \in DOMAIN U[s].threads :
        U[s].threads[t].state = "Processing" =>
            s \in DOMAIN S /\ t \in DOMAIN S[s].threads /\ S[s].threads[t].state = "Processing"

\* Sessions and their threads stay where they are.
Keeps(S, U) ==
    \A s \in DOMAIN S : s \in DOMAIN U /\ DOMAIN S[s].threads \subseteq DOMAIN U[s].threads

\* Sessions of which one is changed: set to x, freed, a thread of it set, one put into it.
SetSession(S, s, x) == [S EXCEPT ![s] = x]
FreeIn(S, s) == [S EXCEPT ![s] = NewSession]
SetIn(S, s, t, th) == [S EXCEPT ![s].threads[t] = th]
PutIn(S, s, t, th) == [S EXCEPT ![s] = WithThread(S[s], t, th)]

\* A session whose thread t is now th.
SetThread(x, t, th) == [threads |-> [x.threads EXCEPT ![t] = th], active |-> x.active, auto |-> x.auto]

\* New threads and sessions are as they should be.
LEMMA NewIsOK == ThreadOK(NewThread) /\ (\A ids : SessionOK(NewSession, ids)) /\ NewSession.threads = <<>> /\ DOMAIN <<>> = {}
<1>1. ThreadOK(NewThread)
  BY DEF ThreadOK, NewThread, NoRequest, States, Tools, Question
<1>2. ASSUME NEW ids PROVE SessionOK(NewSession, ids)
  BY DEF SessionOK, NewSession, NoId
<1>3. NewSession.threads = <<>>
  BY DEF NewSession
<1>4. DOMAIN <<>> = {}
  OBVIOUS
<1> QED BY <1>1, <1>2, <1>3, <1>4

\* More ids may be dealt.
LEMMA MoreIds ==
    ASSUME NEW ids, NEW ids2, ids \subseteq ids2, NEW S, SessOK(S, ids)
    PROVE  SessOK(S, ids2)
  BY DEF SessOK, SessionOK

\* One thread of a session is set.
LEMMA SetThreadOK ==
    ASSUME NEW ids, NEW x, SessionOK(x, ids), NEW t \in DOMAIN x.threads, NEW th, ThreadOK(th)
    PROVE  /\ SessionOK(SetThread(x, t, th), ids)
           /\ DOMAIN SetThread(x, t, th).threads = DOMAIN x.threads
           /\ \A u \in DOMAIN x.threads : SetThread(x, t, th).threads[u] = IF u = t THEN th ELSE x.threads[u]
<1> DEFINE f == [x.threads EXCEPT ![t] = th]
<1>1. DOMAIN f = DOMAIN x.threads /\ \A u \in DOMAIN x.threads : f[u] = IF u = t THEN th ELSE x.threads[u]
  OBVIOUS
<1>2. f = [u \in DOMAIN f |-> f[u]]
  BY DEF SessionOK
<1>3. \A u \in DOMAIN f : ThreadOK(f[u])
  BY <1>1 DEF SessionOK
<1>4. SetThread(x, t, th) = [threads |-> f, active |-> x.active, auto |-> x.auto]
  BY DEF SetThread
<1> HIDE DEF f
<1> QED BY <1>1, <1>2, <1>3, <1>4 DEF SessionOK

\* A thread is put into a session.
LEMMA WithThreadOK ==
    ASSUME NEW ids, NEW x, SessionOK(x, ids), NEW t \in ids, NEW th, ThreadOK(th)
    PROVE  /\ SessionOK(WithThread(x, t, th), ids)
           /\ DOMAIN WithThread(x, t, th).threads = DOMAIN x.threads \cup {t}
           /\ \A u \in DOMAIN x.threads \cup {t} :
                 WithThread(x, t, th).threads[u] = IF u = t THEN th ELSE x.threads[u]
<1> DEFINE f == [u \in DOMAIN x.threads \cup {t} |-> IF u = t THEN th ELSE x.threads[u]]
<1>1. /\ DOMAIN f = DOMAIN x.threads \cup {t} /\ f = [u \in DOMAIN f |-> f[u]]
      /\ \A u \in DOMAIN x.threads \cup {t} : f[u] = IF u = t THEN th ELSE x.threads[u]
  OBVIOUS
<1>2. \A u \in DOMAIN f : ThreadOK(f[u])
  BY <1>1 DEF SessionOK
<1>3. WithThread(x, t, th) = [x EXCEPT !.threads = f, !.active = t]
  BY DEF WithThread
<1> HIDE DEF f
<1>4. WithThread(x, t, th) = [threads |-> f, active |-> t, auto |-> x.auto]
  BY <1>3 DEF SessionOK
<1> QED BY <1>1, <1>2, <1>4 DEF SessionOK

\* Another thread becomes the active one.
LEMMA ActiveOK ==
    ASSUME NEW ids, NEW x, SessionOK(x, ids), NEW t \in DOMAIN x.threads
    PROVE  SessionOK([x EXCEPT !.active = t], ids) /\ [x EXCEPT !.active = t].threads = x.threads
<1>1. [x EXCEPT !.active = t] = [threads |-> x.threads, active |-> t, auto |-> x.auto]
  BY DEF SessionOK
<1> QED BY <1>1 DEF SessionOK

\* One session of many is changed.
LEMMA SessionsChange ==
    ASSUME NEW ids, NEW S, SessOK(S, ids), NEW s \in DOMAIN S, NEW x, SessionOK(x, ids)
    PROVE  LET U == SetSession(S, s, x)
           IN  /\ SessOK(U, ids) /\ Len(U) = Len(S) /\ DOMAIN U = DOMAIN S /\ DOMAIN S = 1 .. Len(S)
               /\ \A p \in DOMAIN S : U[p] = IF p = s THEN x ELSE S[p]
<1> DEFINE U == SetSession(S, s, x)
<1>1. Listed(U) /\ Len(U) = Len(S) /\ DOMAIN S = 1 .. Len(S)
  BY ListedFacts DEF SessOK, SetSession
<1>2. DOMAIN U = DOMAIN S /\ \A p \in DOMAIN S : U[p] = IF p = s THEN x ELSE S[p]
  BY DEF SetSession
<1> HIDE DEF U
<1>3. ASSUME NEW p \in DOMAIN S PROVE SessionOK(U[p], ids)
  BY <1>2 DEF SessOK
<1>4. SessOK(U, ids)
  BY <1>1, <1>2, <1>3 DEF SessOK
<1> QED BY <1>1, <1>2, <1>4 DEF U

\* The session the user has, or gets when it has none.
LEMMA LiveIsThere ==
    ASSUME NEW ids, SessOK(sess, ids), live \in 0 .. Len(sess)
    PROVE  /\ SessOK(SessionsWithLive, ids) /\ DOMAIN SessionsWithLive = 1 .. Len(SessionsWithLive)
           /\ LiveSession \in DOMAIN SessionsWithLive /\ LiveSession \in 1 .. Len(SessionsWithLive)
           /\ \A s \in DOMAIN sess : s \in DOMAIN SessionsWithLive /\ SessionsWithLive[s] = sess[s]
           /\ \A s \in DOMAIN SessionsWithLive : s \notin DOMAIN sess => SessionsWithLive[s] = NewSession
<1>1. CASE live = 0
  <2> DEFINE U == Append(sess, NewSession)
  <2>1. /\ Listed(U) /\ Len(U) = Len(sess) + 1 /\ U[Len(sess) + 1] = NewSession
        /\ \A i \in DOMAIN sess : U[i] = sess[i]
    BY ListedFacts DEF SessOK
  <2> HIDE DEF U
  <2>2. DOMAIN U = 1 .. Len(U) /\ DOMAIN sess = 1 .. Len(sess) /\ Len(sess) \in Nat
    BY <2>1, ListedFacts DEF SessOK, Listed
  <2>3. ASSUME NEW s \in DOMAIN U PROVE s \in DOMAIN sess \/ s = Len(sess) + 1
    BY <2>1, <2>2
  <2>4. ASSUME NEW s \in DOMAIN U PROVE SessionOK(U[s], ids)
    BY <2>1, <2>3, NewIsOK DEF SessOK
  <2>5. SessOK(U, ids)
    BY <2>1, <2>4 DEF SessOK
  <2>6. SessionsWithLive = U /\ LiveSession = Len(sess) + 1
    BY <1>1 DEF U, SessionsWithLive, LiveSession
  <2> HIDE DEF SessionsWithLive, LiveSession
  <2>7. LiveSession \in 1 .. Len(U) /\ \A s \in DOMAIN sess : s \in DOMAIN U
    BY <2>1, <2>2, <2>6
  <2> QED BY <2>1, <2>2, <2>3, <2>5, <2>6, <2>7
<1>2. CASE live # 0
  <2>1. SessionsWithLive = sess /\ LiveSession = live
    BY <1>2 DEF SessionsWithLive, LiveSession
  <2>2. DOMAIN sess = 1 .. Len(sess) /\ Len(sess) \in Nat
    BY ListedFacts DEF SessOK, Listed
  <2> QED BY <1>2, <2>1, <2>2
<1> QED BY <1>1, <1>2

\* What is only changed at one place, to a thread that waits as it did, waits as
\* it did everywhere; the same for Processing.
LEMMA OnlyFacts ==
    ASSUME NEW S, NEW U, NEW p, NEW q, NEW th, Only(S, U, p, q, th)
    PROVE  /\ \/ th.state # "AwaitingApproval"
              \/ /\ p \in DOMAIN S /\ q \in DOMAIN S[p].threads
                 /\ S[p].threads[q].state = "AwaitingApproval" /\ S[p].threads[q].req = th.req
              => StillWaits(S, U)
           /\ \/ th.state # "Processing"
              \/ p \in DOMAIN S /\ q \in DOMAIN S[p].threads /\ S[p].threads[q].state = "Processing"
              => StillBusy(S, U)
<1>1. NewThread.state = "Idle"
  BY DEF NewThread
<1> QED BY <1>1 DEF Only, StillWaits, StillBusy

\* Only is about what there was before a session was made for the user, too.
LEMMA OnlyFromLive ==
    ASSUME NEW ids, SessOK(sess, ids), live \in 0 .. Len(sess), NEW U, NEW p, NEW q, NEW th, Only(SessionsWithLive, U, p, q, th)
    PROVE  Only(sess, U, p, q, th)
<1>1. /\ \A s \in DOMAIN sess : SessionsWithLive[s] = sess[s]
      /\ \A s \in DOMAIN SessionsWithLive : s \notin DOMAIN sess => DOMAIN SessionsWithLive[s].threads = {}
  <2> HIDE DEF SessionsWithLive
  <2> QED BY LiveIsThere, NewIsOK
<1> HIDE DEF SessionsWithLive
<1> QED BY <1>1 DEF Only

\* A thread is set.
LEMMA SetFacts ==
    ASSUME NEW ids, NEW S, SessOK(S, ids), NEW s \in DOMAIN S, NEW t \in DOMAIN S[s].threads, NEW th, ThreadOK(th)
    PROVE  LET U == SetIn(S, s, t, th)
           IN  /\ SessOK(U, ids) /\ Len(U) = Len(S) /\ DOMAIN U = DOMAIN S
               /\ Only(S, U, s, t, th) /\ Keeps(S, U)
               /\ \A p \in DOMAIN S : U[p].active = S[p].active /\ U[p].auto = S[p].auto
               /\ \A p \in DOMAIN S : DOMAIN U[p].threads = DOMAIN S[p].threads
<1> DEFINE U == SetIn(S, s, t, th)
<1>0. SessionOK(S[s], ids)
  BY DEF SessOK
<1> DEFINE x == SetThread(S[s], t, th)
<1>1. U = SetSession(S, s, x)
  <2>1. S[s] = [threads |-> S[s].threads, active |-> S[s].active, auto |-> S[s].auto]
    BY <1>0 DEF SessionOK
  <2>2. [S[s] EXCEPT !.threads[t] = th] = x
    BY <2>1 DEF SetThread
  <2>3. U = [S EXCEPT ![s] = [S[s] EXCEPT !.threads[t] = th]]
    BY DEF SetIn
  <2> QED BY <2>2, <2>3 DEF SetSession
<1>2. /\ SessionOK(x, ids) /\ DOMAIN x.threads = DOMAIN S[s].threads
      /\ \A u \in DOMAIN S[s].threads : x.threads[u] = IF u = t THEN th ELSE S[s].threads[u]
  BY <1>0, SetThreadOK
<1>3. x.active = S[s].active /\ x.auto = S[s].auto
  BY DEF SetThread
<1> HIDE DEF U, x
<1>4. /\ SessOK(U, ids) /\ Len(U) = Len(S) /\ DOMAIN U = DOMAIN S
      /\ \A p \in DOMAIN S : U[p] = IF p = s THEN x ELSE S[p]
  BY <1>1, <1>2, SessionsChange
<1>5. Only(S, U, s, t, th)
  BY <1>2, <1>4 DEF Only
<1>6. Keeps(S, U) /\ \A p \in DOMAIN S : DOMAIN U[p].threads = DOMAIN S[p].threads
  BY <1>2, <1>4 DEF Keeps
<1>7. \A p \in DOMAIN S : U[p].active = S[p].active /\ U[p].auto = S[p].auto
  BY <1>3, <1>4
<1> QED BY <1>4, <1>5, <1>6, <1>7 DEF U

\* A thread is put into a session.
LEMMA WithFacts ==
    ASSUME NEW ids, NEW S, SessOK(S, ids), NEW s \in DOMAIN S, NEW t \in ids, NEW th, ThreadOK(th)
    PROVE  LET U == PutIn(S, s, t, th)
           IN  /\ SessOK(U, ids) /\ Len(U) = Len(S) /\ DOMAIN U = DOMAIN S
               /\ Only(S, U, s, t, th) /\ Keeps(S, U) /\ t \in DOMAIN U[s].threads
               /\ \A p \in DOMAIN S : DOMAIN U[p].threads \subseteq DOMAIN S[p].threads \cup {t}
<1> DEFINE U == PutIn(S, s, t, th)
<1>0. SessionOK(S[s], ids)
  BY DEF SessOK
<1> DEFINE x == WithThread(S[s], t, th)
<1>2. /\ SessionOK(x, ids) /\ DOMAIN x.threads = DOMAIN S[s].threads \cup {t}
      /\ \A u \in DOMAIN S[s].threads \cup {t} : x.threads[u] = IF u = t THEN th ELSE S[s].threads[u]
  BY <1>0, WithThreadOK
<1>3. U = SetSession(S, s, x)
  BY DEF PutIn, SetSession
<1> HIDE DEF U, x
<1>4. /\ SessOK(U, ids) /\ Len(U) = Len(S) /\ DOMAIN U = DOMAIN S
      /\ \A p \in DOMAIN S : U[p] = IF p = s THEN x ELSE S[p]
  BY <1>2, <1>3, SessionsChange
<1>5. Only(S, U, s, t, th)
  BY <1>2, <1>4 DEF Only
<1>6. /\ Keeps(S, U) /\ t \in DOMAIN U[s].threads
      /\ \A p \in DOMAIN S : DOMAIN U[p].threads \subseteq DOMAIN S[p].threads \cup {t}
  BY <1>2, <1>4 DEF Keeps
<1> QED BY <1>4, <1>5, <1>6 DEF U

\* A session is freed.
LEMMA FreeFacts ==
    ASSUME NEW ids, NEW S, SessOK(S, ids), NEW s \in DOMAIN S, NEW t, NEW th, ThreadOK(th)
    PROVE  LET U == FreeIn(S, s)
           IN  /\ SessOK(U, ids) /\ Len(U) = Len(S) /\ DOMAIN U = DOMAIN S
               /\ Only(S, U, s, t, th) /\ \A p \in DOMAIN S : p # s => U[p] = S[p]
<1> DEFINE U == FreeIn(S, s)
<1>1. SessionOK(NewSession, ids) /\ DOMAIN NewSession.threads = {}
  BY NewIsOK
<1>2. U = SetSession(S, s, NewSession)
  BY DEF FreeIn, SetSession
<1> HIDE DEF U
<1>4. /\ SessOK(U, ids) /\ Len(U) = Len(S) /\ DOMAIN U = DOMAIN S
      /\ \A p \in DOMAIN S : U[p] = IF p = s THEN NewSession ELSE S[p]
  BY <1>1, <1>2, SessionsChange
<1>5. Only(S, U, s, t, th)
  BY <1>1, <1>4 DEF Only
<1> QED BY <1>4, <1>5 DEF U

\* Fields of a thread are set.
LEMMA FieldsOK ==
    ASSUME NEW th, ThreadOK(th)
    PROVE  /\ \A b \in BOOLEAN : LET x == [th EXCEPT !.auth = b]
                                 IN  ThreadOK(x) /\ x.state = th.state /\ x.req = th.req /\ x.turns = th.turns
           /\ \A turns : LET x == [th EXCEPT !.turns = turns] IN ThreadOK(x) /\ x.state = th.state /\ x.req = th.req
           /\ \A turns : LET x == [th EXCEPT !.turns = turns, !.state = "Idle"] IN ThreadOK(x) /\ x.state = "Idle"
           /\ \A st \in States : LET x == [th EXCEPT !.req = NoRequest, !.state = st] IN ThreadOK(x) /\ x.state = st
<1>1. th = [state |-> th.state, turns |-> th.turns, req |-> th.req, auth |-> th.auth]
  BY DEF ThreadOK
<1>2. /\ th.state \in States /\ th.req \in Question /\ th.auth \in BOOLEAN
  BY DEF ThreadOK
<1>3. ASSUME NEW b \in BOOLEAN, NEW x, x = [th EXCEPT !.auth = b]
      PROVE  ThreadOK(x) /\ x.state = th.state /\ x.req = th.req /\ x.turns = th.turns
  <2>1. x = [state |-> th.state, turns |-> th.turns, req |-> th.req, auth |-> b]
    BY <1>1, <1>3
  <2> QED BY <1>2, <2>1 DEF ThreadOK
<1>4. ASSUME NEW turns, NEW x, x = [th EXCEPT !.turns = turns]
      PROVE  ThreadOK(x) /\ x.state = th.state /\ x.req = th.req
  <2>1. x = [state |-> th.state, turns |-> turns, req |-> th.req, auth |-> th.auth]
    BY <1>1, <1>4
  <2> QED BY <1>2, <2>1 DEF ThreadOK
<1>5. ASSUME NEW st \in States, NEW turns, NEW x,
             x = [th EXCEPT !.turns = turns, !.state = st] \/ x = [th EXCEPT !.state = st, !.turns = turns]
      PROVE  ThreadOK(x) /\ x.state = st
  <2>1. x = [state |-> st, turns |-> turns, req |-> th.req, auth |-> th.auth]
    BY <1>1, <1>5
  <2> QED BY <1>2, <2>1 DEF ThreadOK
<1>13. NoRequest \in Question
  BY DEF NoRequest, Tools, Question
<1>14. ASSUME NEW st \in States, NEW x, x = [th EXCEPT !.req = NoRequest, !.state = st]
       PROVE  ThreadOK(x) /\ x.state = st
  <2>1. x = [state |-> st, turns |-> th.turns, req |-> NoRequest, auth |-> th.auth]
    BY <1>1, <1>14
  <2> QED BY <1>2, <1>13, <2>1 DEF ThreadOK
<1>15. ASSUME NEW turns, NEW x, x = [th EXCEPT !.turns = turns, !.state = "Idle"] PROVE ThreadOK(x) /\ x.state = "Idle"
  <2>1. "Idle" \in States
    BY DEF States
  <2> QED BY <1>5, <1>15, <2>1, Zenon
<1> QED BY <1>3, <1>4, <1>14, <1>15

\* What the handlers make of a thread.
LEMMA TurnsOK ==
    ASSUME NEW th, ThreadOK(th)
    PROVE  /\ \A i : ThreadOK(StartTurn(th, i)) /\ StartTurn(th, i).state = "Processing"
           /\ \A i : ThreadOK(CompleteTurn(th, i)) /\ CompleteTurn(th, i).state = "Idle"
           /\ ThreadOK(FailTurn(th)) /\ FailTurn(th).state = "Idle"
           /\ ThreadOK(Interrupt(th)) /\ Interrupt(th).state = "Interrupted"
           /\ \A msgs : ThreadOK(RestoreFromMessages(th, msgs)) /\ RestoreFromMessages(th, msgs).state = "Idle"
           /\ \A req \in Question :
                 /\ ThreadOK(AwaitApproval(th, req)) /\ AwaitApproval(th, req).state = "AwaitingApproval"
                 /\ AwaitApproval(th, req).req = req
<1>1. th = [state |-> th.state, turns |-> th.turns, req |-> th.req, auth |-> th.auth]
  BY DEF ThreadOK
<1>2. /\ th.state \in States /\ th.req \in Question /\ th.auth \in BOOLEAN
  BY DEF ThreadOK
<1>5. ASSUME NEW st \in States, NEW turns, NEW x,
             x = [th EXCEPT !.turns = turns, !.state = st] \/ x = [th EXCEPT !.state = st, !.turns = turns]
      PROVE  ThreadOK(x) /\ x.state = st
  <2>1. x = [state |-> st, turns |-> turns, req |-> th.req, auth |-> th.auth]
    BY <1>1, <1>5
  <2> QED BY <1>2, <2>1 DEF ThreadOK
<1>6. ASSUME NEW i PROVE ThreadOK(StartTurn(th, i)) /\ StartTurn(th, i).state = "Processing"
  <2> DEFINE y == Append(th.turns, Turn(i))
  <2>1. StartTurn(th, i) = [th EXCEPT !.turns = y, !.state = "Processing"]
    BY DEF StartTurn
  <2> HIDE DEF y
  <2> QED BY <1>5, <2>1 DEF States
<1>7. ASSUME NEW i PROVE ThreadOK(CompleteTurn(th, i)) /\ CompleteTurn(th, i).state = "Idle"
  <2> DEFINE y == SetLast(th.turns, [Last(th.turns) EXCEPT !.resp = i, !.state = "Completed"])
  <2>1. CompleteTurn(th, i) = [th EXCEPT !.state = "Idle", !.turns = y]
    BY DEF CompleteTurn
  <2> HIDE DEF y
  <2> QED BY <1>5, <2>1 DEF States
<1>8. ThreadOK(FailTurn(th)) /\ FailTurn(th).state = "Idle"
  <2> DEFINE y == SetLast(th.turns, [Last(th.turns) EXCEPT !.state = "Failed"])
  <2>1. FailTurn(th) = [th EXCEPT !.state = "Idle", !.turns = y]
    BY DEF FailTurn
  <2> HIDE DEF y
  <2> QED BY <1>5, <2>1 DEF States
<1>9. ThreadOK(Interrupt(th)) /\ Interrupt(th).state = "Interrupted"
  <2> DEFINE y == SetLast(th.turns, [Last(th.turns) EXCEPT !.state = "Interrupted"])
  <2>1. Interrupt(th) = [th EXCEPT !.state = "Interrupted", !.turns = y]
    BY DEF Interrupt
  <2> HIDE DEF y
  <2> QED BY <1>5, <2>1 DEF States
<1>10. ASSUME NEW msgs
       PROVE  ThreadOK(RestoreFromMessages(th, msgs)) /\ RestoreFromMessages(th, msgs).state = "Idle"
  <2>1. PICK y : RestoreFromMessages(th, msgs) = [th EXCEPT !.turns = y, !.state = "Idle"]
    BY DEF RestoreFromMessages
  <2> QED BY <1>5, <2>1 DEF States
<1>11. ASSUME NEW req \in Question, NEW st \in States, NEW x,
              x = [th EXCEPT !.state = st, !.req = req] \/ x = [th EXCEPT !.req = req, !.state = st]
       PROVE  ThreadOK(x) /\ x.state = st /\ x.req = req
  <2>1. x = [state |-> st, turns |-> th.turns, req |-> req, auth |-> th.auth]
    BY <1>1, <1>11
  <2> QED BY <1>2, <2>1 DEF ThreadOK
<1>12. ASSUME NEW req \in Question
       PROVE  /\ ThreadOK(AwaitApproval(th, req)) /\ AwaitApproval(th, req).state = "AwaitingApproval"
              /\ AwaitApproval(th, req).req = req
  <2>1. AwaitApproval(th, req) = [th EXCEPT !.state = "AwaitingApproval", !.req = req] /\ "AwaitingApproval" \in States
    BY DEF AwaitApproval, States
  <2> QED BY <1>11, <2>1, Zenon
<1> QED BY <1>6, <1>7, <1>8, <1>9, <1>10, <1>12

\* The thread a message is handled in.
LEMMA HereFacts ==
    ASSUME BaseOK, LoopOK, loop.at \in {"dispatch", "token"} \cup Places
    PROVE  /\ loop.s \in DOMAIN sess /\ loop.t \in DOMAIN sess[loop.s].threads /\ loop.t \in ThreadIds
           /\ ThreadOK(Thread(loop.s, loop.t))
           /\ ThreadOK(Here) /\ Here.state = Thread(loop.s, loop.t).state /\ Here.req = Thread(loop.s, loop.t).req
<1>1. loop.s \in DOMAIN sess /\ loop.t \in DOMAIN sess[loop.s].threads
  BY DEF LoopOK, Places
<1>2. SessionOK(sess[loop.s], ThreadIds)
  BY <1>1 DEF BaseOK, SessOK
<1>3. loop.t \in ThreadIds /\ ThreadOK(Thread(loop.s, loop.t))
  BY <1>1, <1>2 DEF SessionOK, Thread
<1> DEFINE th == Thread(loop.s, loop.t)
<1> HIDE DEF th
<1>4. /\ ThreadOK([th EXCEPT !.auth = FALSE]) /\ [th EXCEPT !.auth = FALSE].state = th.state
      /\ [th EXCEPT !.auth = FALSE].req = th.req
  BY <1>3, FieldsOK DEF th
<1>5. Here = [th EXCEPT !.auth = FALSE]
  BY DEF Here, th
<1> QED BY <1>1, <1>3, <1>4, <1>5 DEF th

\* A handler replies: the thread is as it leaves it, or its session is gone.
LEMMA ReplyFacts ==
    ASSUME BaseOK, LoopOK, loop.at \in {"dispatch", "token"} \cup Places, NEW th, ThreadOK(th), Reply(th)
    PROVE  SessOK(sess', ThreadIds) /\ Len(sess') = Len(sess) /\ Only(sess, sess', loop.s, loop.t, th) /\ loop' = Idle
<1>1. loop.s \in DOMAIN sess /\ loop.t \in DOMAIN sess[loop.s].threads /\ SessOK(sess, ThreadIds)
  BY HereFacts DEF BaseOK
<1> DEFINE U == SetIn(sess, loop.s, loop.t, th)
           V == FreeIn(sess, loop.s)
<1>2. SessOK(U, ThreadIds) /\ Len(U) = Len(sess) /\ Only(sess, U, loop.s, loop.t, th)
  BY <1>1, SetFacts
<1>3. SessOK(V, ThreadIds) /\ Len(V) = Len(sess) /\ Only(sess, V, loop.s, loop.t, th)
  BY <1>1, FreeFacts
<1>4. (sess' = U \/ sess' = V) /\ loop' = Idle
  BY DEF Reply, Done, SetIn, FreeIn
<1> HIDE DEF U, V
<1> QED BY <1>2, <1>3, <1>4

\* A new thread changes nothing else.
LEMMA OnlyThenNew ==
    ASSUME NEW S, NEW U, NEW V, NEW p, NEW q, NEW th, NEW a, NEW b,
           Only(S, U, p, q, th), Only(U, V, a, b, NewThread)
    PROVE  Only(S, V, p, q, th)
  BY DEF Only

\* A new id is dealt.
LEMMA NewIdFacts ==
    ASSUME BaseOK, AddId
    PROVE  /\ db' \in Seq(Seq(Message)) /\ Len(db') = Len(db) + 1 /\ Len(undo') = Len(db')
           /\ ThreadIds' = ThreadIds \cup {FreshId} /\ FreshId \notin ThreadIds
           /\ ThreadIds = 1 .. Len(db) /\ Len(db) \in Nat
           /\ db'[FreshId] = <<>> /\ \A t \in ThreadIds : db'[t] = db[t]
           /\ Listed(undo') /\ \A t \in DOMAIN undo' : UndoOK(undo'[t])
<1>1. db \in Seq(Seq(Message)) /\ <<>> \in Seq(Message)
  BY DEF BaseOK
<1>2. /\ db' \in Seq(Seq(Message)) /\ Len(db') = Len(db) + 1 /\ Len(db) \in Nat
      /\ db'[FreshId] = <<>> /\ \A t \in 1 .. Len(db) : db'[t] = db[t]
  BY <1>1, AppendProperties DEF AddId, FreshId
<1>3. ThreadIds = 1 .. Len(db) /\ ThreadIds' = 1 .. Len(db')
  BY <1>1, <1>2 DEF ThreadIds
<1>4. ThreadIds' = ThreadIds \cup {FreshId} /\ FreshId \notin ThreadIds
  BY <1>2, <1>3 DEF FreshId
<1>5. Listed(undo) /\ Len(undo) = Len(db) /\ \A t \in DOMAIN undo : UndoOK(undo[t])
  BY DEF BaseOK
<1>6. /\ Listed(undo') /\ Len(undo') = Len(undo) + 1 /\ undo'[Len(undo) + 1] = NewUndo
      /\ \A i \in DOMAIN undo : undo'[i] = undo[i]
  BY <1>5, ListedFacts DEF AddId
<1>7. UndoOK(NewUndo)
  BY SeqsAreListed, ThreadsAssumption DEF UndoOK, NewUndo
<1>8. DOMAIN undo = 1 .. Len(undo) /\ DOMAIN undo' = 1 .. Len(undo')
  BY <1>5, <1>6, ListedFacts
<1>9. \A t \in DOMAIN undo' : t \in DOMAIN undo \/ t = Len(undo) + 1
  BY <1>2, <1>5, <1>6, <1>8
<1> QED BY <1>2, <1>3, <1>4, <1>5, <1>6, <1>7, <1>9

\* The sessions and threads the loop holds on to are still there.
Holds(S) ==
    /\ loop.at \notin {"idle", "resolve"} => loop.s \in DOMAIN S
    /\ loop.at \in {"dispatch", "token"} \cup Places => loop.t \in DOMAIN S[loop.s].threads

\* They are, in every later version of the sessions.
LEMMA KeepsHolds ==
    ASSUME LoopOK, NEW U, Keeps(sess, U)
    PROVE  Holds(U)
  BY DEF LoopOK, Holds, Keeps, Places

\* What every step leaves of the sessions.
Sound == SessOK(sess', ThreadIds') /\ live' \in 0 .. Len(sess')
Calm == Sound /\ StillWaits(sess, sess') /\ StillBusy(sess, sess')

\* A step that leaves the sessions alone is calm.
LEMMA SessionsAlone ==
    ASSUME BaseOK, LoopOK, UNCHANGED <<sess, live>>, ThreadIds \subseteq ThreadIds'
    PROVE  Calm /\ Holds(sess')
<1>1. SessOK(sess', ThreadIds') /\ live' \in 0 .. Len(sess')
  BY MoreIds DEF BaseOK
<1> QED BY <1>1 DEF Sound, Calm, StillWaits, StillBusy, Holds, LoopOK, Places

\* The web and the prunings, at any time.
LEMMA OutsideSessions ==
    ASSUME BaseOK, LoopOK, TurnOK
    PROVE  /\ WebNewThread \/ WebClearAuth \/ PruneRemove => Calm /\ Holds(sess')
           /\ Restart => Calm
<1>0. /\ SessOK(sess, ThreadIds) /\ live \in 0 .. Len(sess) /\ DOMAIN sess = 1 .. Len(sess) /\ Len(sess) \in Nat
      /\ db \in Seq(Seq(Message))
  BY ListedFacts DEF BaseOK, SessOK, Listed
<1>1. /\ SessOK(SessionsWithLive, ThreadIds) /\ LiveSession \in DOMAIN SessionsWithLive
      /\ LiveSession \in 1 .. Len(SessionsWithLive) /\ Keeps(sess, SessionsWithLive)
  <2>1. \A s \in DOMAIN sess : s \in DOMAIN SessionsWithLive /\ SessionsWithLive[s] = sess[s]
    BY <1>0, LiveIsThere
  <2>2. Keeps(sess, SessionsWithLive)
    BY <2>1 DEF Keeps
  <2> QED BY <1>0, <2>2, LiveIsThere
<1> DEFINE S == SessionsWithLive
           L == LiveSession
<1>2. \A U : Keeps(S, U) => Keeps(sess, U)
  <2>1. /\ \A s \in DOMAIN sess : s \in DOMAIN SessionsWithLive /\ SessionsWithLive[s] = sess[s]
    BY <1>0, LiveIsThere
  <2> HIDE DEF SessionsWithLive
  <2> QED BY <2>1 DEF Keeps
<1> HIDE DEF SessionsWithLive, LiveSession
<1>3. ASSUME WebNewThread PROVE Calm /\ Holds(sess')
  <2> DEFINE U == PutIn(S, L, FreshId, NewThread)
  <2>1. sess' = U /\ live' = L /\ AddId
    BY <1>3 DEF WebNewThread, PutIn
  <2>2. ThreadIds' = ThreadIds \cup {FreshId}
    BY <2>1, NewIdFacts
  <2>3. SessOK(S, ThreadIds') /\ FreshId \in ThreadIds'
    BY <1>1, <2>2, MoreIds
  <2>4. SessOK(U, ThreadIds') /\ Len(U) = Len(S) /\ Only(S, U, L, FreshId, NewThread) /\ Keeps(S, U)
    BY <1>1, <2>3, NewIsOK, WithFacts
  <2> HIDE DEF U
  <2>5. Only(sess, U, L, FreshId, NewThread)
    BY <1>0, <2>4, OnlyFromLive
  <2>6. StillWaits(sess, U) /\ StillBusy(sess, U)
    BY <2>5, OnlyFacts DEF NewThread
  <2>7. Holds(U)
    BY <1>2, <2>4, KeepsHolds
  <2> QED BY <1>1, <2>1, <2>4, <2>6, <2>7 DEF Calm, Sound
<1>4. ASSUME WebClearAuth PROVE Calm /\ Holds(sess')
  <2> DEFINE a == S[L].active
             th == [S[L].threads[a] EXCEPT !.auth = FALSE]
             U == SetIn(S, L, a, th)
  <2>1. ThreadIds' = ThreadIds /\ live' = L
    BY <1>4 DEF WebClearAuth, ThreadIds
  <2>2. CASE sess' = S
    <3>1. Only(S, S, 0, 0, NewThread)
      <4>1. DOMAIN S = 1 .. Len(S) /\ Len(S) \in Nat
        BY <1>1, ListedFacts DEF SessOK, Listed
      <4> QED BY <4>1 DEF Only
    <3>2. Only(sess, S, 0, 0, NewThread)
      BY <1>0, <3>1, OnlyFromLive
    <3>3. StillWaits(sess, S) /\ StillBusy(sess, S)
      BY <3>2, OnlyFacts DEF NewThread
    <3>4. Holds(S)
      BY <1>1, KeepsHolds
    <3> QED BY <1>1, <2>1, <2>2, <3>3, <3>4 DEF Calm, Sound
  <2>3. CASE a # NoId /\ sess' = U
    <3>1. SessionOK(S[L], ThreadIds)
      BY <1>1 DEF SessOK
    <3>2. a \in DOMAIN S[L].threads /\ ThreadOK(S[L].threads[a])
      BY <2>3, <3>1 DEF SessionOK
    <3>3. ThreadOK(th) /\ th.state = S[L].threads[a].state /\ th.req = S[L].threads[a].req
      BY <3>2, FieldsOK
    <3> HIDE DEF a, th
    <3>4. SessOK(U, ThreadIds) /\ Len(U) = Len(S) /\ Only(S, U, L, a, th) /\ Keeps(S, U)
      BY <1>1, <3>2, <3>3, SetFacts
    <3> HIDE DEF U
    <3>5. StillWaits(S, U) /\ StillBusy(S, U)
      BY <1>1, <3>2, <3>3, <3>4, OnlyFacts
    <3>6. StillWaits(sess, U) /\ StillBusy(sess, U)
      <4>1. /\ \A s \in DOMAIN sess : S[s] = sess[s]
            /\ \A s \in DOMAIN S : s \notin DOMAIN sess => DOMAIN S[s].threads = {}
        BY <1>0, LiveIsThere, NewIsOK
      <4> QED BY <3>5, <4>1 DEF StillWaits, StillBusy
    <3>7. Holds(U)
      BY <1>2, <3>4, KeepsHolds
    <3> QED BY <1>1, <2>1, <2>3, <3>4, <3>6, <3>7 DEF Calm, Sound
  <2>4. sess' = S \/ (a # NoId /\ sess' = [S EXCEPT ![L].threads[a].auth = FALSE])
    BY <1>4 DEF WebClearAuth
  <2>5. [S EXCEPT ![L].threads[a].auth = FALSE] = U
    BY DEF SetIn
  <2> QED BY <2>2, <2>3, <2>4, <2>5
<1>5. ASSUME PruneRemove PROVE Calm /\ Holds(sess')
  <2> DEFINE U == FreeIn(sess, live)
  <2>1. /\ live \in DOMAIN sess /\ live' = 0 /\ ThreadIds' = ThreadIds
        /\ sess' = sess \/ (sess' = U /\ ~("s" \in DOMAIN loop /\ loop.s = live))
    BY <1>0, <1>5 DEF PruneRemove, ThreadIds, FreeIn
  <2>2. /\ SessOK(U, ThreadIds) /\ Len(U) = Len(sess) /\ DOMAIN U = DOMAIN sess
        /\ Only(sess, U, live, 0, NewThread) /\ \A p \in DOMAIN sess : p # live => U[p] = sess[p]
    <3>1. live \in DOMAIN sess /\ SessOK(sess, ThreadIds) /\ ThreadOK(NewThread)
      BY <1>0, <2>1, NewIsOK
    <3> QED BY <3>1, FreeFacts
  <2> HIDE DEF U
  <2>3. StillWaits(sess, U) /\ StillBusy(sess, U)
    BY <2>2, OnlyFacts DEF NewThread
  <2>4. ASSUME sess' = U, ~("s" \in DOMAIN loop /\ loop.s = live) PROVE Holds(U)
    <3>1. loop.at \notin {"idle", "resolve"} => "s" \in DOMAIN loop
      <4>1. CASE loop.at = "hydrate"
        BY <4>1 DEF LoopOK
      <4>2. CASE loop.at = "mint"
        BY <4>2 DEF LoopOK
      <4>3. CASE loop.at \in {"dispatch", "token"}
        BY <4>3 DEF LoopOK
      <4>4. CASE loop.at \in Places
        BY <4>4 DEF TurnOK
      <4> QED BY <4>1, <4>2, <4>3, <4>4 DEF LoopOK
    <3>2. loop.at \notin {"idle", "resolve"} => loop.s \in DOMAIN sess /\ loop.s # live
      BY <2>4, <3>1 DEF LoopOK
    <3> QED BY <2>2, <3>2 DEF LoopOK, Holds, Places
  <2>5. Holds(sess) /\ StillWaits(sess, sess) /\ StillBusy(sess, sess)
    BY DEF Holds, LoopOK, Places, StillWaits, StillBusy
  <2> QED BY <1>0, <2>1, <2>2, <2>3, <2>4, <2>5 DEF Calm, Sound
<1>6. ASSUME Restart PROVE Calm
  <2>1. sess' = <<>> /\ live' = 0
    BY <1>6 DEF Restart
  <2> QED BY <2>1, SeqsAreListed DEF Calm, Sound, SessOK, StillWaits, StillBusy
<1> QED BY <1>3, <1>4, <1>5, <1>6

\* A message is received and resolved to a thread.
LEMMA ResolvingSessions ==
    ASSUME BaseOK, LoopOK
    PROVE  /\ Receive => Calm
           /\ Hydrate => Calm
           /\ Resolve => Calm
           /\ Mint => Calm /\ loop.s \in DOMAIN sess' /\ FreshId \in DOMAIN sess'[loop.s].threads
<1>0. /\ SessOK(sess, ThreadIds) /\ live \in 0 .. Len(sess) /\ DOMAIN sess = 1 .. Len(sess) /\ Len(sess) \in Nat
      /\ db \in Seq(Seq(Message))
  BY ListedFacts DEF BaseOK, SessOK, Listed
<1>1. ASSUME sess' = SessionsWithLive, live' = LiveSession, ThreadIds' = ThreadIds
      PROVE  Calm
  <2>1. /\ SessOK(SessionsWithLive, ThreadIds) /\ LiveSession \in 1 .. Len(SessionsWithLive)
        /\ \A s \in DOMAIN sess : SessionsWithLive[s] = sess[s]
        /\ \A s \in DOMAIN SessionsWithLive : s \notin DOMAIN sess => DOMAIN SessionsWithLive[s].threads = {}
    BY <1>0, LiveIsThere, NewIsOK
  <2> HIDE DEF SessionsWithLive, LiveSession
  <2> QED BY <1>1, <2>1 DEF Calm, Sound, StillWaits, StillBusy
<1>2. ASSUME Receive PROVE Calm
  <2>1. ThreadIds' = ThreadIds /\ (UNCHANGED <<sess, live>> \/ (sess' = SessionsWithLive /\ live' = LiveSession))
    BY <1>2 DEF Receive, ThreadIds
  <2> QED BY <1>1, <2>1, SessionsAlone
<1>3. ASSUME Resolve PROVE Calm
  BY <1>1, <1>3 DEF Resolve, ThreadIds
<1>4. ASSUME Hydrate PROVE Calm
  <2> DEFINE th == RestoreFromMessages(NewThread, loop.msgs)
             U == PutIn(sess, loop.s, loop.key, th)
  <2>1. /\ sess' = U /\ live' = (IF live = 0 THEN loop.s ELSE live) /\ ThreadIds' = ThreadIds
        /\ loop.s \in DOMAIN sess /\ loop.key \in ThreadIds
    BY <1>4 DEF Hydrate, ThreadIds, LoopOK, PutIn
  <2>2. ThreadOK(th) /\ th.state = "Idle"
    <3>1. ThreadOK(NewThread)
      BY NewIsOK
    <3> QED BY <3>1, TurnsOK
  <2> HIDE DEF th
  <2>3. SessOK(U, ThreadIds) /\ Len(U) = Len(sess) /\ Only(sess, U, loop.s, loop.key, th)
    <3>1. SessOK(sess, ThreadIds) /\ loop.s \in DOMAIN sess /\ loop.key \in ThreadIds /\ ThreadOK(th)
      BY <1>0, <2>1, <2>2
    <3> QED BY <3>1, WithFacts
  <2> HIDE DEF U
  <2>4. StillWaits(sess, U) /\ StillBusy(sess, U)
    BY <2>2, <2>3, OnlyFacts
  <2> QED BY <1>0, <2>1, <2>3, <2>4 DEF Calm, Sound
<1>5. ASSUME Mint PROVE Calm /\ loop.s \in DOMAIN sess' /\ FreshId \in DOMAIN sess'[loop.s].threads
  <2> DEFINE U == PutIn(sess, loop.s, FreshId, NewThread)
  <2>1. sess' = U /\ live' = live /\ loop.s \in DOMAIN sess /\ AddId
    BY <1>5 DEF Mint, LoopOK, PutIn
  <2>2. ThreadIds' = ThreadIds \cup {FreshId}
    BY <2>1, NewIdFacts
  <2>3. SessOK(sess, ThreadIds') /\ FreshId \in ThreadIds' /\ ThreadOK(NewThread)
    BY <1>0, <2>2, MoreIds, NewIsOK
  <2>4. /\ SessOK(U, ThreadIds') /\ Len(U) = Len(sess) /\ DOMAIN U = DOMAIN sess /\ Only(sess, U, loop.s, FreshId, NewThread)
        /\ FreshId \in DOMAIN U[loop.s].threads
    BY <2>1, <2>3, WithFacts
  <2> HIDE DEF U
  <2>5. StillWaits(sess, U) /\ StillBusy(sess, U)
    BY <2>4, OnlyFacts DEF NewThread
  <2> QED BY <1>0, <2>1, <2>4, <2>5 DEF Calm, Sound
<1> QED BY <1>2, <1>3, <1>4, <1>5

\* A handler that replies with a thread that does not wait for anything new.
LEMMA ReplyIsCalm ==
    ASSUME BaseOK, LoopOK, UNCHANGED <<live, db>>, loop.at \in {"dispatch", "token"} \cup Places,
           NEW th, ThreadOK(th), Reply(th),
           \/ th.state = "AwaitingApproval"
              => Thread(loop.s, loop.t).state = "AwaitingApproval" /\ Thread(loop.s, loop.t).req = th.req,
           th.state = "Processing" => Thread(loop.s, loop.t).state = "Processing"
    PROVE  Calm
<1>1. SessOK(sess', ThreadIds) /\ Len(sess') = Len(sess) /\ Only(sess, sess', loop.s, loop.t, th)
  BY ReplyFacts
<1>2. loop.s \in DOMAIN sess /\ loop.t \in DOMAIN sess[loop.s].threads
  BY HereFacts
<1>3. StillWaits(sess, sess') /\ StillBusy(sess, sess')
  BY <1>1, <1>2, OnlyFacts DEF Thread
<1>4. live' \in 0 .. Len(sess') /\ ThreadIds' = ThreadIds
  BY <1>1 DEF BaseOK, ThreadIds
<1> QED BY <1>1, <1>3, <1>4 DEF Calm, Sound

\* The undo managers, and the managers with one of them set to x.
UndoAll(u) == Listed(u) /\ \A t \in DOMAIN u : UndoOK(u[t])
SetUndo(u, t, x) == [u EXCEPT ![t] = x]

\* One undo manager of many is changed.
LEMMA UndoChange ==
    ASSUME NEW u, UndoAll(u), NEW t \in DOMAIN u, NEW x, UndoOK(x)
    PROVE  UndoAll(SetUndo(u, t, x)) /\ Len(SetUndo(u, t, x)) = Len(u)
<1> DEFINE v == SetUndo(u, t, x)
<1>1. Listed(v) /\ Len(v) = Len(u)
  BY ListedFacts DEF UndoAll, SetUndo
<1>2. DOMAIN v = DOMAIN u /\ \A p \in DOMAIN u : v[p] = IF p = t THEN x ELSE u[p]
  BY DEF SetUndo
<1> HIDE DEF v
<1>3. UndoAll(v)
  BY <1>1, <1>2 DEF UndoAll
<1> QED BY <1>1, <1>3 DEF v

\* A checkpoint is pushed, a redo stack changed, the checkpoints from the nth on dropped.
LEMMA UndoSteps ==
    ASSUME NEW u, UndoOK(u)
    PROVE  /\ \A msgs : UndoOK(Checkpoint(u, msgs))
           /\ \A r : UndoOK([undo |-> u.undo, redo |-> r]) /\ [u EXCEPT !.redo = r] = [undo |-> u.undo, redo |-> r]
           /\ \A n \in DOMAIN u.undo : UndoOK([undo |-> SubSeq(u.undo, 1, n - 1), redo |-> <<>>])
           /\ UndoOK(NewUndo)
<1>1. /\ u = [undo |-> u.undo, redo |-> u.redo] /\ Listed(u.undo) /\ Len(u.undo) <= MaxCheckpoints
      /\ Len(u.undo) \in Nat /\ MaxCheckpoints \in Nat \ {0}
  BY ThreadsAssumption DEF UndoOK, Listed
<1>2. ASSUME NEW msgs PROVE UndoOK(Checkpoint(u, msgs))
  <2> DEFINE stack == Append(u.undo, msgs)
             y == IF Len(stack) > MaxCheckpoints THEN Tail(stack) ELSE stack
  <2>1. Listed(stack) /\ Len(stack) = Len(u.undo) + 1
    BY <1>1, ListedFacts
  <2>2. Checkpoint(u, msgs) = [undo |-> y, redo |-> <<>>]
    BY DEF Checkpoint
  <2> HIDE DEF stack
  <2>3. stack # <<>>
    BY <1>1, <2>1, SeqsAreListed
  <2>4. Listed(Tail(stack)) /\ Len(Tail(stack)) = Len(stack) - 1
    BY <2>1, <2>3, ListedFacts
  <2>5. Listed(y) /\ Len(y) <= MaxCheckpoints
    BY <1>1, <2>1, <2>4
  <2> HIDE DEF y
  <2> QED BY <2>2, <2>5 DEF UndoOK
<1>3. ASSUME NEW r
      PROVE  UndoOK([undo |-> u.undo, redo |-> r]) /\ [u EXCEPT !.redo = r] = [undo |-> u.undo, redo |-> r]
  BY <1>1 DEF UndoOK
<1>4. ASSUME NEW n \in DOMAIN u.undo
      PROVE  UndoOK([undo |-> SubSeq(u.undo, 1, n - 1), redo |-> <<>>])
  <2> DEFINE y == SubSeq(u.undo, 1, n - 1)
  <2>1. Listed(y) /\ Len(y) = n - 1 /\ n \in 1 .. Len(u.undo)
    BY <1>1, ListedFacts
  <2> HIDE DEF y
  <2>2. Len(y) <= MaxCheckpoints
    BY <1>1, <2>1
  <2>3. UndoOK([undo |-> y, redo |-> <<>>])
    BY <2>1, <2>2 DEF UndoOK
  <2> QED BY <2>3 DEF y
<1>5. UndoOK(NewUndo)
  BY <1>1, SeqsAreListed DEF UndoOK, NewUndo
<1> QED BY <1>2, <1>3, <1>4, <1>5

\* What the undo managers may be after a step that deals no id.
UndoSound == UndoAll(undo') /\ Len(undo') = Len(undo)

\* Any undo manager is cleared, or none.
LEMMA UndoCleared ==
    ASSUME BaseOK, NEW ids, undo' = [t \in DOMAIN undo |-> IF t \in ids THEN NewUndo ELSE undo[t]]
    PROVE  UndoSound
<1>1. UndoAll(undo) /\ DOMAIN undo = 1 .. Len(undo) /\ Len(undo) \in Nat
  BY ListedFacts DEF BaseOK, UndoAll, Listed
<1>2. UndoOK(NewUndo)
  BY SeqsAreListed, ThreadsAssumption DEF UndoOK, NewUndo
<1>3. DOMAIN undo' = 1 .. Len(undo) /\ \A t \in DOMAIN undo : undo'[t] = IF t \in ids THEN NewUndo ELSE undo[t]
  BY <1>1
<1>4. Len(undo') = Len(undo) /\ Listed(undo')
  <2>1. undo' \in Seq({undo'[i] : i \in 1 .. Len(undo)}) /\ Len(undo') = Len(undo)
    BY <1>1, <1>3, SeqDef
  <2> QED BY <2>1, SeqsAreListed
<1> QED BY <1>1, <1>2, <1>3, <1>4 DEF UndoSound, UndoAll

-----------------------------------------------------------------------------
(* What the steps do, as far as the invariant is concerned. *)

\* The message is answered and nothing waits, or is Processing, that did not before.
Replied ==
    /\ loop.at \in {"dispatch", "token"} /\ loop' = Idle /\ Calm /\ UndoSound
    /\ UNCHANGED <<map, db, writes, prune, inputs, ran, budget>>

\* The handlers of submissions that leave the thread with Reply.
Plain == \/ RefuseInput \/ ProcessUndo \/ ProcessRedo \/ ProcessResume
         \/ ProcessInterrupt \/ ProcessCompact \/ ProcessClear \/ ProcessOther

\* So do undo, redo, resume, interrupt, compact, clear and the refusals.
LEMMA PlainReplies ==
    ASSUME BaseOK, LoopOK, Plain, UNCHANGED <<live, db, ran, writes, budget, map, prune>>
    PROVE  Replied
<1>1. loop.at = "dispatch" /\ UNCHANGED inputs
  BY DEF Plain, Handling, RefuseInput, ProcessUndo, ProcessRedo, ProcessResume, ProcessInterrupt,
         ProcessCompact, ProcessClear, ProcessOther
<1>2. /\ loop.s \in DOMAIN sess /\ loop.t \in DOMAIN sess[loop.s].threads /\ loop.t \in ThreadIds
      /\ ThreadOK(Here) /\ Here.state = Thread(loop.s, loop.t).state /\ Here.req = Thread(loop.s, loop.t).req
  BY <1>1, HereFacts
<1>3. UndoAll(undo) /\ loop.t \in DOMAIN undo /\ UndoOK(undo[loop.t])
  <2>1. Listed(undo) /\ Len(undo) = Len(db) /\ db \in Seq(Seq(Message)) /\ \A t \in DOMAIN undo : UndoOK(undo[t])
    BY DEF BaseOK
  <2>2. DOMAIN undo = ThreadIds
    BY <2>1, ListedFacts DEF ThreadIds
  <2> QED BY <1>2, <2>1, <2>2 DEF UndoAll
<1>4. ASSUME NEW th, ThreadOK(th), Reply(th),
             th.state \in {"Idle", "Interrupted"} \/ (th.state = Here.state /\ th.req = Here.req), UndoSound
      PROVE  Replied
  <2>1. Calm
    BY <1>1, <1>2, <1>4, ReplyIsCalm
  <2> QED BY <1>1, <1>4, <2>1 DEF Replied, Reply, Done
<1>5. UNCHANGED undo => UndoSound
  BY <1>3 DEF UndoSound
<1>6. ASSUME Reply(Here), UNCHANGED undo PROVE Replied
  BY <1>2, <1>4, <1>5, <1>6
<1>7. ASSUME NEW msgs, Reply(RestoreFromMessages(Here, msgs)), UndoSound PROVE Replied
  <2>1. ThreadOK(RestoreFromMessages(Here, msgs)) /\ RestoreFromMessages(Here, msgs).state = "Idle"
    BY <1>2, TurnsOK
  <2> QED BY <1>4, <1>7, <2>1
<1>8. ASSUME NEW r, undo' = [undo EXCEPT ![loop.t].redo = r] PROVE UndoSound
  <2>1. undo' = [undo EXCEPT ![loop.t] = [undo[loop.t] EXCEPT !.redo = r]]
    BY <1>3, <1>8
  <2>2. [undo[loop.t] EXCEPT !.redo = r] = [undo |-> undo[loop.t].undo, redo |-> r]
    BY <1>3, UndoSteps
  <2>3. undo' = SetUndo(undo, loop.t, [undo |-> undo[loop.t].undo, redo |-> r])
    BY <2>1, <2>2 DEF SetUndo
  <2>4. UndoOK([undo |-> undo[loop.t].undo, redo |-> r])
    BY <1>3, UndoSteps
  <2> QED BY <1>3, <2>3, <2>4, UndoChange DEF UndoSound
<1>9. CASE RefuseInput
  BY <1>6, <1>9 DEF RefuseInput
<1>10. CASE ProcessUndo
  <2>1. \/ Reply(Here) /\ UNCHANGED undo
        \/ /\ undo' = [undo EXCEPT ![loop.t].redo = Append(undo[loop.t].redo, Messages(Here.turns))]
           /\ Reply(RestoreFromMessages(Here, Last(undo[loop.t].undo)))
    BY <1>10 DEF ProcessUndo
  <2> QED BY <1>6, <1>7, <1>8, <2>1
<1>11. CASE ProcessRedo
  <2>1. \/ Reply(Here) /\ UNCHANGED undo
        \/ /\ undo' = [undo EXCEPT ![loop.t].redo = Front(undo[loop.t].redo)]
           /\ Reply(RestoreFromMessages(Here, Last(undo[loop.t].redo)))
    BY <1>11 DEF ProcessRedo
  <2> QED BY <1>6, <1>7, <1>8, <2>1
<1>12. CASE ProcessResume
  <2>1. CASE Reply(Here) /\ UNCHANGED undo
    BY <1>6, <2>1
  <2>2. ASSUME NEW n \in DOMAIN undo[loop.t].undo,
               undo' = [undo EXCEPT ![loop.t] = [undo |-> SubSeq(undo[loop.t].undo, 1, n - 1), redo |-> <<>>]],
               Reply(RestoreFromMessages(Here, undo[loop.t].undo[n]))
        PROVE  Replied
    <3> DEFINE x == [undo |-> SubSeq(undo[loop.t].undo, 1, n - 1), redo |-> <<>>]
    <3>1. UndoOK(x)
      BY <1>3, UndoSteps
    <3>2. undo' = SetUndo(undo, loop.t, x)
      BY <2>2 DEF SetUndo
    <3> HIDE DEF x
    <3>3. UndoSound
      BY <1>3, <3>1, <3>2, UndoChange DEF UndoSound
    <3> QED BY <1>7, <2>2, <3>3
  <2> QED BY <1>12, <2>1, <2>2 DEF ProcessResume
<1>13. CASE ProcessInterrupt
  <2>1. (Reply(Here) \/ Reply(Interrupt(Here))) /\ UNCHANGED undo
    BY <1>13 DEF ProcessInterrupt
  <2>2. ThreadOK(Interrupt(Here)) /\ Interrupt(Here).state = "Interrupted"
    BY <1>2, TurnsOK
  <2> QED BY <1>4, <1>5, <1>6, <2>1, <2>2
<1>14. CASE ProcessCompact
  <2>1. UNCHANGED undo /\ \E turns : Reply([Here EXCEPT !.turns = turns])
    BY <1>14 DEF ProcessCompact
  <2>2. PICK turns : Reply([Here EXCEPT !.turns = turns])
    BY <2>1
  <2> DEFINE th == [Here EXCEPT !.turns = turns]
  <2>3. ThreadOK(th) /\ th.state = Here.state /\ th.req = Here.req
    BY <1>2, FieldsOK
  <2> HIDE DEF th
  <2>4. Reply(th)
    BY <2>2 DEF th
  <2> QED BY <1>4, <1>5, <2>1, <2>3, <2>4
<1>15. CASE ProcessClear
  <2>1. ASSUME NEW x, NEW turns, NEW st \in States, x = [Here EXCEPT !.turns = turns, !.state = st]
        PROVE  ThreadOK(x) /\ x.state = st
    <3>1. x = [state |-> st, turns |-> turns, req |-> Here.req, auth |-> Here.auth]
      BY <1>2, <2>1 DEF ThreadOK
    <3> QED BY <1>2, <2>1, <3>1 DEF ThreadOK
  <2>2. PICK th : th = [Here EXCEPT !.turns = <<>>, !.state = "Idle"]
    OBVIOUS
  <2>3. "Idle" \in States
    BY DEF States
  <2>4. ThreadOK(th) /\ th.state = "Idle"
    BY <2>1, <2>2, <2>3, Zenon
  <2>5. Reply(th) /\ undo' = SetUndo(undo, loop.t, NewUndo)
    BY <1>15, <2>2 DEF ProcessClear, SetUndo
  <2>6. UndoSound
    BY <1>3, <2>5, UndoSteps, UndoChange DEF UndoSound
  <2> QED BY <1>4, <2>4, <2>5, <2>6
<1>16. CASE ProcessOther
  BY <1>6, <1>16 DEF ProcessOther
<1> QED BY <1>9, <1>10, <1>11, <1>12, <1>13, <1>14, <1>15, <1>16 DEF Plain

\* So do the refused and the denied approvals, and the token that was tried.
LEMMA ApprovalReplies ==
    ASSUME BaseOK, LoopOK, RefuseApproval \/ Deny \/ TryToken,
           UNCHANGED <<live, undo, db, inputs, writes, budget, map, prune>>, TryToken => UNCHANGED ran
    PROVE  Replied
<1>1. loop.at \in {"dispatch", "token"} /\ UNCHANGED ran
  BY DEF Handling, RefuseApproval, Deny, TryToken
<1>2. /\ ThreadOK(Here) /\ Here.state = Thread(loop.s, loop.t).state /\ Here.req = Thread(loop.s, loop.t).req
      /\ ThreadOK(Thread(loop.s, loop.t))
  BY <1>1, HereFacts
<1>3. UndoSound
  BY DEF BaseOK, UndoSound, UndoAll
<1>4. ASSUME NEW th, ThreadOK(th), Reply(th), th.state = "Idle" \/ (th.state = Here.state /\ th.req = Here.req)
      PROVE  Replied
  <2>1. Calm
    BY <1>1, <1>2, <1>4, ReplyIsCalm
  <2> QED BY <1>1, <1>3, <1>4, <2>1 DEF Replied, Reply, Done
<1>5. CASE RefuseApproval
  BY <1>2, <1>4, <1>5 DEF RefuseApproval
<1>6. CASE Deny
  <2> DEFINE th == [Here EXCEPT !.req = NoRequest, !.state = "Idle"]
  <2>1. Reply(th)
    BY <1>6 DEF Deny
  <2>2. "Idle" \in States
    BY DEF States
  <2>3. ThreadOK(th) /\ th.state = "Idle"
    BY <1>2, <2>2, FieldsOK
  <2> HIDE DEF th
  <2> QED BY <1>4, <2>1, <2>3
<1>7. CASE TryToken
  <2>1. PICK b \in BOOLEAN : Reply([Thread(loop.s, loop.t) EXCEPT !.auth = b])
    <3>1. Thread(loop.s, loop.t).auth \in BOOLEAN
      BY <1>2 DEF ThreadOK
    <3>2. PICK again \in BOOLEAN : Reply([Thread(loop.s, loop.t) EXCEPT !.auth = Thread(loop.s, loop.t).auth \/ again])
      BY <1>7 DEF TryToken
    <3> QED BY <3>1, <3>2
  <2> DEFINE th == [Thread(loop.s, loop.t) EXCEPT !.auth = b]
  <2>2. ThreadOK(th) /\ th.state = Thread(loop.s, loop.t).state /\ th.req = Thread(loop.s, loop.t).req
    BY <1>2, FieldsOK
  <2>3. Reply(th)
    BY <2>1
  <2> HIDE DEF th
  <2> QED BY <1>2, <1>4, <2>2, <2>3
<1> QED BY <1>5, <1>6, <1>7

\* The session and the thread of the message once its auth mode has ended.
Cleared == SetIn(SessionsWithLive, loop.s, loop.t, Here)

\* Ending the auth mode changes that thread only.
LEMMA ClearedFacts ==
    ASSUME BaseOK, LoopOK, loop.at = "dispatch"
    PROVE  /\ SessOK(Cleared, ThreadIds) /\ LiveSession \in DOMAIN Cleared /\ LiveSession \in 1 .. Len(Cleared)
           /\ Only(sess, Cleared, loop.s, loop.t, Here)
           /\ StillWaits(sess, Cleared) /\ StillBusy(sess, Cleared)
<1>0. SessOK(sess, ThreadIds) /\ live \in 0 .. Len(sess)
  BY DEF BaseOK
<1>1. /\ SessOK(SessionsWithLive, ThreadIds) /\ LiveSession \in DOMAIN SessionsWithLive
      /\ LiveSession \in 1 .. Len(SessionsWithLive)
      /\ \A s \in DOMAIN sess : s \in DOMAIN SessionsWithLive /\ SessionsWithLive[s] = sess[s]
  BY <1>0, LiveIsThere
<1>2. /\ loop.s \in DOMAIN sess /\ loop.t \in DOMAIN sess[loop.s].threads
      /\ ThreadOK(Here) /\ Here.state = Thread(loop.s, loop.t).state /\ Here.req = Thread(loop.s, loop.t).req
  BY HereFacts
<1> HIDE DEF SessionsWithLive, LiveSession, Here
<1>3. loop.s \in DOMAIN SessionsWithLive /\ loop.t \in DOMAIN SessionsWithLive[loop.s].threads
  BY <1>1, <1>2
<1>4. /\ SessOK(Cleared, ThreadIds) /\ Len(Cleared) = Len(SessionsWithLive) /\ DOMAIN Cleared = DOMAIN SessionsWithLive
      /\ Only(SessionsWithLive, Cleared, loop.s, loop.t, Here)
  BY <1>1, <1>2, <1>3, SetFacts DEF Cleared
<1>5. Only(sess, Cleared, loop.s, loop.t, Here)
  BY <1>0, <1>4, OnlyFromLive
<1>6. StillWaits(sess, Cleared) /\ StillBusy(sess, Cleared)
  BY <1>2, <1>5, OnlyFacts DEF Thread
<1> QED BY <1>1, <1>4, <1>5, <1>6

\* So does /thread <uuid>.
LEMMA SwitchReplies ==
    ASSUME BaseOK, LoopOK, ProcessSwitchThread, UNCHANGED <<db, ran, writes, budget, map, prune>>
    PROVE  Replied
<1>1. loop.at = "dispatch" /\ live' = LiveSession /\ loop' = Idle /\ UNCHANGED <<undo, inputs>> /\ ThreadIds' = ThreadIds
  BY DEF ProcessSwitchThread, Handling, Done, ThreadIds
<1>2. /\ SessOK(Cleared, ThreadIds) /\ LiveSession \in DOMAIN Cleared /\ LiveSession \in 1 .. Len(Cleared)
      /\ StillWaits(sess, Cleared) /\ StillBusy(sess, Cleared)
  BY <1>1, ClearedFacts
<1>3. \/ sess' = Cleared
      \/ \E t \in DOMAIN Cleared[LiveSession].threads : sess' = [Cleared EXCEPT ![LiveSession].active = t]
  BY DEF ProcessSwitchThread, Cleared, SetIn
<1> HIDE DEF LiveSession, Cleared
<1>4. ASSUME sess' = Cleared PROVE Calm
  BY <1>1, <1>2, <1>4 DEF Calm, Sound
<1>5. ASSUME NEW t \in DOMAIN Cleared[LiveSession].threads, sess' = [Cleared EXCEPT ![LiveSession].active = t]
      PROVE  Calm
  <2> DEFINE C == Cleared[LiveSession]
             x == [C EXCEPT !.active = t]
  <2>1. SessionOK(C, ThreadIds) /\ t \in DOMAIN C.threads
    BY <1>2 DEF SessOK
  <2>2. SessionOK(x, ThreadIds) /\ x.threads = C.threads
    BY <2>1, ActiveOK
  <2>3. sess' = SetSession(Cleared, LiveSession, x)
    BY <1>5 DEF SetSession
  <2> HIDE DEF x
  <2>4. /\ SessOK(sess', ThreadIds) /\ Len(sess') = Len(Cleared) /\ DOMAIN sess' = DOMAIN Cleared
        /\ \A p \in DOMAIN Cleared : sess'[p] = IF p = LiveSession THEN x ELSE Cleared[p]
    BY <1>2, <2>2, <2>3, SessionsChange
  <2>5. \A p \in DOMAIN Cleared : sess'[p].threads = Cleared[p].threads
    BY <2>2, <2>4
  <2>6. StillWaits(sess, sess') /\ StillBusy(sess, sess')
    BY <1>2, <2>4, <2>5 DEF StillWaits, StillBusy
  <2> QED BY <1>1, <1>2, <2>4, <2>6 DEF Calm, Sound
<1>6. UndoSound
  BY <1>1 DEF BaseOK, UndoSound, UndoAll
<1>7. Calm
  BY <1>3, <1>4, <1>5
<1> QED BY <1>1, <1>6, <1>7 DEF Replied

\* /thread new leaves one more thread.
LEMMA NewThreadCalm ==
    ASSUME BaseOK, LoopOK, ProcessNewThread
    PROVE  Calm /\ loop.at = "dispatch" /\ loop' = Idle /\ AddId /\ UNCHANGED inputs
<1>1. loop.at = "dispatch" /\ live' = LiveSession /\ loop' = Idle /\ UNCHANGED inputs /\ AddId
  BY DEF ProcessNewThread, Handling, Done
<1>2. /\ SessOK(Cleared, ThreadIds) /\ LiveSession \in DOMAIN Cleared /\ LiveSession \in 1 .. Len(Cleared)
      /\ Only(sess, Cleared, loop.s, loop.t, Here)
  BY <1>1, ClearedFacts
<1>3. sess' = PutIn(Cleared, LiveSession, FreshId, NewThread)
  BY DEF ProcessNewThread, Cleared, SetIn, PutIn
<1>4. Here.state = Thread(loop.s, loop.t).state /\ Here.req = Thread(loop.s, loop.t).req
      /\ loop.s \in DOMAIN sess /\ loop.t \in DOMAIN sess[loop.s].threads
  BY <1>1, HereFacts
<1> HIDE DEF LiveSession, Cleared, Here
<1>5. ThreadIds' = ThreadIds \cup {FreshId}
  BY <1>1, NewIdFacts
<1>6. SessOK(Cleared, ThreadIds') /\ FreshId \in ThreadIds' /\ ThreadOK(NewThread)
  BY <1>2, <1>5, MoreIds, NewIsOK
<1>7. /\ SessOK(sess', ThreadIds') /\ Len(sess') = Len(Cleared)
      /\ Only(Cleared, sess', LiveSession, FreshId, NewThread)
  BY <1>2, <1>3, <1>6, WithFacts
<1>8. Only(sess, sess', loop.s, loop.t, Here)
  BY <1>2, <1>7, OnlyThenNew
<1>9. StillWaits(sess, sess') /\ StillBusy(sess, sess')
  BY <1>4, <1>8, OnlyFacts DEF Thread
<1> QED BY <1>1, <1>2, <1>7, <1>9 DEF Calm, Sound

\* The loop goes on in the thread it is in, the only one that is Processing.
OnlyHereBusy ==
    /\ \A s \in DOMAIN sess' : \A t \in DOMAIN sess'[s].threads :
          sess'[s].threads[t].state = "Processing" => s = loop.s /\ t = loop.t
    /\ loop.s \in DOMAIN sess' /\ loop.t \in DOMAIN sess'[loop.s].threads

\* A user input starts a turn.
LEMMA InputStarts ==
    ASSUME BaseOK, LoopOK, BusyInv, ProcessUserInput, UNCHANGED <<live, db>>
    PROVE  /\ Sound /\ StillWaits(sess, sess') /\ UndoSound /\ OnlyHereBusy
           /\ loop.at = "dispatch" /\ inputs' = inputs + 1 /\ loop' = Turning(inputs + 1, "input")
<1>1. loop.at = "dispatch" /\ inputs' = inputs + 1 /\ loop' = Turning(inputs + 1, "input") /\ ThreadIds' = ThreadIds
  BY DEF ProcessUserInput, Handling, ThreadIds
<1>2. /\ loop.s \in DOMAIN sess /\ loop.t \in DOMAIN sess[loop.s].threads /\ loop.t \in ThreadIds /\ ThreadOK(Here)
      /\ SessOK(sess, ThreadIds) /\ live \in 0 .. Len(sess)
  BY <1>1, HereFacts DEF BaseOK
<1>3. PICK turns : /\ undo' = [undo EXCEPT ![loop.t] = Checkpoint(undo[loop.t], Messages(turns))]
                   /\ PutHere(StartTurn([Here EXCEPT !.turns = turns], inputs + 1))
  BY DEF ProcessUserInput
<1> DEFINE b == [Here EXCEPT !.turns = turns]
           th == StartTurn(b, inputs + 1)
<1>4. ThreadOK(b)
  BY <1>2, FieldsOK
<1>5. sess' = SetIn(sess, loop.s, loop.t, th)
  BY <1>3 DEF PutHere, Put, SetIn
<1> HIDE DEF b
<1>6. ThreadOK(th) /\ th.state = "Processing"
  BY <1>4, TurnsOK
<1> HIDE DEF th
<1>7. /\ SessOK(sess', ThreadIds) /\ Len(sess') = Len(sess) /\ DOMAIN sess' = DOMAIN sess
      /\ Only(sess, sess', loop.s, loop.t, th) /\ Keeps(sess, sess')
  BY <1>2, <1>5, <1>6, SetFacts
<1>8. StillWaits(sess, sess')
  BY <1>6, <1>7, OnlyFacts
<1>9. OnlyHereBusy
  <2>1. ASSUME NEW s \in DOMAIN sess', NEW t \in DOMAIN sess'[s].threads, sess'[s].threads[t].state = "Processing"
        PROVE  s = loop.s /\ t = loop.t
    <3>1. NewThread.state = "Idle"
      BY DEF NewThread
    <3>2. CASE s \in DOMAIN sess /\ t \in DOMAIN sess[s].threads /\ sess'[s].threads[t] = sess[s].threads[t]
      BY <1>1, <2>1, <3>2 DEF BusyInv, Thread, Places
    <3> QED BY <1>7, <2>1, <3>1, <3>2 DEF Only
  <2> QED BY <1>2, <1>7, <2>1 DEF OnlyHereBusy, Keeps
<1>10. UndoSound
  <2> DEFINE x == Checkpoint(undo[loop.t], Messages(turns))
  <2>1. Listed(undo) /\ Len(undo) = Len(db) /\ db \in Seq(Seq(Message)) /\ \A t \in DOMAIN undo : UndoOK(undo[t])
    BY DEF BaseOK
  <2>2. DOMAIN undo = ThreadIds
    BY <2>1, ListedFacts DEF ThreadIds
  <2>3. UndoAll(undo) /\ loop.t \in DOMAIN undo /\ UndoOK(undo[loop.t])
    BY <1>2, <2>1, <2>2 DEF UndoAll
  <2>4. UndoOK(x)
    BY <2>3, UndoSteps
  <2> HIDE DEF x
  <2>5. undo' = SetUndo(undo, loop.t, x)
    BY <1>3 DEF SetUndo, x
  <2> QED BY <2>3, <2>4, <2>5, UndoChange DEF UndoSound
<1> QED BY <1>1, <1>2, <1>7, <1>8, <1>9, <1>10 DEF Sound

\* An approval makes its thread Processing, and the request runs.
LEMMA ApproveStarts ==
    ASSUME BaseOK, LoopOK, BusyInv, WaitInv, Approve, UNCHANGED <<live, db>>
    PROVE  /\ Sound /\ StillWaits(sess, sess') /\ OnlyHereBusy /\ loop.at = "dispatch"
           /\ sess'[loop.s].threads[loop.t].state = "Processing"
           /\ Thread(loop.s, loop.t).state = "AwaitingApproval"
           /\ Thread(loop.s, loop.t).req = Here.req
           /\ ran' = [ran EXCEPT ![Here.req.id] = @ + 1]
           /\ loop' = [Turning(Here.req.input, "approval") EXCEPT !.at = "run", !.batch = <<Here.req.tool>>]
<1>1. loop.at = "dispatch" /\ ran' = [ran EXCEPT ![Here.req.id] = @ + 1] /\ ThreadIds' = ThreadIds
  BY DEF Approve, Handling, ThreadIds
<1>2. /\ loop.s \in DOMAIN sess /\ loop.t \in DOMAIN sess[loop.s].threads /\ loop.t \in ThreadIds /\ ThreadOK(Here)
      /\ Here.state = Thread(loop.s, loop.t).state /\ Here.req = Thread(loop.s, loop.t).req
      /\ SessOK(sess, ThreadIds) /\ live \in 0 .. Len(sess)
  BY <1>1, HereFacts DEF BaseOK
<1> DEFINE th == [Here EXCEPT !.req = NoRequest, !.state = "Processing"]
<1>3. PICK arg \in {0} \cup Requests, always \in BOOLEAN :
         /\ ~ApprovalRefused(Here, arg)
         /\ sess' = [sess EXCEPT
                ![loop.s].auto = IF always THEN @ \cup {ToolName(Here.req.tool)} ELSE @,
                ![loop.s].threads[loop.t] = [Here EXCEPT !.req = NoRequest, !.state = "Processing"]]
         /\ loop' = [Turning(Here.req.input, "approval") EXCEPT
                !.at = "run", !.batch = <<Here.req.tool>>]
  BY DEF Approve
<1>4. Here.state = "AwaitingApproval"
  BY <1>3 DEF ApprovalRefused
<1> DEFINE x == sess[loop.s]
           auto == IF always THEN x.auto \cup {ToolName(Here.req.tool)} ELSE x.auto
           z == SetThread(x, loop.t, th)
           y == [threads |-> z.threads, active |-> z.active, auto |-> auto]
<1>5. ThreadOK(th) /\ th.state = "Processing"
  <2>1. "Processing" \in States
    BY DEF States
  <2> QED BY <1>2, <2>1, FieldsOK
<1>6. SessionOK(x, ThreadIds)
  BY <1>2 DEF SessOK
<1>7. sess' = SetSession(sess, loop.s, y)
  <2>1. x = [threads |-> x.threads, active |-> x.active, auto |-> x.auto]
    BY <1>6 DEF SessionOK
  <2> DEFINE w == [threads |-> x.threads, active |-> x.active, auto |-> auto]
  <2>2. sess' = [[sess EXCEPT ![loop.s].auto = auto] EXCEPT ![loop.s].threads[loop.t] = th]
    BY <1>3
  <2> HIDE DEF th, auto
  <2>3. [x EXCEPT !.auto = auto] = w
    BY <2>1
  <2>4. [w EXCEPT !.threads[loop.t] = th] = y
    BY DEF SetThread
  <2> HIDE DEF w, y
  <2>5. [sess EXCEPT ![loop.s].auto = auto] = [sess EXCEPT ![loop.s] = w]
    BY <1>2, <2>3
  <2>6. [[sess EXCEPT ![loop.s] = w] EXCEPT ![loop.s].threads[loop.t] = th] = [sess EXCEPT ![loop.s] = y]
    BY <1>2, <2>4
  <2> QED BY <2>2, <2>5, <2>6 DEF SetSession
<1>8. auto \subseteq {"auth", "shell"}
  <2>1. x.auto \subseteq {"auth", "shell"}
    BY <1>6 DEF SessionOK
  <2>2. Here.req.tool \in Guarded
    <3>1. loop.s \in DOMAIN sess /\ loop.t \in DOMAIN sess[loop.s].threads /\ Thread(loop.s, loop.t).state = "AwaitingApproval"
      BY <1>2, <1>4
    <3>2. Thread(loop.s, loop.t).req.tool \in Guarded
      BY <3>1 DEF WaitInv
    <3> QED BY <1>2, <3>2
  <2> QED BY <2>1, <2>2 DEF ToolName, Guarded
<1> HIDE DEF th, auto
<1>9. /\ SessionOK(z, ThreadIds) /\ DOMAIN z.threads = DOMAIN x.threads
      /\ \A u \in DOMAIN x.threads : z.threads[u] = IF u = loop.t THEN th ELSE x.threads[u]
  BY <1>2, <1>5, <1>6, SetThreadOK
<1> HIDE DEF z
<1>10. SessionOK(y, ThreadIds) /\ y.threads = z.threads
  BY <1>8, <1>9 DEF SessionOK
<1> HIDE DEF y
<1>11. /\ SessOK(sess', ThreadIds) /\ Len(sess') = Len(sess) /\ DOMAIN sess' = DOMAIN sess
       /\ \A p \in DOMAIN sess : sess'[p] = IF p = loop.s THEN y ELSE sess[p]
  BY <1>2, <1>7, <1>10, SessionsChange
<1>12. Only(sess, sess', loop.s, loop.t, th) /\ sess'[loop.s].threads[loop.t] = th /\ loop.t \in DOMAIN sess'[loop.s].threads
  BY <1>2, <1>9, <1>10, <1>11 DEF Only
<1>13. StillWaits(sess, sess')
  BY <1>5, <1>12, OnlyFacts
<1>14. OnlyHereBusy
  <2>1. ASSUME NEW s \in DOMAIN sess', NEW t \in DOMAIN sess'[s].threads, sess'[s].threads[t].state = "Processing"
        PROVE  s = loop.s /\ t = loop.t
    <3>1. NewThread.state = "Idle"
      BY DEF NewThread
    <3>2. CASE s \in DOMAIN sess /\ t \in DOMAIN sess[s].threads /\ sess'[s].threads[t] = sess[s].threads[t]
      BY <1>1, <2>1, <3>2 DEF BusyInv, Thread, Places
    <3> QED BY <1>12, <2>1, <3>1, <3>2 DEF Only
  <2> QED BY <1>2, <1>11, <1>12, <2>1 DEF OnlyHereBusy
<1>15. Sound
  BY <1>1, <1>2, <1>11 DEF Sound
<1> QED BY <1>1, <1>2, <1>3, <1>4, <1>5, <1>12, <1>13, <1>14, <1>15

\* A token is read: auth mode ends.
LEMMA TokenRead ==
    ASSUME BaseOK, LoopOK, ReadToken, UNCHANGED <<live, db>>
    PROVE  Calm /\ Holds(sess') /\ loop.at = "dispatch" /\ loop' = [at |-> "token", key |-> loop.key, s |-> loop.s, t |-> loop.t]
<1>1. /\ loop.at = "dispatch" /\ ThreadIds' = ThreadIds /\ sess' = SetIn(sess, loop.s, loop.t, Here)
      /\ loop' = [loop EXCEPT !.at = "token"]
  BY DEF ReadToken, Handling, ThreadIds, PutHere, Put, SetIn
<1>2. /\ loop.s \in DOMAIN sess /\ loop.t \in DOMAIN sess[loop.s].threads /\ ThreadOK(Here)
      /\ Here.state = Thread(loop.s, loop.t).state /\ Here.req = Thread(loop.s, loop.t).req
      /\ SessOK(sess, ThreadIds) /\ live \in 0 .. Len(sess)
  BY <1>1, HereFacts DEF BaseOK
<1>3. SessOK(sess', ThreadIds) /\ Len(sess') = Len(sess) /\ Only(sess, sess', loop.s, loop.t, Here) /\ Keeps(sess, sess')
  BY <1>1, <1>2, SetFacts
<1>4. StillWaits(sess, sess') /\ StillBusy(sess, sess')
  BY <1>2, <1>3, OnlyFacts DEF Thread
<1>5. Holds(sess')
  BY <1>3, KeepsHolds
<1>6. loop = [at |-> loop.at, key |-> loop.key, s |-> loop.s, t |-> loop.t]
  BY <1>1 DEF LoopOK
<1>7. loop' = [at |-> "token", key |-> loop.key, s |-> loop.s, t |-> loop.t]
  BY <1>1, <1>6
<1> QED BY <1>1, <1>2, <1>3, <1>4, <1>5, <1>7 DEF Calm, Sound

\* The agentic loop goes on in its thread.
GoesOn ==
    /\ loop.at \in Places /\ loop'.at \in Places /\ loop'.s = loop.s /\ loop'.t = loop.t
    /\ TurnOK' /\ Calm /\ Holds(sess')

\* The LLM is called, tools are admitted, held up or run.
LEMMA TurnGoesOn ==
    ASSUME BaseOK, LoopOK, TurnOK, UNCHANGED <<live, db>>
    PROVE  /\ CallLlm /\ UNCHANGED sess => GoesOn /\ (loop'.at = "end" => loop'.result # "approval")
           /\ AdmitTool \/ RunTool => GoesOn /\ UNCHANGED ran /\ (loop'.at = "end" => loop'.result # "approval")
           /\ RequestApproval => GoesOn /\ UNCHANGED sess /\ loop.at = "tools" /\ loop'.at = "end" /\ ran' = Append(ran, 0)
<1> DEFINE TurnAt(at, it, batch, result) ==
        [at |-> at, s |-> loop.s, t |-> loop.t, i |-> loop.i, via |-> loop.via,
         iteration |-> it, batch |-> batch, result |-> result]
<1>0. ThreadIds' = ThreadIds
  BY DEF ThreadIds
<1>1. ASSUME loop.at \in Places
      PROVE  /\ loop = TurnAt(loop.at, loop.iteration, loop.batch, loop.result)
             /\ loop.i \in Nat /\ loop.batch \in Seq(Tools) /\ (loop.at \in {"tools", "run"} => loop.batch # <<>>)
  BY <1>1 DEF TurnOK
<1>2. ASSUME NEW at \in Places, NEW it, NEW batch \in Seq(Tools), NEW result,
             loop.at \in Places, loop' = TurnAt(at, it, batch, result),
             at \in {"tools", "run"} => batch # <<>>,
             at = "end" => result \in {"error", "response", "approval"},
             at = "end" /\ result = "approval" => batch # <<>> /\ Head(batch) \in Guarded
      PROVE  /\ loop'.at \in Places /\ loop'.s = loop.s /\ loop'.t = loop.t /\ TurnOK' /\ loop'.at = at /\ loop'.result = result
  <2>1. /\ loop'.at = at /\ loop'.batch = batch /\ loop'.result = result /\ loop'.i = loop.i
        /\ loop'.s = loop.s /\ loop'.t = loop.t
        /\ loop' = [at |-> loop'.at, s |-> loop'.s, t |-> loop'.t, i |-> loop'.i, via |-> loop'.via,
                   iteration |-> loop'.iteration, batch |-> loop'.batch, result |-> loop'.result]
    BY <1>2
  <2>2. loop.i \in Nat
    BY <1>1, <1>2
  <2> QED BY <1>2, <2>1, <2>2 DEF TurnOK
<1>3. /\ {"llm", "tools", "run", "end"} = Places /\ <<>> \in Seq(Tools)
  BY DEF Places
<1>4. ASSUME NEW result \in {"error", "response"}, loop.at \in Places, End(result)
      PROVE  /\ loop'.at \in Places /\ loop'.s = loop.s /\ loop'.t = loop.t /\ TurnOK' /\ loop'.at = "end" /\ loop'.result = result
  <2>1. loop = TurnAt(loop.at, loop.iteration, loop.batch, loop.result)
    BY <1>1, <1>4
  <2>2. loop' = TurnAt("end", loop.iteration, <<>>, result)
    BY <1>4, <2>1 DEF End
  <2> HIDE DEF TurnAt
  <2> QED BY <1>2, <1>3, <1>4, <2>2
<1>5. UNCHANGED sess => Calm /\ Holds(sess')
  BY <1>0, SessionsAlone
<1>6. ASSUME CallLlm, UNCHANGED sess PROVE GoesOn /\ (loop'.at = "end" => loop'.result # "approval")
  <2>1. loop.at = "llm" /\ loop.at \in Places
    BY <1>6 DEF CallLlm, Places
  <2>2. CASE \E result \in {"error", "response"} : End(result)
    <3>1. PICK result \in {"error", "response"} : End(result)
      BY <2>2
    <3> QED BY <1>4, <1>5, <1>6, <2>1, <3>1 DEF GoesOn
  <2>3. CASE \E batch \in Batches : loop' = [loop EXCEPT !.at = "tools", !.batch = batch, !.iteration = @ + 1]
    <3>1. PICK batch \in Batches : loop' = [loop EXCEPT !.at = "tools", !.batch = batch, !.iteration = loop.iteration + 1]
      BY <2>3
    <3>2. batch \in Seq(Tools) /\ batch # <<>>
      BY ThreadsAssumption
    <3>3. loop = TurnAt(loop.at, loop.iteration, loop.batch, loop.result)
      BY <1>1, <2>1
    <3>4. loop' = TurnAt("tools", loop.iteration + 1, batch, loop.result)
      BY <3>1, <3>3
    <3> HIDE DEF TurnAt
    <3>5. loop'.at \in Places /\ loop'.s = loop.s /\ loop'.t = loop.t /\ TurnOK' /\ loop'.at = "tools"
      BY <1>2, <1>3, <2>1, <3>2, <3>4
    <3> QED BY <1>5, <1>6, <2>1, <3>5 DEF GoesOn
  <2> QED BY <1>6, <2>2, <2>3 DEF CallLlm
<1>7. ASSUME AdmitTool PROVE GoesOn /\ UNCHANGED ran /\ (loop'.at = "end" => loop'.result # "approval")
  <2>1. loop.at = "tools" /\ loop.at \in Places /\ loop' = [loop EXCEPT !.at = "run"] /\ UNCHANGED <<sess, ran>>
    BY <1>7 DEF AdmitTool, Places
  <2>2. /\ loop = TurnAt(loop.at, loop.iteration, loop.batch, loop.result)
        /\ loop.batch \in Seq(Tools) /\ loop.batch # <<>>
    BY <1>1, <2>1
  <2>3. loop' = TurnAt("run", loop.iteration, loop.batch, loop.result)
    BY <2>1, <2>2
  <2> HIDE DEF TurnAt
  <2>4. loop'.at \in Places /\ loop'.s = loop.s /\ loop'.t = loop.t /\ TurnOK' /\ loop'.at = "run"
    BY <1>2, <1>3, <2>1, <2>2, <2>3
  <2> QED BY <1>5, <2>1, <2>4 DEF GoesOn
<1>8. ASSUME RunTool PROVE GoesOn /\ UNCHANGED ran /\ (loop'.at = "end" => loop'.result # "approval")
  <2>1. loop.at = "run" /\ loop.at \in Places /\ UNCHANGED ran
    BY <1>8 DEF RunTool, Places
  <2>2. /\ loop = TurnAt(loop.at, loop.iteration, loop.batch, loop.result)
        /\ loop.batch \in Seq(Tools) /\ loop.batch # <<>>
    BY <1>1, <2>1
  <2>3. CASE UNCHANGED sess /\ Tail(loop.batch) = <<>> /\ loop' = [loop EXCEPT !.at = "llm", !.batch = <<>>]
    <3>1. loop' = TurnAt("llm", loop.iteration, <<>>, loop.result)
      BY <2>2, <2>3
    <3> HIDE DEF TurnAt
    <3>2. loop'.at \in Places /\ loop'.s = loop.s /\ loop'.t = loop.t /\ TurnOK' /\ loop'.at = "llm"
      BY <1>2, <1>3, <2>1, <3>1
    <3> QED BY <1>5, <2>1, <2>3, <3>2 DEF GoesOn
  <2>4. CASE UNCHANGED sess /\ Tail(loop.batch) # <<>> /\ loop' = [loop EXCEPT !.at = "tools", !.batch = Tail(loop.batch)]
    <3> DEFINE rest == Tail(loop.batch)
    <3>1. rest \in Seq(Tools) /\ rest # <<>>
      BY <2>2, <2>4
    <3>2. loop' = TurnAt("tools", loop.iteration, rest, loop.result)
      BY <2>2, <2>4
    <3> HIDE DEF TurnAt, rest
    <3>3. loop'.at \in Places /\ loop'.s = loop.s /\ loop'.t = loop.t /\ TurnOK' /\ loop'.at = "tools"
      BY <1>2, <1>3, <2>1, <3>1, <3>2
    <3> QED BY <1>5, <2>1, <2>4, <3>3 DEF GoesOn
  <2>5. CASE Put(loop.s, loop.t, [Thread(loop.s, loop.t) EXCEPT !.auth = TRUE]) /\ End("response")
    <3> DEFINE th == [Thread(loop.s, loop.t) EXCEPT !.auth = TRUE]
    <3>1. loop'.at \in Places /\ loop'.s = loop.s /\ loop'.t = loop.t /\ TurnOK' /\ loop'.result = "response"
      BY <1>4, <2>1, <2>5
    <3>2. /\ loop.s \in DOMAIN sess /\ loop.t \in DOMAIN sess[loop.s].threads /\ ThreadOK(Thread(loop.s, loop.t))
          /\ SessOK(sess, ThreadIds) /\ live \in 0 .. Len(sess)
      BY <2>1, HereFacts DEF BaseOK
    <3>3. ThreadOK(th) /\ th.state = Thread(loop.s, loop.t).state /\ th.req = Thread(loop.s, loop.t).req
      BY <3>2, FieldsOK
    <3>4. sess' = SetIn(sess, loop.s, loop.t, th)
      BY <2>5 DEF Put, SetIn
    <3> HIDE DEF th
    <3>5. SessOK(sess', ThreadIds) /\ Len(sess') = Len(sess) /\ Only(sess, sess', loop.s, loop.t, th) /\ Keeps(sess, sess')
      BY <3>2, <3>3, <3>4, SetFacts
    <3>6. StillWaits(sess, sess') /\ StillBusy(sess, sess')
      BY <3>2, <3>3, <3>5, OnlyFacts DEF Thread
    <3>7. Holds(sess')
      BY <3>5, KeepsHolds
    <3>8. Calm
      BY <1>0, <3>2, <3>5, <3>6 DEF Calm, Sound
    <3> QED BY <2>1, <3>1, <3>7, <3>8 DEF GoesOn
  <2> QED BY <1>8, <2>3, <2>4, <2>5 DEF RunTool
<1>9. ASSUME RequestApproval
      PROVE  GoesOn /\ UNCHANGED sess /\ loop.at = "tools" /\ loop'.at = "end" /\ ran' = Append(ran, 0)
  <2>1. /\ loop.at = "tools" /\ loop.at \in Places /\ loop' = [loop EXCEPT !.at = "end", !.result = "approval"]
        /\ UNCHANGED sess /\ ran' = Append(ran, 0) /\ NeedsApproval(Head(loop.batch))
    BY <1>9 DEF RequestApproval, Places
  <2>2. /\ loop = TurnAt(loop.at, loop.iteration, loop.batch, loop.result)
        /\ loop.batch \in Seq(Tools) /\ loop.batch # <<>>
    BY <1>1, <2>1
  <2>3. loop' = TurnAt("end", loop.iteration, loop.batch, "approval")
    BY <2>1, <2>2
  <2>4. Head(loop.batch) \in Guarded
    BY <2>1 DEF NeedsApproval, Guarded
  <2> HIDE DEF TurnAt
  <2>5. loop'.at \in Places /\ loop'.s = loop.s /\ loop'.t = loop.t /\ TurnOK' /\ loop'.at = "end"
    BY <1>2, <1>3, <2>1, <2>2, <2>3, <2>4
  <2> QED BY <1>5, <2>1, <2>5 DEF GoesOn
<1> QED BY <1>6, <1>7, <1>8, <1>9

\* A turn ends: nothing is Processing any more, a question may wait for its answer.
LEMMA TurnEnds ==
    ASSUME BaseOK, LoopOK, TurnOK, BusyInv, Finish, UNCHANGED <<live, db>>
    PROVE  /\ Sound /\ loop.at = "end" /\ loop' = Idle
           /\ \A s \in DOMAIN sess' : \A t \in DOMAIN sess'[s].threads : sess'[s].threads[t].state # "Processing"
           /\ \A w \in writes' : w \in writes \/ (w \in Write /\ ~w.user)
           /\ \/ StillWaits(sess, sess')
              \/ /\ loop.result = "approval"
                 /\ \A s \in DOMAIN sess' : \A t \in DOMAIN sess'[s].threads :
                       sess'[s].threads[t].state = "AwaitingApproval" =>
                          LET r == sess'[s].threads[t].req
                          IN  \/ s = loop.s /\ t = loop.t /\ r.id = Len(ran) /\ r.tool \in Guarded
                              \/ /\ s \in DOMAIN sess /\ t \in DOMAIN sess[s].threads
                                 /\ sess[s].threads[t].state = "AwaitingApproval" /\ sess[s].threads[t].req = r
<1> DEFINE old == Thread(loop.s, loop.t)
           req == [id |-> Len(ran), tool |-> Head(loop.batch), input |-> loop.i]
<1>1. loop.at = "end" /\ loop.at \in Places /\ ThreadIds' = ThreadIds
  BY DEF Finish, Places, ThreadIds
<1>2. /\ loop.s \in DOMAIN sess /\ loop.t \in DOMAIN sess[loop.s].threads /\ loop.t \in ThreadIds /\ ThreadOK(old)
      /\ SessOK(sess, ThreadIds) /\ live \in 0 .. Len(sess)
  BY <1>1, HereFacts DEF BaseOK
<1>3. ASSUME NEW th, ThreadOK(th), Reply(th), th.state # "Processing"
      PROVE  /\ Sound /\ loop' = Idle /\ Only(sess, sess', loop.s, loop.t, th)
             /\ \A s \in DOMAIN sess' : \A t \in DOMAIN sess'[s].threads : sess'[s].threads[t].state # "Processing"
  <2>1. SessOK(sess', ThreadIds) /\ Len(sess') = Len(sess) /\ Only(sess, sess', loop.s, loop.t, th) /\ loop' = Idle
    BY <1>1, <1>3, ReplyFacts
  <2>2. ASSUME NEW s \in DOMAIN sess', NEW t \in DOMAIN sess'[s].threads, sess'[s].threads[t].state = "Processing"
        PROVE  FALSE
    <3>1. NewThread.state = "Idle"
      BY DEF NewThread
    <3>2. CASE /\ s # loop.s \/ t # loop.t
               /\ s \in DOMAIN sess /\ t \in DOMAIN sess[s].threads /\ sess'[s].threads[t] = sess[s].threads[t]
      BY <2>2, <3>2 DEF BusyInv, Thread
    <3> QED BY <1>3, <2>1, <2>2, <3>1, <3>2 DEF Only
  <2> QED BY <1>1, <1>2, <2>1, <2>2 DEF Sound
<1>4. \A w \in writes' : w \in writes \/ (w \in Write /\ ~w.user)
  <2>1. loop.i \in Nat
    BY <1>1 DEF TurnOK
  <2>2. writes' = writes \/ \E b \in BOOLEAN :
             writes' = writes \cup {[t |-> loop.t, input |-> loop.i, resp |-> b, user |-> FALSE]}
    BY DEF Finish
  <2>3. \A b \in BOOLEAN : LET w == [t |-> loop.t, input |-> loop.i, resp |-> b, user |-> FALSE]
                           IN  w \in Write /\ ~w.user
    BY <1>2, <2>1 DEF Write
  <2> QED BY <2>2, <2>3
<1>5. ASSUME NEW th, ThreadOK(th), Reply(th), th.state \in {"Idle", "Interrupted"}
      PROVE  /\ Sound /\ loop' = Idle /\ StillWaits(sess, sess')
             /\ \A s \in DOMAIN sess' : \A t \in DOMAIN sess'[s].threads : sess'[s].threads[t].state # "Processing"
  <2>1. th.state # "Processing" /\ th.state # "AwaitingApproval"
    BY <1>5
  <2>2. Only(sess, sess', loop.s, loop.t, th)
    BY <1>3, <1>5, <2>1
  <2>3. StillWaits(sess, sess')
    BY <2>1, <2>2, OnlyFacts
  <2> QED BY <1>3, <1>5, <2>1, <2>3
<1>6. \/ old.state = "Interrupted" /\ Reply(old)
      \/ Reply(CompleteTurn(old, loop.i))
      \/ Reply(FailTurn(old))
      \/ loop.result = "approval" /\ Reply(AwaitApproval(old, req))
  BY DEF Finish
<1>7. CASE old.state = "Interrupted" /\ Reply(old)
  BY <1>1, <1>2, <1>4, <1>5, <1>7
<1>8. CASE Reply(CompleteTurn(old, loop.i))
  <2>1. ThreadOK(CompleteTurn(old, loop.i)) /\ CompleteTurn(old, loop.i).state = "Idle"
    BY <1>2, TurnsOK
  <2> QED BY <1>1, <1>4, <1>5, <1>8, <2>1
<1>9. CASE Reply(FailTurn(old))
  <2>1. ThreadOK(FailTurn(old)) /\ FailTurn(old).state = "Idle"
    BY <1>2, TurnsOK
  <2> QED BY <1>1, <1>4, <1>5, <1>9, <2>1
<1>10. CASE loop.result = "approval" /\ Reply(AwaitApproval(old, req))
  <2>1. loop.i \in Nat /\ loop.batch \in Seq(Tools) /\ loop.batch # <<>> /\ Head(loop.batch) \in Guarded /\ ran \in Seq(Nat)
    BY <1>1, <1>10 DEF TurnOK, BaseOK
  <2>2. Head(loop.batch) \in Tools /\ Len(ran) \in Nat
    BY <2>1
  <2>3. req \in Question /\ req.id = Len(ran) /\ req.tool \in Guarded
    BY <2>1, <2>2 DEF Question
  <2> HIDE DEF req
  <2> DEFINE th == AwaitApproval(old, req)
  <2>4. ThreadOK(th) /\ th.state = "AwaitingApproval" /\ th.req = req
    BY <1>2, <2>3, TurnsOK
  <2> HIDE DEF th
  <2>5. /\ Sound /\ loop' = Idle /\ Only(sess, sess', loop.s, loop.t, th)
        /\ \A s \in DOMAIN sess' : \A t \in DOMAIN sess'[s].threads : sess'[s].threads[t].state # "Processing"
    BY <1>3, <1>10, <2>4 DEF th
  <2>6. ASSUME NEW s \in DOMAIN sess', NEW t \in DOMAIN sess'[s].threads, sess'[s].threads[t].state = "AwaitingApproval"
        PROVE  \/ s = loop.s /\ t = loop.t /\ sess'[s].threads[t].req.id = Len(ran) /\ sess'[s].threads[t].req.tool \in Guarded
               \/ /\ s \in DOMAIN sess /\ t \in DOMAIN sess[s].threads
                  /\ sess[s].threads[t].state = "AwaitingApproval" /\ sess[s].threads[t].req = sess'[s].threads[t].req
    <3>1. NewThread.state = "Idle"
      BY DEF NewThread
    <3> QED BY <2>3, <2>4, <2>5, <2>6, <3>1 DEF Only
  <2> QED BY <1>1, <1>4, <1>10, <2>5, <2>6
<1> QED BY <1>6, <1>7, <1>8, <1>9, <1>10

\* The steps that do more than reply, with what they leave alone.
NewThreadStep == ProcessNewThread /\ UNCHANGED <<ran, writes, budget, map, prune>>
InputStep == ProcessUserInput /\ UNCHANGED <<live, db, ran, writes, budget, map, prune>>
ApproveStep == Approve /\ UNCHANGED <<live, undo, db, inputs, writes, budget, map, prune>>
TokenStep == ReadToken /\ UNCHANGED <<live, undo, db, inputs, ran, writes, budget, map, prune>>
TurnStep ==
    /\ (CallLlm /\ UNCHANGED <<sess, ran>>) \/ AdmitTool \/ RunTool
    /\ UNCHANGED <<live, undo, db, inputs, writes, budget, map, prune>>
AskStep == RequestApproval /\ UNCHANGED <<live, undo, db, inputs, writes, budget, map, prune>>
EndStep == Finish /\ UNCHANGED <<live, undo, db, inputs, ran, budget, map, prune>>
OtherStep ==
    \/ WebNewThread \/ WebClearAuth \/ Receive \/ Hydrate \/ Resolve \/ Mint
    \/ (\E w \in writes : PersistTurn(w)) \/ PruneRemove \/ PruneClean \/ Restart

\* Every step is one of them, or a reply.
LEMMA StepKinds ==
    ASSUME BaseOK, LoopOK, Next
    PROVE  /\ \/ Replied \/ NewThreadStep \/ InputStep \/ ApproveStep \/ TokenStep
              \/ TurnStep \/ AskStep \/ EndStep \/ OtherStep
           /\ Observe
<1>1. CASE Handlers /\ Spare /\ UNCHANGED <<map, prune>>
  <2>1. CASE Plain /\ UNCHANGED <<live, db, ran, writes>>
    <3>1. UNCHANGED <<live, db, ran, writes, budget, map, prune>>
      BY <1>1, <2>1 DEF Spare
    <3> QED BY <2>1, <3>1, PlainReplies DEF Next
  <2>2. CASE ProcessUserInput /\ UNCHANGED <<live, db, ran, writes>>
    BY <1>1, <2>2 DEF Spare, InputStep, Next
  <2>3. CASE ProcessSwitchThread /\ UNCHANGED <<db, ran, writes>>
    <3>1. UNCHANGED <<db, ran, writes, budget, map, prune>>
      BY <1>1, <2>3 DEF Spare
    <3> QED BY <2>3, <3>1, SwitchReplies DEF Next
  <2>4. CASE ProcessNewThread /\ UNCHANGED <<ran, writes>>
    BY <1>1, <2>4 DEF Spare, NewThreadStep, Next
  <2>5. CASE (RefuseApproval \/ Deny) /\ UNCHANGED <<live, undo, db, inputs, writes>>
    <3>1. UNCHANGED <<live, undo, db, inputs, writes, budget, map, prune>> /\ UNCHANGED ran
      BY <1>1, <2>5 DEF Spare, RefuseApproval, Deny
    <3> QED BY <2>5, <3>1, ApprovalReplies DEF Next
  <2>6. CASE Approve /\ UNCHANGED <<live, undo, db, inputs, writes>>
    BY <1>1, <2>6 DEF Spare, ApproveStep, Next
  <2>7. CASE TryToken /\ UNCHANGED <<live, undo, db, inputs, ran, writes>>
    <3>1. UNCHANGED <<live, undo, db, inputs, writes, budget, map, prune>> /\ UNCHANGED ran
      BY <1>1, <2>7 DEF Spare
    <3> QED BY <2>7, <3>1, ApprovalReplies DEF Next
  <2>8. CASE ReadToken /\ UNCHANGED <<live, undo, db, inputs, ran, writes>>
    BY <1>1, <2>8 DEF Spare, TokenStep, Next
  <2> QED BY <1>1, <2>1, <2>2, <2>3, <2>4, <2>5, <2>6, <2>7, <2>8 DEF Handlers, Plain
<1>2. CASE AgenticLoop /\ Spare /\ UNCHANGED <<map, prune>>
  BY <1>2 DEF AgenticLoop, Spare, TurnStep, AskStep, EndStep, Next
<1>3. CASE OtherStep
  BY <1>3 DEF Next
<1> QED BY <1>1, <1>2, <1>3 DEF Next, MessageLoop, OtherStep

\* A bound is spent.
LEMMA SpendFacts ==
    ASSUME BaseOK
    PROVE  /\ Spend("events") => budget' \in [messages : Nat, events : Nat] /\ budget'.messages = budget.messages
           /\ Spend("messages") => budget' \in [messages : Nat, events : Nat] /\ budget'.messages = budget.messages - 1
           /\ budget.messages \in Nat
  BY DEF BaseOK, Spend

\* A map with one more key.
LEMMA MapFacts ==
    ASSUME NEW ids, NEW k \in {NoId} \cup ids, NEW v \in ids, NEW m, DOMAIN m \subseteq {NoId} \cup ids,
           \A j \in DOMAIN m : m[j] \in ids, NEW n, n = [j \in DOMAIN m \cup {k} |-> IF j = k THEN v ELSE m[j]]
    PROVE  /\ n = [j \in DOMAIN n |-> n[j]] /\ DOMAIN n \subseteq {NoId} \cup ids /\ \A j \in DOMAIN n : n[j] \in ids
           /\ \A j \in DOMAIN m : j # k => j \in DOMAIN n /\ n[j] = m[j]
  OBVIOUS

\* BaseOK is kept.
LEMMA BaseSafe ==
    ASSUME IInv, Next
    PROVE  BaseOK'
<1> USE DEF IInv
<1>0. /\ Observe /\ (\/ Replied \/ NewThreadStep \/ InputStep \/ ApproveStep \/ TokenStep
                     \/ TurnStep \/ AskStep \/ EndStep \/ OtherStep)
  BY StepKinds
<1>1. /\ UndoAll(undo) /\ Len(undo) = Len(db) /\ db \in Seq(Seq(Message)) /\ writes \subseteq Write
      /\ prune.at \in {"idle", "clean"} /\ inputs \in Nat /\ ran \in Seq(Nat) /\ void \subseteq Requests
      /\ budget \in [messages : Nat, events : Nat]
      /\ map = [k \in DOMAIN map |-> map[k]] /\ DOMAIN map \subseteq {NoId} \cup ThreadIds
      /\ \A k \in DOMAIN map : map[k] \in ThreadIds
  BY DEF BaseOK, UndoAll
<1>2. ASSUME Sound, UndoAll(undo'), Len(undo') = Len(db'), db' \in Seq(Seq(Message)), (writes \subseteq Write)',
             prune'.at \in {"idle", "clean"}, inputs' \in Nat, ran' \in Seq(Nat), Requests \subseteq Requests',
             budget' \in [messages : Nat, events : Nat],
             map' = [k \in DOMAIN map' |-> map'[k]], DOMAIN map' \subseteq {NoId} \cup ThreadIds',
             \A k \in DOMAIN map' : map'[k] \in ThreadIds'
      PROVE  BaseOK'
  <2>1. void' \subseteq Requests'
    BY <1>0, <1>1, <1>2 DEF Observe, WaitingIn
  <2> QED BY <1>2, <2>1 DEF BaseOK, Sound, UndoAll
<1>3. ASSUME Sound, UndoSound, UNCHANGED <<map, db, prune, budget>>, (writes \subseteq Write)', inputs' \in Nat,
             ran' \in Seq(Nat), Requests \subseteq Requests'
      PROVE  BaseOK'
  <2>1. ThreadIds' = ThreadIds
    BY <1>3 DEF ThreadIds
  <2> QED BY <1>1, <1>2, <1>3, <2>1 DEF UndoSound
<1>4. (UNCHANGED undo => UndoSound) /\ (UNCHANGED ran => Requests' = Requests /\ ran' \in Seq(Nat))
  BY <1>1 DEF UndoSound, Requests
<1>5. ASSUME UNCHANGED <<db, writes>> PROVE (writes \subseteq Write)'
  BY <1>1, <1>5 DEF Write, ThreadIds
<1>6. ASSUME AddId, UNCHANGED writes
      PROVE  /\ (writes \subseteq Write)' /\ UndoAll(undo') /\ Len(undo') = Len(db') /\ db' \in Seq(Seq(Message))
             /\ ThreadIds' = ThreadIds \cup {FreshId}
  <2>1. /\ UndoAll(undo') /\ Len(undo') = Len(db') /\ db' \in Seq(Seq(Message))
        /\ ThreadIds' = ThreadIds \cup {FreshId}
    BY <1>6, NewIdFacts DEF UndoAll
  <2>2. Write \subseteq Write'
    BY <2>1 DEF Write
  <2> QED BY <1>1, <1>6, <2>1, <2>2
<1>10. CASE Replied
  BY <1>1, <1>3, <1>4, <1>5, <1>10 DEF Replied, Calm
<1>11. CASE NewThreadStep
  <2>1. Sound /\ AddId /\ UNCHANGED <<inputs, ran, writes, budget, map, prune>>
    BY <1>11, NewThreadCalm DEF NewThreadStep, Calm
  <2> QED BY <1>1, <1>2, <1>4, <1>6, <2>1
<1>12. CASE InputStep
  <2>1. Sound /\ UndoSound /\ inputs' = inputs + 1
    BY <1>12, InputStarts DEF InputStep
  <2> QED BY <1>1, <1>3, <1>4, <1>5, <1>12, <2>1 DEF InputStep
<1>13. CASE ApproveStep
  <2>1. Sound /\ ran' = [ran EXCEPT ![Here.req.id] = @ + 1]
    BY <1>13, ApproveStarts DEF ApproveStep
  <2>2. ran' \in Seq(Nat) /\ Requests' = Requests
    <3>1. ran' = [j \in DOMAIN ran |-> IF j = Here.req.id THEN ran[j] + 1 ELSE ran[j]]
      BY <1>1, <2>1
    <3>2. DOMAIN ran = 1 .. Len(ran) /\ Len(ran) \in Nat /\ \A j \in DOMAIN ran : ran[j] \in Nat
      BY <1>1
    <3>3. ran' \in [1 .. Len(ran) -> Nat]
      BY <3>1, <3>2
    <3> QED BY <3>1, <3>2, <3>3, SeqDef DEF Requests
  <2> QED BY <1>1, <1>3, <1>4, <1>5, <1>13, <2>1, <2>2 DEF ApproveStep
<1>14. CASE TokenStep
  <2>1. Sound
    BY <1>14, TokenRead DEF TokenStep, Calm
  <2> QED BY <1>1, <1>3, <1>4, <1>5, <1>14, <2>1 DEF TokenStep
<1>15. CASE TurnStep
  <2>1. Sound /\ UNCHANGED ran
    BY <1>15, TurnGoesOn DEF TurnStep, GoesOn, Calm
  <2> QED BY <1>1, <1>3, <1>4, <1>5, <1>15, <2>1 DEF TurnStep
<1>16. CASE AskStep
  <2>1. Sound /\ ran' = Append(ran, 0)
    BY <1>16, TurnGoesOn DEF AskStep, GoesOn, Calm
  <2>2. ran' \in Seq(Nat) /\ Requests \subseteq Requests'
    BY <1>1, <2>1 DEF Requests
  <2> QED BY <1>1, <1>3, <1>4, <1>5, <1>16, <2>1, <2>2 DEF AskStep
<1>17. CASE EndStep
  <2>1. Sound /\ \A w \in writes' : w \in writes \/ (w \in Write /\ ~w.user)
    BY <1>17, TurnEnds DEF EndStep
  <2>2. (writes \subseteq Write)'
    BY <1>1, <1>17, <2>1 DEF EndStep, Write, ThreadIds
  <2> QED BY <1>1, <1>3, <1>4, <1>17, <2>1, <2>2 DEF EndStep
<1>20. CASE WebNewThread
  <2>1. Sound /\ AddId /\ UNCHANGED <<inputs, ran, writes, map, prune>> /\ Spend("events")
    BY <1>20, OutsideSessions DEF WebNewThread, Calm
  <2>2. budget' \in [messages : Nat, events : Nat]
    BY <2>1, SpendFacts
  <2> QED BY <1>1, <1>2, <1>4, <1>6, <2>1, <2>2
<1>21. CASE WebClearAuth
  <2>1. Sound /\ UNCHANGED <<map, undo, db, writes, prune, inputs, ran, budget>>
    BY <1>21, OutsideSessions DEF WebClearAuth, Calm, Spare
  <2> QED BY <1>1, <1>3, <1>4, <1>5, <2>1
<1>22. CASE Receive
  <2>1. Sound /\ UNCHANGED <<map, undo, db, writes, prune, inputs, ran>> /\ Spend("messages")
    BY <1>22, ResolvingSessions DEF Receive, Calm
  <2>2. budget' \in [messages : Nat, events : Nat] /\ ThreadIds' = ThreadIds
    BY <2>1, SpendFacts DEF ThreadIds
  <2> QED BY <1>1, <1>2, <1>4, <1>5, <2>1, <2>2
<1>23. CASE Hydrate
  <2>1. /\ Sound /\ UNCHANGED <<undo, db, writes, prune, inputs, ran, budget>>
        /\ map' = [k \in DOMAIN map \cup {loop.key} |-> IF k = loop.key THEN loop.key ELSE map[k]]
        /\ loop.key \in ThreadIds
    BY <1>23, ResolvingSessions DEF Hydrate, Calm, Spare, LoopOK
  <2>2. ThreadIds' = ThreadIds
    BY <2>1 DEF ThreadIds
  <2>3. /\ map' = [k \in DOMAIN map' |-> map'[k]] /\ DOMAIN map' \subseteq {NoId} \cup ThreadIds
        /\ \A k \in DOMAIN map' : map'[k] \in ThreadIds
    BY <1>1, <2>1, MapFacts
  <2> QED BY <1>1, <1>2, <1>4, <1>5, <2>1, <2>2, <2>3
<1>24. CASE Resolve
  <2>1. Sound /\ UNCHANGED <<map, undo, db, writes, prune, inputs, ran, budget>>
    BY <1>24, ResolvingSessions DEF Resolve, Calm, Spare
  <2> QED BY <1>1, <1>3, <1>4, <1>5, <2>1
<1>25. CASE Mint
  <2>1. /\ Sound /\ AddId /\ UNCHANGED <<writes, prune, inputs, ran, budget>>
        /\ map' = [k \in DOMAIN map \cup {loop.key} |-> IF k = loop.key THEN FreshId ELSE map[k]]
        /\ loop.key \in {NoId} \cup ThreadIds
    BY <1>25, ResolvingSessions DEF Mint, Calm, Spare, LoopOK
  <2>2. ThreadIds' = ThreadIds \cup {FreshId}
    BY <1>6, <2>1
  <2>3. /\ map' = [k \in DOMAIN map' |-> map'[k]] /\ DOMAIN map' \subseteq {NoId} \cup ThreadIds'
        /\ \A k \in DOMAIN map' : map'[k] \in ThreadIds'
    <3>1. /\ loop.key \in {NoId} \cup ThreadIds' /\ FreshId \in ThreadIds' /\ DOMAIN map \subseteq {NoId} \cup ThreadIds'
          /\ \A k \in DOMAIN map : map[k] \in ThreadIds'
      BY <1>1, <2>1, <2>2
    <3> QED BY <2>1, <3>1, MapFacts
  <2> QED BY <1>1, <1>2, <1>4, <1>6, <2>1, <2>3
<1>26. ASSUME NEW w \in writes, PersistTurn(w) PROVE BaseOK'
  <2>1. UNCHANGED <<sess, live, map, undo, loop, prune, inputs, ran, budget>>
    BY <1>26 DEF PersistTurn, Spare
  <2>2. w \in Write /\ w.t \in ThreadIds /\ w.input \in Nat
    BY <1>1 DEF Write
  <2>3. /\ db' \in Seq(Seq(Message)) /\ Len(db') = Len(db) /\ ThreadIds' = ThreadIds
    <3>1. db' = db \/ \E m \in Message : db' = [db EXCEPT ![w.t] = Append(db[w.t], m)]
      BY <1>26, <2>2 DEF PersistTurn, User, Assistant, Message
    <3>2. ASSUME NEW m \in Message, db' = [db EXCEPT ![w.t] = Append(db[w.t], m)]
          PROVE  db' \in Seq(Seq(Message)) /\ Len(db') = Len(db)
      <4>1. db[w.t] \in Seq(Message)
        BY <1>1, <2>2 DEF ThreadIds
      <4>2. Append(db[w.t], m) \in Seq(Message)
        BY <4>1
      <4> QED BY <1>1, <2>2, <3>2, <4>2 DEF ThreadIds
    <3>3. db' \in Seq(Seq(Message)) /\ Len(db') = Len(db)
      BY <1>1, <3>1, <3>2
    <3> QED BY <1>1, <3>3 DEF ThreadIds
  <2>4. writes' \subseteq Write
    <3>1. writes' \subseteq writes \cup {[w EXCEPT !.user = TRUE]}
      BY <1>26 DEF PersistTurn
    <3>2. [w EXCEPT !.user = TRUE] \in Write
      BY <2>2 DEF Write
    <3> QED BY <1>1, <3>1, <3>2
  <2>5. (writes \subseteq Write)'
    BY <2>3, <2>4 DEF Write
  <2>6. Sound
    BY <2>1, <2>3, SessionsAlone DEF Calm
  <2> QED BY <1>1, <1>2, <1>4, <2>1, <2>3, <2>5, <2>6
<1>27. CASE PruneRemove
  <2>1. Sound /\ UNCHANGED <<map, undo, db, writes, inputs, ran>> /\ Spend("events") /\ prune'.at = "clean"
    BY <1>27, OutsideSessions DEF PruneRemove, Calm
  <2>2. budget' \in [messages : Nat, events : Nat] /\ ThreadIds' = ThreadIds
    BY <2>1, SpendFacts DEF ThreadIds
  <2> QED BY <1>1, <1>2, <1>4, <1>5, <2>1, <2>2
<1>28. DOMAIN <<>> = {} /\ <<>> = [k \in DOMAIN <<>> |-> <<>>[k]]
  OBVIOUS
<1>29. CASE PruneClean
  <2>1. /\ UNCHANGED <<sess, live, db, writes, loop, inputs, ran, budget>> /\ map' = <<>> /\ prune'.at = "idle"
        /\ undo' = [t \in DOMAIN undo |-> IF t \in prune.ids THEN NewUndo ELSE undo[t]]
    BY <1>29 DEF PruneClean, Spare, Idle
  <2>2. UndoSound /\ ThreadIds' = ThreadIds
    BY <2>1, UndoCleared DEF ThreadIds
  <2>3. Sound
    BY <2>1, <2>2, SessionsAlone DEF Calm
  <2>4. /\ map' = [k \in DOMAIN map' |-> map'[k]] /\ DOMAIN map' \subseteq {NoId} \cup ThreadIds'
        /\ \A k \in DOMAIN map' : map'[k] \in ThreadIds'
    BY <1>28, <2>1
  <2> QED BY <1>1, <1>2, <1>4, <1>5, <2>1, <2>2, <2>3, <2>4 DEF UndoSound
<1>30. CASE Restart
  <2>1. /\ Sound /\ UNCHANGED <<db, inputs, ran>> /\ Spend("events") /\ map' = <<>> /\ prune'.at = "idle" /\ writes' = {}
        /\ undo' = [t \in DOMAIN undo |-> NewUndo]
    BY <1>30, OutsideSessions DEF Restart, Calm, Idle
  <2>2. undo' = [t \in DOMAIN undo |-> IF t \in DOMAIN undo THEN NewUndo ELSE undo[t]]
    BY <2>1
  <2>3. UndoSound
    BY <2>2, UndoCleared
  <2>4. /\ map' = [k \in DOMAIN map' |-> map'[k]] /\ DOMAIN map' \subseteq {NoId} \cup ThreadIds'
        /\ \A k \in DOMAIN map' : map'[k] \in ThreadIds'
    BY <1>28, <2>1
  <2>5. budget' \in [messages : Nat, events : Nat]
    BY <2>1, SpendFacts
  <2> QED BY <1>1, <1>2, <1>4, <2>1, <2>3, <2>4, <2>5 DEF UndoSound
<1> QED BY <1>0, <1>10, <1>11, <1>12, <1>13, <1>14, <1>15, <1>16, <1>17, <1>20, <1>21, <1>22, <1>23, <1>24, <1>25,
           <1>26, <1>27, <1>29, <1>30 DEF OtherStep

\* LoopOK and TurnOK are kept.
LEMMA LoopSafe ==
    ASSUME IInv, Next
    PROVE  LoopOK' /\ TurnOK'
<1>0. /\ \/ Replied \/ NewThreadStep \/ InputStep \/ ApproveStep \/ TokenStep
         \/ TurnStep \/ AskStep \/ EndStep \/ OtherStep
      /\ BaseOK /\ LoopOK /\ TurnOK /\ BusyInv /\ WaitInv
  BY StepKinds DEF IInv
<1>1. ASSUME loop' = Idle PROVE LoopOK' /\ TurnOK'
  <2>1. loop'.at = "idle" /\ loop' = Idle'
    BY <1>1 DEF Idle
  <2> QED BY <2>1 DEF LoopOK, TurnOK, Places
<1>2. ASSUME loop'.at \in Places, TurnOK', loop'.s \in DOMAIN sess', loop'.t \in DOMAIN sess'[loop'.s].threads
      PROVE  LoopOK' /\ TurnOK'
  BY <1>2 DEF LoopOK, Places
<1>3. ASSUME UNCHANGED loop, Holds(sess'), ThreadIds \subseteq ThreadIds' PROVE LoopOK' /\ TurnOK'
  BY <1>0, <1>3 DEF LoopOK, TurnOK, Holds, Places
<1>4. ASSUME NEW key \in {NoId} \cup ThreadIds', loop' = [at |-> "resolve", key |-> key] PROVE LoopOK' /\ TurnOK'
  <2>1. loop'.at = "resolve" /\ loop'.key = key /\ loop' = [at |-> "resolve", key |-> loop'.key]
    BY <1>4
  <2> QED BY <1>4, <2>1 DEF LoopOK, TurnOK, Places
<1>5. ASSUME NEW at \in {"dispatch", "token"}, NEW key \in {NoId} \cup ThreadIds', NEW s \in DOMAIN sess',
             NEW t \in DOMAIN sess'[s].threads, loop' = [at |-> at, key |-> key, s |-> s, t |-> t]
      PROVE  LoopOK' /\ TurnOK'
  <2>1. /\ loop'.at = at /\ loop'.key = key /\ loop'.s = s /\ loop'.t = t
        /\ loop' = [at |-> loop'.at, key |-> loop'.key, s |-> loop'.s, t |-> loop'.t]
    BY <1>5
  <2> QED BY <1>5, <2>1 DEF LoopOK, TurnOK, Places
<1>6. ASSUME NEW at \in {"llm", "run"}, NEW i \in Nat, NEW via, NEW batch \in Seq(Tools), at = "run" => batch # <<>>,
             loop' = [at |-> at, s |-> loop.s, t |-> loop.t, i |-> i, via |-> via, iteration |-> 0,
                      batch |-> batch, result |-> "none"], OnlyHereBusy
      PROVE  LoopOK' /\ TurnOK'
  <2>1. /\ loop'.at = at /\ loop'.batch = batch /\ loop'.i = i /\ loop'.s = loop.s /\ loop'.t = loop.t
        /\ loop' = [at |-> loop'.at, s |-> loop'.s, t |-> loop'.t, i |-> loop'.i, via |-> loop'.via,
                   iteration |-> loop'.iteration, batch |-> loop'.batch, result |-> loop'.result]
    BY <1>6
  <2>2. TurnOK'
    BY <1>6, <2>1 DEF TurnOK, Places
  <2> QED BY <1>2, <1>6, <2>1, <2>2 DEF OnlyHereBusy, Places
<1>10. CASE Replied
  BY <1>1, <1>10 DEF Replied
<1>11. CASE NewThreadStep
  BY <1>0, <1>1, <1>11, NewThreadCalm DEF NewThreadStep
<1>12. CASE InputStep
  <2>1. OnlyHereBusy /\ loop' = Turning(inputs + 1, "input") /\ inputs + 1 \in Nat
    BY <1>0, <1>12, InputStarts DEF InputStep, BaseOK
  <2>2. loop' = [at |-> "llm", s |-> loop.s, t |-> loop.t, i |-> inputs + 1, via |-> "input", iteration |-> 0,
                 batch |-> <<>>, result |-> "none"] /\ <<>> \in Seq(Tools)
    BY <2>1 DEF Turning
  <2> QED BY <1>6, <2>1, <2>2
<1>13. CASE ApproveStep
  <2>1. OnlyHereBusy /\ loop.at = "dispatch"
    BY <1>0, <1>13, ApproveStarts DEF ApproveStep
  <2>2. loop' = [Turning(Here.req.input, "approval") EXCEPT !.at = "run", !.batch = <<Here.req.tool>>]
    BY <1>0, <1>13, ApproveStarts DEF ApproveStep
  <2>3. Here.req \in Question
    BY <1>0, <2>1, HereFacts DEF ThreadOK
  <2>4. Here.req.input \in Nat /\ <<Here.req.tool>> \in Seq(Tools) /\ <<Here.req.tool>> # <<>>
    BY <2>3 DEF Question
  <2> DEFINE batch == <<Here.req.tool>>
             i == Here.req.input
  <2>5. loop' = [Turning(i, "approval") EXCEPT !.at = "run", !.batch = batch]
    BY <2>2
  <2>6. batch \in Seq(Tools) /\ batch # <<>> /\ i \in Nat
    BY <2>4
  <2> HIDE DEF batch, i
  <2>7. loop' = [at |-> "run", s |-> loop.s, t |-> loop.t, i |-> i, via |-> "approval", iteration |-> 0,
                 batch |-> batch, result |-> "none"]
    BY <2>5 DEF Turning
  <2> QED BY <1>6, <2>1, <2>6, <2>7
<1>14. CASE TokenStep
  <2>1. Holds(sess') /\ loop.at = "dispatch" /\ loop' = [at |-> "token", key |-> loop.key, s |-> loop.s, t |-> loop.t]
    BY <1>0, <1>14, TokenRead DEF TokenStep
  <2>2. loop.key \in {NoId} \cup ThreadIds' /\ loop.s \in DOMAIN sess' /\ loop.t \in DOMAIN sess'[loop.s].threads
    BY <1>0, <1>14, <2>1 DEF TokenStep, Holds, LoopOK, ThreadIds
  <2> QED BY <1>5, <2>1, <2>2
<1>15. CASE TurnStep \/ AskStep
  <2>1. GoesOn
    BY <1>0, <1>15, TurnGoesOn DEF TurnStep, AskStep
  <2> QED BY <1>2, <2>1 DEF GoesOn, Holds, Places
<1>17. CASE EndStep
  BY <1>0, <1>1, <1>17, TurnEnds DEF EndStep
<1>20. CASE WebNewThread
  <2>1. Holds(sess') /\ UNCHANGED loop /\ AddId
    BY <1>0, <1>20, OutsideSessions DEF WebNewThread
  <2> QED BY <1>0, <1>3, <2>1, NewIdFacts
<1>21. CASE WebClearAuth
  <2>1. Holds(sess') /\ UNCHANGED loop /\ ThreadIds' = ThreadIds
    BY <1>0, <1>21, OutsideSessions DEF WebClearAuth, ThreadIds
  <2> QED BY <1>3, <2>1
<1>22. CASE Receive
  <2>0. ThreadIds' = ThreadIds
    BY <1>22 DEF Receive, ThreadIds
  <2>1. PICK key \in {NoId} \cup ThreadIds :
            \/ loop' = [at |-> "resolve", key |-> key]
            \/ /\ key \in ThreadIds /\ sess' = SessionsWithLive
               /\ \E msgs \in {db[key], <<>>} :
                     loop' = [at |-> "hydrate", key |-> key, s |-> LiveSession, msgs |-> msgs]
    BY <1>22 DEF Receive
  <2>2. CASE loop' = [at |-> "resolve", key |-> key]
    BY <1>4, <2>0, <2>2
  <2>3. ASSUME key \in ThreadIds, sess' = SessionsWithLive, NEW msgs,
               loop' = [at |-> "hydrate", key |-> key, s |-> LiveSession, msgs |-> msgs]
        PROVE  LoopOK' /\ TurnOK'
    <3>1. LiveSession \in DOMAIN sess'
      BY <1>0, <2>3, LiveIsThere DEF BaseOK
    <3> HIDE DEF LiveSession, SessionsWithLive
    <3>2. /\ loop'.at = "hydrate" /\ loop'.key = key /\ loop'.s = LiveSession
          /\ loop' = [at |-> "hydrate", key |-> loop'.key, s |-> loop'.s, msgs |-> loop'.msgs]
      BY <2>3
    <3> QED BY <2>0, <2>3, <3>1, <3>2 DEF LoopOK, TurnOK, Places
  <2> QED BY <2>1, <2>2, <2>3
<1>23. CASE Hydrate
  <2>1. loop' = [at |-> "resolve", key |-> loop.key] /\ loop.key \in ThreadIds /\ ThreadIds' = ThreadIds
    BY <1>0, <1>23 DEF Hydrate, ThreadIds, LoopOK
  <2> QED BY <1>4, <2>1
<1>24. CASE Resolve
  <2>1. loop.key \in {NoId} \cup ThreadIds /\ ThreadIds' = ThreadIds /\ sess' = SessionsWithLive
    BY <1>0, <1>24 DEF Resolve, ThreadIds, LoopOK
  <2>2. LiveSession \in DOMAIN sess'
    BY <1>0, <2>1, LiveIsThere DEF BaseOK
  <2>3. CASE /\ map[loop.key] \in DOMAIN SessionsWithLive[LiveSession].threads
             /\ loop' = [at |-> "dispatch", key |-> loop.key, s |-> LiveSession, t |-> map[loop.key]]
    <3> HIDE DEF LiveSession, SessionsWithLive
    <3> QED BY <1>5, <2>1, <2>2, <2>3
  <2>4. CASE loop' = [at |-> "mint", key |-> loop.key, s |-> LiveSession]
    <3> HIDE DEF LiveSession, SessionsWithLive
    <3>1. /\ loop'.at = "mint" /\ loop'.key = loop.key /\ loop'.s = LiveSession
          /\ loop' = [at |-> "mint", key |-> loop'.key, s |-> loop'.s]
      BY <2>4
    <3> QED BY <2>1, <2>2, <2>4, <3>1 DEF LoopOK, TurnOK, Places
  <2> QED BY <1>24, <2>3, <2>4 DEF Resolve, Known
<1>25. CASE Mint
  <2>1. /\ loop.s \in DOMAIN sess' /\ FreshId \in DOMAIN sess'[loop.s].threads
        /\ loop' = [at |-> "dispatch", key |-> loop.key, s |-> loop.s, t |-> FreshId]
        /\ loop.key \in {NoId} \cup ThreadIds /\ AddId
    BY <1>0, <1>25, ResolvingSessions DEF Mint, LoopOK
  <2>2. loop.key \in {NoId} \cup ThreadIds'
    BY <1>0, <2>1, NewIdFacts
  <2> QED BY <1>5, <2>1, <2>2
<1>26. ASSUME NEW w \in writes, PersistTurn(w) PROVE LoopOK' /\ TurnOK'
  <2>1. UNCHANGED <<sess, live, loop>>
    BY <1>26 DEF PersistTurn
  <2>2. ThreadIds' = ThreadIds
    <3>1. DOMAIN db' = DOMAIN db
      BY <1>26 DEF PersistTurn
    <3> QED BY <3>1 DEF ThreadIds
  <2>3. Holds(sess')
    BY <1>0, <2>1, <2>2, SessionsAlone
  <2> QED BY <1>3, <2>1, <2>2, <2>3
<1>27. CASE PruneRemove
  <2>1. Holds(sess') /\ UNCHANGED loop /\ ThreadIds' = ThreadIds
    BY <1>0, <1>27, OutsideSessions DEF PruneRemove, ThreadIds
  <2> QED BY <1>3, <2>1
<1>29. CASE PruneClean
  <2>1. UNCHANGED <<sess, live>> /\ UNCHANGED loop /\ ThreadIds' = ThreadIds
    BY <1>29 DEF PruneClean, ThreadIds
  <2> QED BY <1>0, <1>3, <2>1, SessionsAlone
<1>30. CASE Restart
  BY <1>1, <1>30 DEF Restart
<1> QED BY <1>0, <1>10, <1>11, <1>12, <1>13, <1>14, <1>15, <1>17, <1>20, <1>21, <1>22, <1>23, <1>24, <1>25,
           <1>26, <1>27, <1>29, <1>30 DEF OtherStep

\* BudgetInv is kept.
LEMMA BudgetSafe ==
    ASSUME IInv, Next
    PROVE  BudgetInv'
<1>0. /\ \/ Replied \/ NewThreadStep \/ InputStep \/ ApproveStep \/ TokenStep
         \/ TurnStep \/ AskStep \/ EndStep \/ OtherStep
      /\ BaseOK /\ LoopOK /\ TurnOK /\ BusyInv /\ WaitInv /\ BudgetInv
  BY StepKinds DEF IInv
<1>1. /\ inputs \in Nat /\ budget.messages \in Nat /\ MaxMessages \in Nat
      /\ Pending \in {0, 1} /\ Pending' \in {0, 1} /\ inputs + budget.messages + Pending <= MaxMessages
  BY <1>0, ThreadsAssumption DEF BaseOK, Pending, BudgetInv
<1>2. ASSUME UNCHANGED <<inputs, budget>>, Pending' = 0 \/ Pending = 1 \/ Pending' = Pending PROVE BudgetInv'
  BY <1>1, <1>2 DEF BudgetInv
<1>3. /\ loop'.at \in {"idle", "token"} \cup Places => Pending' = 0
      /\ loop.at \in {"resolve", "hydrate", "mint", "dispatch"} => Pending = 1
      /\ loop.at = "idle" => Pending = 0
  BY DEF Pending, Places
<1>4. ASSUME UNCHANGED <<inputs, loop>>, Spend("events") PROVE BudgetInv'
  <2>1. budget'.messages = budget.messages /\ Pending' = Pending
    BY <1>0, <1>4, SpendFacts DEF Pending
  <2> QED BY <1>1, <1>4, <2>1 DEF BudgetInv
<1>5. Idle.at = "idle"
  BY DEF Idle
<1>10. CASE Replied
  BY <1>2, <1>3, <1>5, <1>10 DEF Replied
<1>11. CASE NewThreadStep
  <2>1. loop' = Idle /\ UNCHANGED <<inputs, budget>>
    BY <1>0, <1>11, NewThreadCalm DEF NewThreadStep
  <2> QED BY <1>2, <1>3, <1>5, <2>1
<1>12. CASE InputStep
  <2>1. loop.at = "dispatch" /\ inputs' = inputs + 1 /\ loop'.at = "llm" /\ UNCHANGED budget
    BY <1>0, <1>12, InputStarts DEF InputStep, Turning
  <2>2. Pending' = 0 /\ Pending = 1
    BY <2>1 DEF Pending
  <2> QED BY <1>1, <2>1, <2>2 DEF BudgetInv
<1>13. CASE ApproveStep
  <2>1. loop.at = "dispatch" /\ UNCHANGED <<inputs, budget>>
    BY <1>0, <1>13, ApproveStarts DEF ApproveStep
  <2> QED BY <1>2, <1>3, <2>1
<1>14. CASE TokenStep
  <2>1. loop.at = "dispatch" /\ UNCHANGED <<inputs, budget>>
    BY <1>0, <1>14, TokenRead DEF TokenStep
  <2> QED BY <1>2, <1>3, <2>1
<1>15. CASE TurnStep \/ AskStep
  <2>1. loop'.at \in Places /\ UNCHANGED <<inputs, budget>>
    BY <1>0, <1>15, TurnGoesOn DEF TurnStep, AskStep, GoesOn
  <2> QED BY <1>2, <1>3, <2>1
<1>17. CASE EndStep
  <2>1. loop' = Idle /\ UNCHANGED <<inputs, budget>>
    BY <1>0, <1>17, TurnEnds DEF EndStep
  <2> QED BY <1>2, <1>3, <1>5, <2>1
<1>20. CASE WebNewThread \/ PruneRemove
  BY <1>4, <1>20 DEF WebNewThread, PruneRemove
<1>21. CASE WebClearAuth \/ PruneClean \/ \E w \in writes : PersistTurn(w)
  <2>1. UNCHANGED <<inputs, budget, loop>>
    BY <1>21 DEF WebClearAuth, PruneClean, PersistTurn, Spare
  <2> QED BY <1>2, <2>1 DEF Pending
<1>22. CASE Receive
  <2>1. loop.at = "idle" /\ UNCHANGED inputs /\ Spend("messages")
    BY <1>22 DEF Receive
  <2>2. budget'.messages = budget.messages - 1
    BY <1>0, <2>1, SpendFacts
  <2> QED BY <1>1, <1>3, <2>1, <2>2 DEF BudgetInv
<1>23. CASE Hydrate \/ Resolve \/ Mint
  <2>1. loop.at \in {"hydrate", "resolve", "mint"} /\ UNCHANGED <<inputs, budget>>
    BY <1>23 DEF Hydrate, Resolve, Mint, Spare
  <2> QED BY <1>2, <1>3, <2>1
<1>30. CASE Restart
  <2>1. loop' = Idle /\ UNCHANGED inputs /\ Spend("events")
    BY <1>30 DEF Restart
  <2>2. budget'.messages = budget.messages
    BY <1>0, <2>1, SpendFacts
  <2> QED BY <1>1, <1>3, <1>5, <2>1, <2>2 DEF BudgetInv
<1> QED BY <1>0, <1>10, <1>11, <1>12, <1>13, <1>14, <1>15, <1>17, <1>20, <1>21, <1>22, <1>23, <1>30 DEF OtherStep

\* BusyInv is kept.
LEMMA BusySafe ==
    ASSUME IInv, Next
    PROVE  BusyInv'
<1>0. /\ \/ Replied \/ NewThreadStep \/ InputStep \/ ApproveStep \/ TokenStep
         \/ TurnStep \/ AskStep \/ EndStep \/ OtherStep
      /\ BaseOK /\ LoopOK /\ TurnOK /\ BusyInv /\ WaitInv
  BY StepKinds DEF IInv
<1>1. ASSUME Calm, \/ loop.at \notin Places
                   \/ loop'.at \in Places /\ loop'.s = loop.s /\ loop'.t = loop.t
      PROVE  BusyInv'
  BY <1>0, <1>1 DEF BusyInv, Calm, StillBusy, Thread
<1>2. ASSUME OnlyHereBusy, loop'.at \in Places, loop'.s = loop.s, loop'.t = loop.t
      PROVE  BusyInv'
  BY <1>2 DEF BusyInv, OnlyHereBusy, Thread
<1>10. CASE Replied
  BY <1>1, <1>10 DEF Replied, Places
<1>11. CASE NewThreadStep
  BY <1>0, <1>1, <1>11, NewThreadCalm DEF NewThreadStep, Places
<1>12. CASE InputStep
  <2>1. OnlyHereBusy /\ loop' = Turning(inputs + 1, "input")
    BY <1>0, <1>12, InputStarts DEF InputStep
  <2> QED BY <1>2, <2>1 DEF Turning, Places
<1>13. CASE ApproveStep
  <2>1. OnlyHereBusy
    BY <1>0, <1>13, ApproveStarts DEF ApproveStep
  <2>2. loop' = [Turning(Here.req.input, "approval") EXCEPT !.at = "run", !.batch = <<Here.req.tool>>]
    BY <1>0, <1>13, ApproveStarts DEF ApproveStep
  <2>3. loop'.at = "run" /\ loop'.s = loop.s /\ loop'.t = loop.t
    BY <2>2 DEF Turning
  <2> QED BY <1>2, <2>1, <2>3 DEF Places
<1>14. CASE TokenStep
  <2>1. Calm /\ loop.at = "dispatch"
    BY <1>0, <1>14, TokenRead DEF TokenStep
  <2> QED BY <1>1, <2>1 DEF Places
<1>15. CASE TurnStep \/ AskStep
  <2>1. GoesOn
    BY <1>0, <1>15, TurnGoesOn DEF TurnStep, AskStep
  <2> QED BY <1>1, <2>1 DEF GoesOn
<1>17. CASE EndStep
  <2>1. \A s \in DOMAIN sess' : \A t \in DOMAIN sess'[s].threads : sess'[s].threads[t].state # "Processing"
    BY <1>0, <1>17, TurnEnds DEF EndStep
  <2> QED BY <2>1 DEF BusyInv, Thread
<1>20. CASE WebNewThread \/ WebClearAuth \/ PruneRemove
  <2>1. Calm /\ UNCHANGED loop
    BY <1>0, <1>20, OutsideSessions DEF WebNewThread, WebClearAuth, PruneRemove
  <2> QED BY <1>1, <2>1
<1>21. CASE PruneClean \/ \E w \in writes : PersistTurn(w)
  BY <1>0, <1>21 DEF PruneClean, PersistTurn, BusyInv, Thread
<1>22. CASE Receive \/ Hydrate \/ Resolve \/ Mint
  <2>1. Calm /\ loop.at \in {"idle", "hydrate", "resolve", "mint"}
    <3>1. Calm
      BY <1>0, <1>22, ResolvingSessions
    <3> QED BY <1>22, <3>1 DEF Receive, Hydrate, Resolve, Mint
  <2> QED BY <1>1, <2>1 DEF Places
<1>30. CASE Restart
  <2>1. DOMAIN sess' = {}
    BY <1>30 DEF Restart
  <2> QED BY <2>1 DEF BusyInv
<1> QED BY <1>0, <1>10, <1>11, <1>12, <1>13, <1>14, <1>15, <1>17, <1>20, <1>21, <1>22, <1>30 DEF OtherStep

\* Thread t of session s waits for request r.
Waits(S, s, t, r) ==
    /\ s \in DOMAIN S /\ t \in DOMAIN S[s].threads
    /\ S[s].threads[t].state = "AwaitingApproval" /\ S[s].threads[t].req.id = r

\* What WaitInv says of the requests that wait, and how void grows.
LEMMA WaitFacts ==
    ASSUME WaitInv, Observe
    PROVE  /\ \A s, t, r : Waits(sess, s, t, r) =>
                 /\ r \in Requests /\ sess[s].threads[t].req.tool \in Guarded /\ ran[r] = 0 /\ r \notin void
                 /\ \A p, u : Waits(sess, p, u, r) => p = s /\ u = t
                 /\ loop.at = "end" /\ loop.result = "approval" => r # Len(ran)
           /\ \A r \in void' : r \in void \/ (r \in Requests /\ ran'[r] = ran[r] /\ \E s, t : Waits(sess, s, t, r))
           /\ \A s, t : \A r \in Requests : Waits(sess', s, t, r) /\ r \in void' => r \in void
<1>1. ASSUME NEW s, NEW t, NEW r, Waits(sess, s, t, r)
      PROVE  /\ r \in Requests /\ sess[s].threads[t].req.tool \in Guarded /\ ran[r] = 0 /\ r \notin void
             /\ \A p, u : Waits(sess, p, u, r) => p = s /\ u = t
             /\ loop.at = "end" /\ loop.result = "approval" => r # Len(ran)
  BY <1>1 DEF WaitInv, Waits, Thread
<1>2. ASSUME NEW r \in void', r \notin void
      PROVE  r \in Requests /\ ran'[r] = ran[r] /\ \E s, t : Waits(sess, s, t, r)
  BY <1>2 DEF Observe, WaitingIn, Waits
<1>3. ASSUME NEW s, NEW t, NEW r \in Requests, Waits(sess', s, t, r), r \in void'
      PROVE  r \in void
  BY <1>3 DEF Observe, WaitingIn, Waits
<1> QED BY <1>1, <1>2, <1>3

\* WaitInv, again in terms of Waits.
LEMMA WaitIntro ==
    ASSUME \A s, t, r : Waits(sess', s, t, r) =>
              /\ r \in Requests' /\ sess'[s].threads[t].req.tool \in Guarded /\ ran'[r] = 0 /\ r \notin void'
              /\ \A p, u : Waits(sess', p, u, r) => p = s /\ u = t
              /\ loop'.at = "end" /\ loop'.result = "approval" => r # Len(ran'),
           loop'.at = "end" /\ loop'.result = "approval" =>
              Len(ran') \in Requests' /\ ran'[Len(ran')] = 0 /\ Len(ran') \notin void'
    PROVE  WaitInv'
<1>1. ASSUME NEW s \in DOMAIN sess', NEW t \in DOMAIN sess'[s].threads, sess'[s].threads[t].state = "AwaitingApproval"
      PROVE  LET r == sess'[s].threads[t].req
             IN  /\ r.id \in Requests' /\ r.tool \in Guarded /\ ran'[r.id] = 0 /\ r.id \notin void'
                 /\ \A p \in DOMAIN sess' : \A u \in DOMAIN sess'[p].threads :
                       sess'[p].threads[u].state = "AwaitingApproval" /\ sess'[p].threads[u].req.id = r.id => p = s /\ u = t
                 /\ loop'.at = "end" /\ loop'.result = "approval" => r.id # Len(ran')
  <2>1. Waits(sess', s, t, sess'[s].threads[t].req.id)
    BY <1>1 DEF Waits
  <2>2. /\ sess'[s].threads[t].req.id \in Requests' /\ sess'[s].threads[t].req.tool \in Guarded
        /\ ran'[sess'[s].threads[t].req.id] = 0 /\ sess'[s].threads[t].req.id \notin void'
        /\ \A p, u : Waits(sess', p, u, sess'[s].threads[t].req.id) => p = s /\ u = t
        /\ loop'.at = "end" /\ loop'.result = "approval" => sess'[s].threads[t].req.id # Len(ran')
    BY <2>1
  <2>3. ASSUME NEW p \in DOMAIN sess', NEW u \in DOMAIN sess'[p].threads,
               sess'[p].threads[u].state = "AwaitingApproval", sess'[p].threads[u].req.id = sess'[s].threads[t].req.id
        PROVE  p = s /\ u = t
    <3>1. Waits(sess', p, u, sess'[s].threads[t].req.id)
      BY <2>3 DEF Waits
    <3> QED BY <2>2, <3>1
  <2> QED BY <2>2, <2>3
<1> QED BY <1>1 DEF WaitInv, Thread, Guarded

\* WaitInv and ApprovedOnce are kept.
LEMMA WaitSafe ==
    ASSUME IInv, Next
    PROVE  WaitInv' /\ ApprovedOnce'
<1>0. /\ \/ Replied \/ NewThreadStep \/ InputStep \/ ApproveStep \/ TokenStep
         \/ TurnStep \/ AskStep \/ EndStep \/ OtherStep
      /\ BaseOK /\ LoopOK /\ TurnOK /\ BusyInv /\ WaitInv /\ ApprovedOnce /\ Observe
  BY StepKinds DEF IInv
<1>1. /\ ran \in Seq(Nat) /\ Requests = 1 .. Len(ran) /\ Len(ran) \in Nat /\ void \subseteq Requests
  BY <1>0 DEF BaseOK, Requests
<1> DEFINE Asks == loop.at = "end" /\ loop.result = "approval"
           NewAsks == loop'.at = "end" /\ loop'.result = "approval"
<1>2. /\ \A s, t, r : Waits(sess, s, t, r) =>
            /\ r \in Requests /\ sess[s].threads[t].req.tool \in Guarded /\ ran[r] = 0 /\ r \notin void
            /\ \A p, u : Waits(sess, p, u, r) => p = s /\ u = t
            /\ Asks => r # Len(ran)
      /\ \A r \in void' : r \in void \/ (r \in Requests /\ ran'[r] = ran[r] /\ \E s, t : Waits(sess, s, t, r))
      /\ \A s, t : \A r \in Requests : Waits(sess', s, t, r) /\ r \in void' => r \in void
      /\ Asks => Len(ran) \in Requests /\ ran[Len(ran)] = 0 /\ Len(ran) \notin void
  <2>1. Asks => Len(ran) \in Requests /\ ran[Len(ran)] = 0 /\ Len(ran) \notin void
    BY <1>0 DEF WaitInv
  <2> QED BY <1>0, <2>1, WaitFacts
<1>3. ASSUME StillWaits(sess, sess')
      PROVE  \A s, t, r : Waits(sess', s, t, r) => Waits(sess, s, t, r) /\ sess'[s].threads[t].req = sess[s].threads[t].req
  BY <1>3 DEF StillWaits, Waits
<1> HIDE DEF Asks, NewAsks
<1>4. ASSUME UNCHANGED ran PROVE ApprovedOnce' /\ Requests' = Requests
  <2>1. Requests' = Requests
    BY <1>4 DEF Requests
  <2>2. ASSUME NEW r \in Requests PROVE ran'[r] <= 1 /\ (r \in void' => ran'[r] = 0)
    BY <1>0, <1>2, <1>4 DEF ApprovedOnce
  <2> QED BY <2>1, <2>2 DEF ApprovedOnce
<1>5. ASSUME StillWaits(sess, sess'), UNCHANGED ran, NewAsks => Asks
      PROVE  WaitInv' /\ ApprovedOnce'
  <2>1. Requests' = Requests
    BY <1>4, <1>5
  <2>2. ASSUME NEW s, NEW t, NEW r, Waits(sess', s, t, r)
        PROVE  /\ r \in Requests' /\ sess'[s].threads[t].req.tool \in Guarded /\ ran'[r] = 0 /\ r \notin void'
               /\ \A p, u : Waits(sess', p, u, r) => p = s /\ u = t
               /\ NewAsks => r # Len(ran')
    <3>1. Waits(sess, s, t, r) /\ sess'[s].threads[t].req = sess[s].threads[t].req
      BY <1>3, <1>5, <2>2
    <3>2. \A p, u : Waits(sess', p, u, r) => Waits(sess, p, u, r)
      BY <1>3, <1>5
    <3> QED BY <1>2, <1>5, <2>1, <2>2, <3>1, <3>2
  <2>3. NewAsks => Len(ran') \in Requests' /\ ran'[Len(ran')] = 0 /\ Len(ran') \notin void'
    BY <1>2, <1>5, <2>1
  <2>4. WaitInv'
    BY <2>2, <2>3, WaitIntro DEF NewAsks
  <2> QED BY <1>4, <1>5, <2>4
<1>6. Idle.at = "idle"
  BY DEF Idle
<1>10. CASE Replied
  BY <1>5, <1>6, <1>10 DEF Replied, Calm, NewAsks
<1>11. CASE NewThreadStep
  <2>1. Calm /\ loop' = Idle /\ UNCHANGED ran
    BY <1>0, <1>11, NewThreadCalm DEF NewThreadStep
  <2> QED BY <1>5, <1>6, <2>1 DEF Calm, NewAsks
<1>12. CASE InputStep
  <2>1. StillWaits(sess, sess') /\ loop'.at = "llm" /\ UNCHANGED ran
    BY <1>0, <1>12, InputStarts DEF InputStep, Turning
  <2> QED BY <1>5, <2>1 DEF NewAsks
<1>13. CASE ApproveStep
  <2> DEFINE q == Here.req.id
  <2>1. /\ StillWaits(sess, sess') /\ sess'[loop.s].threads[loop.t].state = "Processing"
        /\ Thread(loop.s, loop.t).state = "AwaitingApproval" /\ Thread(loop.s, loop.t).req = Here.req
        /\ ran' = [ran EXCEPT ![q] = ran[q] + 1] /\ loop.at = "dispatch"
    BY <1>0, <1>13, ApproveStarts DEF ApproveStep
  <2>2. Waits(sess, loop.s, loop.t, q)
    BY <1>0, <2>1, HereFacts DEF Waits, Thread
  <2>3. loop'.at = "run"
    <3>1. loop' = [Turning(Here.req.input, "approval") EXCEPT !.at = "run", !.batch = <<Here.req.tool>>]
      BY <1>0, <1>13, ApproveStarts DEF ApproveStep
    <3> QED BY <3>1 DEF Turning
  <2> HIDE DEF q
  <2>4. /\ q \in Requests /\ ran[q] = 0 /\ q \notin void /\ \A p, u : Waits(sess, p, u, q) => p = loop.s /\ u = loop.t
    BY <1>2, <2>2
  <2>5. /\ Requests' = Requests /\ ran'[q] = 1 /\ \A r \in Requests : r # q => ran'[r] = ran[r]
    BY <1>1, <2>1, <2>4 DEF Requests
  <2>6. q \notin void'
    BY <1>2, <2>4, <2>5
  <2>7. ASSUME NEW s, NEW t, NEW r, Waits(sess', s, t, r)
        PROVE  /\ r \in Requests' /\ sess'[s].threads[t].req.tool \in Guarded /\ ran'[r] = 0 /\ r \notin void'
               /\ \A p, u : Waits(sess', p, u, r) => p = s /\ u = t
    <3>1. Waits(sess, s, t, r) /\ sess'[s].threads[t].req = sess[s].threads[t].req
      BY <1>3, <2>1, <2>7
    <3>2. \A p, u : Waits(sess', p, u, r) => Waits(sess, p, u, r)
      BY <1>3, <2>1
    <3>3. r # q
      BY <2>1, <2>4, <2>7, <3>1 DEF Waits
    <3> QED BY <1>2, <2>5, <2>7, <3>1, <3>2, <3>3
  <2>8. WaitInv'
    BY <2>3, <2>7, WaitIntro
  <2>9. ASSUME NEW r \in Requests' PROVE ran'[r] <= 1 /\ (r \in void' => ran'[r] = 0)
    BY <1>0, <1>2, <2>5, <2>6 DEF ApprovedOnce
  <2> QED BY <2>8, <2>9 DEF ApprovedOnce
<1>14. CASE TokenStep
  <2>1. Calm /\ UNCHANGED ran /\ loop'.at = "token"
    BY <1>0, <1>14, TokenRead DEF TokenStep
  <2> QED BY <1>5, <2>1 DEF Calm, NewAsks
<1>15. CASE TurnStep
  <2>1. Calm /\ UNCHANGED ran /\ (loop'.at = "end" => loop'.result # "approval")
    BY <1>0, <1>15, TurnGoesOn DEF TurnStep, GoesOn
  <2> QED BY <1>5, <2>1 DEF Calm, NewAsks
<1>16. CASE AskStep
  <2>1. UNCHANGED sess /\ loop.at = "tools" /\ ran' = Append(ran, 0)
    BY <1>0, <1>16, TurnGoesOn DEF AskStep
  <2>2. /\ Len(ran') = Len(ran) + 1 /\ Requests' = 1 .. Len(ran) + 1 /\ ran'[Len(ran')] = 0
        /\ \A r \in Requests : ran'[r] = ran[r]
    BY <1>1, <2>1 DEF Requests
  <2>4. void' = void
    BY <1>0, <2>1 DEF Observe
  <2>5. ASSUME NEW s, NEW t, NEW r, Waits(sess', s, t, r)
        PROVE  /\ r \in Requests' /\ sess'[s].threads[t].req.tool \in Guarded /\ ran'[r] = 0 /\ r \notin void'
               /\ \A p, u : Waits(sess', p, u, r) => p = s /\ u = t
               /\ r # Len(ran')
    <3>1. /\ r \in Requests /\ sess[s].threads[t].req.tool \in Guarded /\ ran[r] = 0 /\ r \notin void
          /\ \A p, u : Waits(sess, p, u, r) => p = s /\ u = t
      BY <1>2, <2>1, <2>5
    <3>2. r \in Requests' /\ r # Len(ran')
      BY <1>1, <2>2, <3>1
    <3> QED BY <2>1, <2>2, <2>4, <3>1, <3>2
  <2>6. Len(ran') \in Requests' /\ Len(ran') \notin void'
    BY <1>1, <2>2, <2>4
  <2>7. WaitInv'
    BY <2>2, <2>5, <2>6, WaitIntro
  <2>8. ASSUME NEW r \in Requests' PROVE ran'[r] <= 1 /\ (r \in void' => ran'[r] = 0)
    <3>1. r \in Requests \/ r = Len(ran')
      BY <1>1, <2>2
    <3> QED BY <1>0, <2>2, <2>4, <2>6, <3>1 DEF ApprovedOnce
  <2> QED BY <2>7, <2>8 DEF ApprovedOnce
<1>17. CASE EndStep
  <2>1. loop.at = "end" /\ loop' = Idle /\ UNCHANGED ran
    BY <1>0, <1>17, TurnEnds DEF EndStep
  <2>2. CASE StillWaits(sess, sess')
    BY <1>5, <1>6, <2>1, <2>2 DEF NewAsks
  <2>3. CASE /\ loop.result = "approval"
             /\ \A s \in DOMAIN sess' : \A t \in DOMAIN sess'[s].threads :
                   sess'[s].threads[t].state = "AwaitingApproval" =>
                      LET r == sess'[s].threads[t].req
                      IN  \/ s = loop.s /\ t = loop.t /\ r.id = Len(ran) /\ r.tool \in Guarded
                          \/ /\ s \in DOMAIN sess /\ t \in DOMAIN sess[s].threads
                             /\ sess[s].threads[t].state = "AwaitingApproval" /\ sess[s].threads[t].req = r
    <3>1. Asks /\ Requests' = Requests /\ ran' = ran
      BY <1>4, <2>1, <2>3 DEF Asks
    <3>2. \A s, t, r : Waits(sess', s, t, r) =>
             \/ s = loop.s /\ t = loop.t /\ r = Len(ran) /\ sess'[s].threads[t].req.tool \in Guarded
             \/ Waits(sess, s, t, r) /\ sess'[s].threads[t].req = sess[s].threads[t].req
      BY <2>3 DEF Waits
    <3>3. ASSUME NEW s, NEW t, NEW r, Waits(sess', s, t, r)
          PROVE  /\ r \in Requests' /\ sess'[s].threads[t].req.tool \in Guarded /\ ran'[r] = 0 /\ r \notin void'
                 /\ \A p, u : Waits(sess', p, u, r) => p = s /\ u = t
      <4>1. r \in Requests /\ ran[r] = 0 /\ r \notin void /\ sess'[s].threads[t].req.tool \in Guarded
        BY <1>2, <3>1, <3>2, <3>3
      <4>2. ASSUME NEW p, NEW u, Waits(sess', p, u, r) PROVE p = s /\ u = t
        <5>1. CASE r = Len(ran)
          BY <1>2, <3>1, <3>2, <3>3, <4>2, <5>1
        <5>2. CASE r # Len(ran)
          BY <1>2, <3>2, <3>3, <4>2, <5>2
        <5> QED BY <5>1, <5>2
      <4> QED BY <1>2, <3>1, <3>3, <4>1, <4>2
    <3>4. WaitInv'
      BY <1>6, <2>1, <3>3, WaitIntro
    <3> QED BY <1>4, <2>1, <3>4
  <2> QED BY <1>0, <1>17, <2>2, <2>3, TurnEnds DEF EndStep
<1>20. CASE WebNewThread \/ WebClearAuth \/ PruneRemove
  <2>1. Calm /\ UNCHANGED <<loop, ran>>
    BY <1>0, <1>20, OutsideSessions DEF WebNewThread, WebClearAuth, PruneRemove
  <2> QED BY <1>5, <2>1 DEF Calm, Asks, NewAsks
<1>21. CASE PruneClean \/ \E w \in writes : PersistTurn(w)
  <2>1. UNCHANGED <<sess, loop, ran>>
    BY <1>21 DEF PruneClean, PersistTurn
  <2>2. StillWaits(sess, sess')
    BY <2>1 DEF StillWaits
  <2> QED BY <1>5, <2>1, <2>2 DEF Asks, NewAsks
<1>22. CASE Receive \/ Hydrate \/ Resolve \/ Mint
  <2>1. Calm
    BY <1>0, <1>22, ResolvingSessions
  <2>2. UNCHANGED ran /\ loop'.at # "end"
    BY <1>22 DEF Receive, Hydrate, Resolve, Mint
  <2> QED BY <1>5, <2>1, <2>2 DEF Calm, NewAsks
<1>30. CASE Restart
  <2>1. Calm /\ loop' = Idle /\ UNCHANGED ran
    BY <1>0, <1>30, OutsideSessions DEF Restart
  <2> QED BY <1>5, <1>6, <2>1 DEF Calm, NewAsks
<1> QED BY <1>0, <1>10, <1>11, <1>12, <1>13, <1>14, <1>15, <1>16, <1>17, <1>20, <1>21, <1>22, <1>30 DEF OtherStep

\* MintInv is kept.
LEMMA MintSafe ==
    ASSUME IInv, Next
    PROVE  MintInv'
<1>0. /\ \/ Replied \/ NewThreadStep \/ InputStep \/ ApproveStep \/ TokenStep
         \/ TurnStep \/ AskStep \/ EndStep \/ OtherStep
      /\ BaseOK /\ LoopOK /\ TurnOK /\ BusyInv /\ WaitInv /\ MintInv
  BY StepKinds DEF IInv
<1>1. ASSUME loop'.at # "mint" PROVE MintInv'
  BY <1>1 DEF MintInv
<1>2. Idle.at = "idle"
  BY DEF Idle
<1> DEFINE S == SessionsWithLive
           L == LiveSession
<1>3. ASSUME loop.at = "mint", loop.key \in DOMAIN map PROVE map[loop.key] \notin DOMAIN S[L].threads
  <2>1. CASE live = 0
    <3>1. L \in DOMAIN S /\ L \notin DOMAIN sess
      <4>1. L = Len(sess) + 1 /\ DOMAIN sess = 1 .. Len(sess) /\ Len(sess) \in Nat
        BY <1>0, <2>1, ListedFacts DEF LiveSession, BaseOK, SessOK, Listed
      <4>2. L \in DOMAIN S
        BY <1>0, LiveIsThere DEF BaseOK
      <4> QED BY <4>1, <4>2
    <3>2. S[L] = NewSession
      BY <1>0, <3>1, LiveIsThere DEF BaseOK
    <3> QED BY <3>2, NewIsOK
  <2>2. CASE live # 0
    BY <1>0, <1>3, <2>2 DEF MintInv, SessionsWithLive, LiveSession
  <2> QED BY <2>1, <2>2
<1>4. SessOK(S, ThreadIds) /\ L \in DOMAIN S
  BY <1>0, LiveIsThere DEF BaseOK
<1> HIDE DEF SessionsWithLive, LiveSession
<1>10. CASE Replied
  BY <1>1, <1>2, <1>10 DEF Replied
<1>11. CASE NewThreadStep
  BY <1>0, <1>1, <1>2, <1>11, NewThreadCalm DEF NewThreadStep
<1>12. CASE InputStep
  <2>1. loop'.at = "llm"
    BY <1>0, <1>12, InputStarts DEF InputStep, Turning
  <2> QED BY <1>1, <2>1
<1>13. CASE ApproveStep
  <2>1. loop' = [Turning(Here.req.input, "approval") EXCEPT !.at = "run", !.batch = <<Here.req.tool>>]
    BY <1>0, <1>13, ApproveStarts DEF ApproveStep
  <2>2. loop'.at = "run"
    BY <2>1 DEF Turning
  <2> QED BY <1>1, <2>2
<1>14. CASE TokenStep
  <2>1. loop'.at = "token"
    BY <1>0, <1>14, TokenRead DEF TokenStep
  <2> QED BY <1>1, <2>1
<1>15. CASE TurnStep \/ AskStep
  <2>1. loop'.at \in Places
    BY <1>0, <1>15, TurnGoesOn DEF TurnStep, AskStep, GoesOn
  <2> QED BY <1>1, <2>1 DEF Places
<1>17. CASE EndStep
  BY <1>0, <1>1, <1>2, <1>17, TurnEnds DEF EndStep
<1>20. CASE WebNewThread
  <2>1. UNCHANGED <<map, loop>> /\ live' = L /\ sess' = PutIn(S, L, FreshId, NewThread) /\ AddId
    BY <1>20 DEF WebNewThread, PutIn
  <2>2. ThreadIds' = ThreadIds \cup {FreshId} /\ FreshId \notin ThreadIds
    BY <1>0, <2>1, NewIdFacts
  <2>3. SessOK(S, ThreadIds') /\ FreshId \in ThreadIds' /\ ThreadOK(NewThread)
    BY <1>4, <2>2, MoreIds, NewIsOK
  <2>4. DOMAIN sess'[L].threads \subseteq DOMAIN S[L].threads \cup {FreshId}
    BY <1>4, <2>1, <2>3, WithFacts
  <2>5. \A k \in DOMAIN map : map[k] # FreshId
    BY <1>0, <2>2 DEF BaseOK
  <2> QED BY <1>3, <2>1, <2>4, <2>5 DEF MintInv
<1>21. CASE WebClearAuth
  <2> DEFINE a == S[L].active
             th == [S[L].threads[a] EXCEPT !.auth = FALSE]
  <2>1. UNCHANGED <<map, loop>> /\ live' = L /\ (sess' = S \/ (a # NoId /\ sess' = SetIn(S, L, a, th)))
    BY <1>21 DEF WebClearAuth, SetIn
  <2>2. ASSUME a # NoId, sess' = SetIn(S, L, a, th) PROVE DOMAIN sess'[L].threads = DOMAIN S[L].threads
    <3>1. SessionOK(S[L], ThreadIds)
      BY <1>4 DEF SessOK
    <3>2. a \in DOMAIN S[L].threads /\ ThreadOK(S[L].threads[a])
      BY <2>2, <3>1 DEF SessionOK
    <3>3. ThreadOK(th)
      BY <3>2, FieldsOK
    <3> HIDE DEF a, th
    <3> QED BY <1>4, <2>2, <3>2, <3>3, SetFacts
  <2>3. DOMAIN sess'[L].threads = DOMAIN S[L].threads
    BY <2>1, <2>2
  <2> QED BY <1>3, <2>1, <2>3 DEF MintInv
<1>22. CASE Receive \/ Hydrate \/ Mint
  <2>1. loop'.at # "mint"
    BY <1>22 DEF Receive, Hydrate, Mint
  <2> QED BY <1>1, <2>1
<1>24. CASE Resolve
  <2>1. UNCHANGED map /\ sess' = S /\ live' = L
    BY <1>24 DEF Resolve
  <2>2. CASE Known(loop.key)
    <3>1. loop'.at = "dispatch"
      BY <1>24, <2>2 DEF Resolve
    <3> QED BY <1>1, <3>1
  <2>3. CASE ~Known(loop.key)
    <3>1. loop' = [at |-> "mint", key |-> loop.key, s |-> L]
      BY <1>24, <2>3 DEF Resolve
    <3>2. loop'.key = loop.key
      BY <3>1
    <3> QED BY <2>1, <2>3, <3>2 DEF MintInv, Known
  <2> QED BY <2>2, <2>3
<1>26. CASE \E w \in writes : PersistTurn(w)
  BY <1>0, <1>26 DEF PersistTurn, MintInv
<1>27. CASE PruneRemove
  BY <1>27 DEF PruneRemove, MintInv
<1>29. CASE PruneClean
  <2>1. DOMAIN map' = {}
    BY <1>29 DEF PruneClean
  <2> QED BY <2>1 DEF MintInv
<1>30. CASE Restart
  BY <1>1, <1>2, <1>30 DEF Restart
<1> QED BY <1>0, <1>10, <1>11, <1>12, <1>13, <1>14, <1>15, <1>17, <1>20, <1>21, <1>22, <1>24, <1>26, <1>27, <1>29, <1>30
        DEF OtherStep

\* AnswerInv is kept.
LEMMA AnswerSafe ==
    ASSUME IInv, Next
    PROVE  AnswerInv'
<1>0. /\ \/ Replied \/ NewThreadStep \/ InputStep \/ ApproveStep \/ TokenStep
         \/ TurnStep \/ AskStep \/ EndStep \/ OtherStep
      /\ BaseOK /\ LoopOK /\ TurnOK /\ BusyInv /\ WaitInv /\ AnswerInv
  BY StepKinds DEF IInv
<1>1. db \in Seq(Seq(Message)) /\ ThreadIds = 1 .. Len(db) /\ Len(db) \in Nat /\ writes \subseteq Write
  BY <1>0 DEF BaseOK, ThreadIds
<1>2. ASSUME UNCHANGED db, \A w \in writes' : w \in writes \/ ~w.user PROVE AnswerInv'
  BY <1>0, <1>2 DEF AnswerInv, AnswersFollowQuestions, ThreadIds, User
<1>3. ASSUME AddId, UNCHANGED writes PROVE AnswerInv'
  <2>1. /\ ThreadIds' = ThreadIds \cup {FreshId} /\ db'[FreshId] = <<>> /\ \A t \in ThreadIds : db'[t] = db[t]
    BY <1>0, <1>3, NewIdFacts
  <2>2. AnswersFollowQuestions'
    <3>1. ASSUME NEW t \in ThreadIds', NEW n \in DOMAIN db'[t], db'[t][n].role = "assistant"
          PROVE  \E q \in 1 .. n - 1 : db'[t][q] = User(db'[t][n].of)
      <4>1. t \in ThreadIds
        BY <2>1, <3>1
      <4> QED BY <1>0, <2>1, <3>1, <4>1 DEF AnswerInv, AnswersFollowQuestions
    <3> QED BY <3>1 DEF AnswersFollowQuestions, User
  <2>3. ASSUME NEW w \in writes, w.user PROVE \E q \in DOMAIN db'[w.t] : db'[w.t][q] = User(w.input)
    <3>1. w.t \in ThreadIds
      BY <1>1 DEF Write
    <3> QED BY <1>0, <2>1, <2>3, <3>1 DEF AnswerInv
  <2> QED BY <1>3, <2>2, <2>3 DEF AnswerInv, User
<1>4. ASSUME NEW w \in writes, PersistTurn(w) PROVE AnswerInv'
  <2>1. w.t \in ThreadIds /\ w.input \in Nat /\ w \in Write
    BY <1>1 DEF Write
  <2>2. CASE UNCHANGED db /\ writes' = writes \ {w}
    BY <1>2, <2>2
  <2>3. ASSUME NEW m, m \in {User(w.input), Assistant(w.input)}, db' = [db EXCEPT ![w.t] = Append(db[w.t], m)],
               m = Assistant(w.input) => w.user,
               \A x \in writes' : x \in writes \/ (x = [w EXCEPT !.user = TRUE] /\ m = User(w.input))
        PROVE  AnswerInv'
    <3> DEFINE d == db[w.t]
               e == db'[w.t]
    <3>1. d \in Seq(Message) /\ m \in Message
      BY <1>1, <2>1, <2>3 DEF ThreadIds, User, Assistant, Message
    <3>2. /\ e = Append(d, m) /\ ThreadIds' = ThreadIds /\ \A t \in ThreadIds : t # w.t => db'[t] = db[t]
      BY <1>1, <2>1, <2>3 DEF ThreadIds
    <3> HIDE DEF d, e
    <3>3. /\ Len(e) = Len(d) + 1 /\ DOMAIN e = 1 .. Len(d) + 1 /\ DOMAIN d = 1 .. Len(d) /\ Len(d) \in Nat
          /\ e[Len(d) + 1] = m /\ \A i \in DOMAIN d : e[i] = d[i]
      BY <3>1, <3>2
    <3>4. w.user => \E q \in DOMAIN d : d[q] = User(w.input)
      BY <1>0 DEF AnswerInv, d
    <3>5. ASSUME NEW t \in ThreadIds, NEW n \in DOMAIN db'[t], db'[t][n].role = "assistant"
          PROVE  \E q \in 1 .. n - 1 : db'[t][q] = User(db'[t][n].of)
      <4>1. CASE t # w.t
        BY <1>0, <3>2, <3>5, <4>1 DEF AnswerInv, AnswersFollowQuestions
      <4>2. CASE t = w.t
        <5>1. db'[t] = e /\ db[t] = d
          BY <4>2 DEF d, e
        <5>2. n \in DOMAIN e /\ e[n].role = "assistant"
          BY <3>5, <5>1
        <5>3. CASE n \in DOMAIN d
          <6>1. \E q \in 1 .. n - 1 : d[q] = User(d[n].of)
            BY <1>0, <3>3, <5>1, <5>2, <5>3 DEF AnswerInv, AnswersFollowQuestions
          <6>2. PICK q \in 1 .. n - 1 : d[q] = User(d[n].of)
            BY <6>1
          <6>3. q \in DOMAIN d
            BY <3>3, <5>3, <6>2
          <6>4. e[q] = User(e[n].of)
            BY <3>3, <5>3, <6>2, <6>3
          <6> QED BY <5>1, <6>4
        <5>4. CASE n = Len(d) + 1
          <6>1. m.role = "assistant"
            BY <3>3, <5>2, <5>4
          <6>2. m = Assistant(w.input)
            BY <2>3, <6>1 DEF User, Assistant
          <6>3. m.of = w.input /\ w.user
            BY <2>3, <6>2 DEF Assistant
          <6>4. PICK q \in DOMAIN d : d[q] = User(w.input)
            BY <3>4, <6>3
          <6>5. q \in 1 .. n - 1 /\ e[q] = User(w.input) /\ e[n].of = w.input
            BY <3>3, <5>4, <6>3, <6>4
          <6> QED BY <5>1, <6>5
        <5> QED BY <3>3, <5>2, <5>3, <5>4
      <4> QED BY <4>1, <4>2
    <3>6. ASSUME NEW x \in writes', x.user PROVE \E q \in DOMAIN db'[x.t] : db'[x.t][q] = User(x.input)
      <4>1. CASE x \in writes
        <5>1. x.t \in ThreadIds
          BY <1>1, <4>1 DEF Write
        <5>2. PICK q \in DOMAIN db[x.t] : db[x.t][q] = User(x.input)
          BY <1>0, <3>6, <4>1 DEF AnswerInv
        <5>3. CASE x.t = w.t
          <6>1. db[x.t] = d /\ db'[x.t] = e
            BY <5>3 DEF d, e
          <6>2. q \in DOMAIN e /\ e[q] = User(x.input)
            BY <3>3, <5>2, <6>1
          <6> QED BY <6>1, <6>2
        <5>4. CASE x.t # w.t
          BY <3>2, <5>1, <5>2, <5>4
        <5> QED BY <5>3, <5>4
      <4>2. CASE x = [w EXCEPT !.user = TRUE] /\ m = User(w.input)
        <5>1. x.t = w.t /\ x.input = w.input
          BY <2>1, <4>2 DEF Write
        <5>2. Len(d) + 1 \in DOMAIN e /\ e[Len(d) + 1] = User(x.input)
          BY <3>3, <4>2, <5>1
        <5> QED BY <5>1, <5>2 DEF e
      <4> QED BY <2>3, <4>1, <4>2
    <3> QED BY <3>2, <3>5, <3>6 DEF AnswerInv, AnswersFollowQuestions, User
  <2>4. CASE /\ ~w.user /\ db' = [db EXCEPT ![w.t] = Append(@, User(w.input))]
             /\ writes' = (writes \ {w}) \cup (IF w.resp THEN {[w EXCEPT !.user = TRUE]} ELSE {})
    <3>1. User(w.input) # Assistant(w.input)
      BY DEF User, Assistant
    <3>2. \A x \in writes' : x \in writes \/ x = [w EXCEPT !.user = TRUE]
      BY <2>4
    <3> QED BY <2>3, <2>4, <3>1, <3>2
  <2>5. CASE w.user /\ db' = [db EXCEPT ![w.t] = Append(@, Assistant(w.input))] /\ writes' = writes \ {w}
    BY <2>3, <2>5
  <2> QED BY <1>4, <2>2, <2>4, <2>5 DEF PersistTurn
<1>10. CASE Replied
  BY <1>2, <1>10 DEF Replied
<1>11. CASE NewThreadStep
  BY <1>0, <1>3, <1>11, NewThreadCalm DEF NewThreadStep
<1>12. CASE InputStep \/ ApproveStep \/ TokenStep \/ TurnStep \/ AskStep
  BY <1>2, <1>12 DEF InputStep, ApproveStep, TokenStep, TurnStep, AskStep
<1>17. CASE EndStep
  BY <1>0, <1>2, <1>17, TurnEnds DEF EndStep
<1>20. CASE WebNewThread \/ Mint
  BY <1>3, <1>20 DEF WebNewThread, Mint
<1>21. CASE WebClearAuth \/ Receive \/ Hydrate \/ Resolve \/ PruneRemove \/ PruneClean
  BY <1>2, <1>21 DEF WebClearAuth, Receive, Hydrate, Resolve, PruneRemove, PruneClean
<1>30. CASE Restart
  BY <1>2, <1>30 DEF Restart
<1> QED BY <1>0, <1>4, <1>10, <1>11, <1>12, <1>17, <1>20, <1>21, <1>30 DEF OtherStep

-----------------------------------------------------------------------------
(* Theorems. *)

\* Conversations start in the invariant.
LEMMA InitInv == Init => IInv
<1> SUFFICES ASSUME Init PROVE IInv
  OBVIOUS
<1> USE DEF Init
<1>1. DOMAIN <<>> = {} /\ Listed(<<>>) /\ Len(<<>>) = 0 /\ <<>> = [k \in DOMAIN <<>> |-> <<>>[k]]
  BY SeqsAreListed
<1>2. loop.at = "idle" /\ prune.at = "idle"
  BY DEF Idle
<1>3. MaxMessages \in Nat /\ MaxEvents \in Nat
  BY ThreadsAssumption
<1>4. BaseOK
  BY <1>1, <1>2, <1>3 DEF BaseOK, SessOK, ThreadIds, Requests
<1>5. LoopOK /\ TurnOK
  BY <1>2 DEF LoopOK, TurnOK, Places
<1>6. BudgetInv
  BY <1>2, <1>3 DEF BudgetInv, Pending
<1>7. BusyInv /\ WaitInv /\ MintInv
  BY <1>1, <1>2 DEF BusyInv, WaitInv, MintInv
<1>8. ApprovedOnce /\ AnswerInv
  BY <1>1 DEF ApprovedOnce, AnswerInv, AnswersFollowQuestions, Requests, ThreadIds
<1> QED BY <1>4, <1>5, <1>6, <1>7, <1>8 DEF IInv

\* A step that changes nothing keeps the invariant.
LEMMA StutterInv == IInv /\ UNCHANGED vars => IInv'
<1> SUFFICES ASSUME IInv, UNCHANGED vars PROVE IInv'
  OBVIOUS
<1> USE DEF IInv, vars
<1>1. BaseOK'
  BY DEF BaseOK, SessOK, ThreadIds, Requests, Write
<1>2. LoopOK' /\ TurnOK'
  BY DEF LoopOK, TurnOK, ThreadIds
<1>3. BudgetInv' /\ BusyInv' /\ MintInv'
  BY DEF BudgetInv, Pending, BusyInv, MintInv, Thread
<1>4. WaitInv' /\ ApprovedOnce'
  BY DEF WaitInv, ApprovedOnce, Thread, Requests
<1>5. AnswerInv'
  BY DEF AnswerInv, AnswersFollowQuestions, ThreadIds
<1> QED BY <1>1, <1>2, <1>3, <1>4, <1>5

\* IInv holds of every step of the sessions, the message loop, the web
\* handlers, the prunings, the spawned writes and the restarts.
THEOREM Invariance == Spec => []IInv
<1>1. Init => IInv
  BY InitInv
<1>2. ASSUME IInv, [Next]_vars PROVE IInv'
  <2>1. CASE Next
    BY <1>2, <2>1, BaseSafe, LoopSafe, BudgetSafe, BusySafe, WaitSafe, MintSafe, AnswerSafe DEF IInv
  <2>2. CASE UNCHANGED vars
    BY <1>2, <2>2, StutterInv
  <2> QED BY <1>2, <2>1, <2>2
<1> QED BY <1>1, <1>2, PTL DEF Spec

\* Types: sessions hold threads with dealt ids, the loop works in sessions and
\* threads that were made, and no undo stack grows past max_checkpoints.
THEOREM TypeCorrect == Spec => []TypeOK
<1>1. ASSUME IInv PROVE TypeOK
  <2>1. BaseOK /\ BudgetInv
    BY <1>1 DEF IInv
  <2>2. live \in 0 .. Len(sess) /\ Len(undo) = Len(db) /\ DOMAIN map \subseteq {NoId} \cup ThreadIds
    BY <2>1 DEF BaseOK
  <2>3. \A k \in DOMAIN map : map[k] \in ThreadIds
    BY <2>1 DEF BaseOK
  <2>4. \A s \in DOMAIN sess : SessionOK(sess[s], ThreadIds)
    BY <2>1 DEF BaseOK, SessOK
  <2>5. \A s \in DOMAIN sess :
            /\ DOMAIN sess[s].threads \subseteq ThreadIds
            /\ sess[s].active \in {NoId} \cup DOMAIN sess[s].threads
            /\ sess[s].auto \subseteq {"auth", "shell"}
    BY <2>4 DEF SessionOK
  <2>6. ASSUME NEW st \in Threads
        PROVE  Thread(st[1], st[2]).state \in {"Idle", "Processing", "AwaitingApproval", "Interrupted"}
    <3>1. st[1] \in DOMAIN sess /\ st[2] \in DOMAIN sess[st[1]].threads
      BY DEF Threads
    <3>2. ThreadOK(sess[st[1]].threads[st[2]])
      BY <2>4, <3>1 DEF SessionOK
    <3> QED BY <3>2 DEF ThreadOK, States, Thread
  <2>7. ASSUME NEW t \in ThreadIds PROVE Len(undo[t].undo) <= MaxCheckpoints
    <3>1. DOMAIN undo = ThreadIds
      <4>1. Listed(undo) /\ Len(undo) = Len(db) /\ db \in Seq(Seq(Message))
        BY <2>1 DEF BaseOK
      <4> QED BY <4>1, ListedFacts DEF ThreadIds
    <3> QED BY <2>1, <3>1 DEF BaseOK, UndoOK
  <2>8. inputs <= MaxMessages /\ void \subseteq Requests
    <3>1. inputs \in Nat /\ budget.messages \in Nat /\ Pending \in {0, 1} /\ MaxMessages \in Nat
      BY <2>1, SpendFacts, ThreadsAssumption DEF BaseOK, Pending
    <3> QED BY <2>1, <3>1 DEF BaseOK, BudgetInv
  <2> QED BY <2>2, <2>3, <2>5, <2>6, <2>7, <2>8 DEF TypeOK
<1> QED BY <1>1, Invariance, PTL

\* Approvals: a tool call that needs approval runs at most once, and never after
\* its request was denied, interrupted, undone, cleared or lost: process_approval.
THEOREM ApprovalsRunOnce == Spec => []ApprovedOnce
<1>1. IInv => ApprovedOnce
  BY DEF IInv
<1> QED BY <1>1, Invariance, PTL

\* Turns: when the loop takes the next message no thread is left Processing, and
\* a thread that awaits approval has the request to answer.
THEOREM TurnsAreEnded == Spec => []NoThreadLeftBusy
<1>1. ASSUME IInv, loop.at = "idle", NEW st \in Threads
      PROVE  /\ Thread(st[1], st[2]).state # "Processing"
             /\ Thread(st[1], st[2]).state = "AwaitingApproval" => Thread(st[1], st[2]).req # NoRequest
  <2>1. st[1] \in DOMAIN sess /\ st[2] \in DOMAIN sess[st[1]].threads
    BY DEF Threads
  <2>2. Thread(st[1], st[2]).state # "Processing"
    BY <1>1, <2>1 DEF IInv, BusyInv, Places
  <2>3. Thread(st[1], st[2]).state = "AwaitingApproval" => Thread(st[1], st[2]).req.tool \in Guarded
    BY <1>1, <2>1 DEF IInv, WaitInv
  <2>4. NoRequest.tool \notin Guarded
    BY DEF NoRequest, Guarded
  <2> QED BY <2>2, <2>3, <2>4
<1>2. IInv => NoThreadLeftBusy
  BY <1>1 DEF NoThreadLeftBusy
<1> QED BY <1>2, Invariance, PTL

\* Resolution: the thread a message was resolved to stays in the session it was
\* resolved to for as long as the message is handled, prunings or not.
THEOREM ResolvedThreadsStay == Spec => []ResolvedThreadExists
<1>1. ASSUME IInv, "t" \in DOMAIN loop PROVE loop.t \in DOMAIN sess[loop.s].threads
  <2>1. LoopOK
    BY <1>1 DEF IInv
  <2>2. loop.at # "idle"
    BY <1>1, <2>1 DEF LoopOK, Idle
  <2>3. loop.at # "resolve"
    BY <1>1, <2>1 DEF LoopOK
  <2>4. loop.at # "hydrate"
    BY <1>1, <2>1 DEF LoopOK
  <2>5. loop.at # "mint"
    BY <1>1, <2>1 DEF LoopOK
  <2> QED BY <2>1, <2>2, <2>3, <2>4, <2>5 DEF LoopOK
<1>2. IInv => ResolvedThreadExists
  BY <1>1 DEF ResolvedThreadExists
<1> QED BY <1>2, Invariance, PTL

\* Persistence: in the database an answer follows its question, whatever order
\* the persist_turn tasks run in and whichever of their writes fail.
THEOREM AnswersAreOrdered == Spec => []AnswersFollowQuestions
<1>1. IInv => AnswersFollowQuestions
  BY DEF IInv, AnswerInv
<1> QED BY <1>1, Invariance, PTL

\* Resolution: while its thread is in the live session and it asked for no other,
\* only a pruning or a restart takes a conversation's thread away:
\* resolve_thread, register_thread.
THEOREM ConversationsStick == Spec => ConversationSticks
<1> DEFINE Sticks == \A k \in {k \in DOMAIN map : k = NoId \/ map[k] = k} :
               /\ live # 0 /\ map[k] \in DOMAIN sess[live].threads
               /\ prune.at = "idle" /\ sess' # <<>> /\ k \notin moved'
               => k \in DOMAIN map' /\ map'[k] = map[k]
<1>1. ASSUME IInv, Next, NEW k \in DOMAIN map, k = NoId \/ map[k] = k,
             live # 0, map[k] \in DOMAIN sess[live].threads, prune.at = "idle", sess' # <<>>
      PROVE  k \in DOMAIN map' /\ map'[k] = map[k]
  <2>0. /\ \/ Replied \/ NewThreadStep \/ InputStep \/ ApproveStep \/ TokenStep
           \/ TurnStep \/ AskStep \/ EndStep \/ OtherStep
        /\ BaseOK /\ LoopOK /\ MintInv
    BY <1>1, StepKinds DEF IInv
  <2>1. CASE UNCHANGED map
    BY <1>1, <2>1
  <2>2. CASE Hydrate
    <3>1. /\ map' = [j \in DOMAIN map \cup {loop.key} |-> IF j = loop.key THEN j ELSE map[j]]
          /\ loop.key \in ThreadIds /\ ThreadIds = 1 .. Len(db)
      BY <2>0, <2>2 DEF Hydrate, LoopOK, BaseOK, ThreadIds
    <3>2. loop.key # NoId
      BY <3>1 DEF NoId
    <3> QED BY <1>1, <3>1, <3>2
  <2>3. CASE Mint
    <3>1. /\ map' = [j \in DOMAIN map \cup {loop.key} |-> IF j = loop.key THEN FreshId ELSE map[j]]
          /\ loop.at = "mint"
      BY <2>3 DEF Mint
    <3>2. k # loop.key
      BY <1>1, <2>0, <3>1 DEF MintInv
    <3> QED BY <1>1, <3>1, <3>2
  <2>4. CASE Restart \/ PruneClean
    BY <1>1, <2>4 DEF Restart, PruneClean
  <2> QED BY <2>0, <2>1, <2>2, <2>3, <2>4 DEF Replied, NewThreadStep, InputStep, ApproveStep, TokenStep, TurnStep,
             AskStep, EndStep, OtherStep, WebNewThread, WebClearAuth, Receive, Resolve, PersistTurn, PruneRemove
<1>2. ASSUME IInv, Next PROVE Sticks
  BY <1>1, <1>2
<1>3. ASSUME IInv, [Next]_vars PROVE [Sticks]_vars
  BY <1>2, <1>3
<1> QED BY <1>3, Invariance, PTL DEF Spec, ConversationSticks

=============================================================================
