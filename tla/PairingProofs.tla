--------------------------- MODULE PairingProofs ---------------------------
(***************************************************************************)
(* What Pairing promises, for any callers, senders, codes and limits.      *)
(***************************************************************************)
EXTENDS Pairing, FiniteSetTheorems, TLAPS

-----------------------------------------------------------------------------
(* Types: what each stage of a call carries. *)

Keeps == (SUBSET Request) \cup (SUBSET Senders) \cup (SUBSET Failure)

\* A call has a sender where it needs one, and the content it will write is one
\* of the file it writes.
CallOK(c) ==
    /\ c.at \in {"rewrite", "relock", "writing"} => c.keep \in SUBSET Request
    /\ c.at = "allowwrite" => c.keep \in SUBSET Senders
    /\ c.at \in {"record", "recordwrite"} => c.keep \in SUBSET Failure
    /\ c.at \in {"upsert", "allow", "allowlock", "allowwrite"} => c.id \in Senders
    /\ c.at = "approve" => c.code \in Codes

CallRec == [at : Stages, id : Senders \cup {None}, code : Codes \cup {None}, keep : Keeps]

Types ==
    /\ TypeOK
    /\ call \in [Callers -> CallRec]
    /\ \A p \in Callers : CallOK(call[p])
    /\ IsFiniteSet(failures)

(* A content of one of the files. *)
LEMMA IsKeep ==
    ASSUME NEW K, \/ K \in SUBSET Request \/ K \in SUBSET Senders \/ K \in SUBSET Failure
    PROVE  K \in Keeps
  BY DEF Keeps

(* The limits are numbers, and nobody is called "none". *)
LEMMA Bounds ==
    /\ PendingMax \in Nat /\ Ttl \in Nat /\ RateLimit \in Nat
    /\ Window \in Nat /\ MaxTime \in Nat /\ MaxCalls \in Nat
    /\ None \notin Callers /\ None \notin Senders /\ None \notin Codes
  BY PairingAssumption DEF None

(* A record Doing makes is one of a call. *)
LEMMA DoingIsCall ==
    ASSUME NEW at \in Stages, NEW id \in Senders \cup {None},
           NEW code \in Codes \cup {None}, NEW keep \in Keeps
    PROVE  /\ Doing(at, id, code, keep) \in CallRec
           /\ Doing(at, id, code, keep).at = at
           /\ Doing(at, id, code, keep).id = id
           /\ Doing(at, id, code, keep).code = code
           /\ Doing(at, id, code, keep).keep = keep
  BY DEF Doing, CallRec

(* The call of an idle caller. *)
LEMMA IdleIsCall == Idle \in CallRec /\ CallOK(Idle) /\ Idle.at = "idle"
  BY DoingIsCall DEF Idle, Doing, CallRec, CallOK, Stages, Keeps

(* A step that moves one caller keeps the calls typed, and the others where
   they are. *)
LEMMA Moves ==
    ASSUME Types, NEW p \in Callers, NEW c \in CallRec, CallOK(c), Goto(p, c)
    PROVE  /\ call' \in [Callers -> CallRec]
           /\ \A q \in Callers : CallOK(call'[q])
           /\ call'[p] = c
           /\ \A q \in Callers : q # p => call'[q] = call[q]
  BY DEF Types, Goto

(* A fresh store is typed. *)
LEMMA TypesInit == Init => Types
  <1> SUFFICES ASSUME Init PROVE Types
      OBVIOUS
  <1>1. \A p \in Callers : call[p] = Idle
      BY DEF Init
  <1>2. call \in [Callers -> CallRec] /\ \A p \in Callers : CallOK(call[p])
      BY <1>1, IdleIsCall DEF Init
  <1>3. TypeOK
    <2>1. \A p \in Callers : /\ call[p].at \in Stages
                             /\ lock = p <=> At(p, "writing")
                             /\ allowLock = p <=> At(p, "allowwrite")
                             /\ attemptsLock = p <=> At(p, "recordwrite")
        BY <1>1, IdleIsCall, Bounds DEF Init, At, Stages
    <2>2. now \in 0..MaxTime /\ calls \in 0..MaxCalls
        BY Bounds DEF Init
    <2> QED
        BY <2>1, <2>2 DEF Init, TypeOK
  <1>4. IsFiniteSet(failures)
      BY FS_EmptySet DEF Init
  <1> QED
      BY <1>2, <1>3, <1>4 DEF Types

-----------------------------------------------------------------------------
(* Types are kept.  A call that goes to `stage` takes the lock of that stage,
   which was free, and gives back the lock of the stage it leaves. *)

HeldAfter(before, after, p, stage, writing) ==
    /\ stage = writing => before \in {None, p}
    /\ after = IF stage = writing THEN p ELSE Released(before, p)

(* Then each lock is held by the caller at the stage that needs it. *)
LEMMA LocksAfter ==
    ASSUME Types, NEW p \in Callers, NEW c \in CallRec, CallOK(c), Goto(p, c),
           HeldAfter(lock, lock', p, c.at, "writing"),
           HeldAfter(allowLock, allowLock', p, c.at, "allowwrite"),
           HeldAfter(attemptsLock, attemptsLock', p, c.at, "recordwrite")
    PROVE  /\ \A q \in Callers :
                /\ call'[q].at \in Stages
                /\ lock' = q <=> At(q, "writing")'
                /\ allowLock' = q <=> At(q, "allowwrite")'
                /\ attemptsLock' = q <=> At(q, "recordwrite")'
           /\ {lock', allowLock', attemptsLock'} \subseteq Callers \cup {None}
  <1>1. /\ call'[p] = c
        /\ \A q \in Callers : q # p => call'[q] = call[q]
      BY Moves
  <1>2. c.at \in Stages
      BY DEF CallRec
  <1>3. \A q \in Callers :
                /\ call[q].at \in Stages
                /\ lock = q <=> At(q, "writing")
                /\ allowLock = q <=> At(q, "allowwrite")
                /\ attemptsLock = q <=> At(q, "recordwrite")
      BY DEF Types, TypeOK
  <1>4. {lock, allowLock, attemptsLock} \subseteq Callers \cup {None}
      BY DEF Types, TypeOK
  <1>5. ASSUME NEW q \in Callers
        PROVE  /\ call'[q].at \in Stages
               /\ lock' = q <=> At(q, "writing")'
               /\ allowLock' = q <=> At(q, "allowwrite")'
               /\ attemptsLock' = q <=> At(q, "recordwrite")'
    <2>1. CASE q = p
        BY <2>1, <1>1, <1>2, Bounds DEF At, HeldAfter, Released
    <2>2. CASE q # p
        BY <2>2, <1>1, <1>3, Bounds DEF At, HeldAfter, Released
    <2> QED
        BY <2>1, <2>2
  <1>6. {lock', allowLock', attemptsLock'} \subseteq Callers \cup {None}
      BY <1>4 DEF HeldAfter, Released
  <1> QED
      BY <1>5, <1>6

(* The part of TypeOK that is not about calls and locks. *)
DataOK ==
    /\ exists \in BOOLEAN /\ file \subseteq Request
    /\ allow \subseteq Senders /\ attempts \subseteq Failure
    /\ now \in 0..MaxTime /\ calls \in 0..MaxCalls
    /\ pending \subseteq Request /\ shown \subseteq Senders \X Codes
    /\ tried \subseteq Codes /\ approved \subseteq Senders /\ recent \subseteq Senders
    /\ failures \subseteq Failure /\ lost \subseteq Request \cup Failure
    /\ overtaken \in BOOLEAN /\ broken \subseteq Files

(* The types after a step of one caller. *)
LEMMA TypesAfter ==
    ASSUME Types, NEW p \in Callers, NEW c \in CallRec, CallOK(c), Goto(p, c),
           HeldAfter(lock, lock', p, c.at, "writing"),
           HeldAfter(allowLock, allowLock', p, c.at, "allowwrite"),
           HeldAfter(attemptsLock, attemptsLock', p, c.at, "recordwrite"),
           DataOK', IsFiniteSet(failures)'
    PROVE  Types'
  <1>1. call' \in [Callers -> CallRec] /\ \A q \in Callers : CallOK(call'[q])
      BY Moves
  <1>2. TypeOK'
      BY <1>1, LocksAfter DEF TypeOK, DataOK
  <1> QED
      BY <1>1, <1>2 DEF Types

(* A lock its holder does not hold is left alone. *)
LEMMA NotHeld ==
    ASSUME Types, NEW p \in Callers
    PROVE  /\ ~At(p, "writing") => Released(lock, p) = lock
           /\ ~At(p, "allowwrite") => Released(allowLock, p) = allowLock
           /\ ~At(p, "recordwrite") => Released(attemptsLock, p) = attemptsLock
           /\ At(p, "writing") => lock = p
           /\ At(p, "allowwrite") => allowLock = p
           /\ At(p, "recordwrite") => attemptsLock = p
           /\ Released(p, p) = None
  BY DEF Types, TypeOK, Released

(* Every step keeps the types: the calls that only move on. *)
LEMMA TypesProceed ==
    ASSUME Types, NEW p \in Callers,
           \/ Write(p) \/ ListPending(p) \/ ListOpen(p) \/ ListLock(p) \/ ApproveNoFile(p)
           \/ AllowOpen(p) \/ AllowKnown(p) \/ AllowAdd(p) \/ AllowWrite(p)
           \/ RecordWrite(p) \/ Fail(p)
    PROVE  Types'
  <1> USE DEF At
  <1>0. /\ call[p] \in CallRec /\ CallOK(call[p]) /\ DataOK /\ IsFiniteSet(failures)
        /\ call[p].id \in Senders \cup {None} /\ call[p].keep \in Keeps
      BY DEF Types, TypeOK, DataOK, CallRec
  <1>1. CASE Write(p)
    <2> DEFINE c == IF call[p].id = None THEN Idle ELSE Doing("allow", call[p].id, None, {})
    <2>1. Goto(p, c)
        BY <1>1 DEF Write, Doing
    <2>2. c \in CallRec /\ CallOK(c) /\ c.at \in {"idle", "allow"}
        BY <1>1, <1>0, IdleIsCall DEF Write, Types, TypeOK, CallRec, CallOK, Doing, Stages, Keeps
    <2>3. DataOK' /\ IsFiniteSet(failures)'
        BY <1>1, <1>0, Bounds DEF Write, DataOK, CallOK, fileVars, allowVars, attemptVars, askVars
    <2>4. /\ HeldAfter(lock, lock', p, c.at, "writing")
          /\ HeldAfter(allowLock, allowLock', p, c.at, "allowwrite")
          /\ HeldAfter(attemptsLock, attemptsLock', p, c.at, "recordwrite")
        BY <1>1, <2>2, NotHeld DEF Write, HeldAfter, fileVars, allowVars, attemptVars
    <2> HIDE DEF c
    <2> QED
        BY <2>1, <2>2, <2>3, <2>4, TypesAfter
  <1>2. CASE ListPending(p)
    <2> DEFINE c == Doing("rewrite", None, None, Live(file))
    <2>1. Goto(p, c)
        BY <1>2 DEF ListPending, Doing
    <2>2. c \in CallRec /\ CallOK(c) /\ c.at \in {"rewrite"}
        BY <1>2, <1>0, IdleIsCall DEF ListPending, Types, TypeOK, CallRec, CallOK, Doing, Stages, Keeps, Live
    <2>3. DataOK' /\ IsFiniteSet(failures)'
        BY <1>2, <1>0, Bounds DEF ListPending, DataOK, CallOK, Live, fileVars, allowVars, attemptVars, askVars, Begins
    <2>4. /\ HeldAfter(lock, lock', p, c.at, "writing")
          /\ HeldAfter(allowLock, allowLock', p, c.at, "allowwrite")
          /\ HeldAfter(attemptsLock, attemptsLock', p, c.at, "recordwrite")
        BY <1>2, <2>2, NotHeld DEF ListPending, HeldAfter, fileVars, allowVars, attemptVars, Begins
    <2> HIDE DEF c
    <2> QED
        BY <2>1, <2>2, <2>3, <2>4, TypesAfter
  <1>3. CASE ListOpen(p)
    <2> DEFINE c == [call[p] EXCEPT !.at = "relock"]
    <2>1. Goto(p, c)
        BY <1>3 DEF ListOpen, Doing
    <2>2. c \in CallRec /\ CallOK(c) /\ c.at \in {"relock"}
        BY <1>3, <1>0, IdleIsCall DEF ListOpen, Types, TypeOK, CallRec, CallOK, Doing, Stages, Keeps
    <2>3. DataOK' /\ IsFiniteSet(failures)'
        BY <1>3, <1>0, Bounds DEF ListOpen, DataOK, CallOK, fileVars, allowVars, attemptVars, askVars
    <2>4. /\ HeldAfter(lock, lock', p, c.at, "writing")
          /\ HeldAfter(allowLock, allowLock', p, c.at, "allowwrite")
          /\ HeldAfter(attemptsLock, attemptsLock', p, c.at, "recordwrite")
        BY <1>3, <2>2, NotHeld DEF ListOpen, HeldAfter, fileVars, allowVars, attemptVars
    <2> HIDE DEF c
    <2> QED
        BY <2>1, <2>2, <2>3, <2>4, TypesAfter
  <1>4. CASE ListLock(p)
    <2> DEFINE c == Doing("writing", None, None, call[p].keep)
    <2>1. Goto(p, c)
        BY <1>4 DEF ListLock, Hold, Doing
    <2>2. c \in CallRec /\ CallOK(c) /\ c.at \in {"writing"}
        BY <1>4, <1>0, IdleIsCall DEF ListLock, Types, TypeOK, CallRec, CallOK, Doing, Stages, Keeps
    <2>3. DataOK' /\ IsFiniteSet(failures)'
        BY <1>4, <1>0, Bounds DEF ListLock, DataOK, CallOK, Hold, fileVars, allowVars, attemptVars, askVars
    <2>4. /\ HeldAfter(lock, lock', p, c.at, "writing")
          /\ HeldAfter(allowLock, allowLock', p, c.at, "allowwrite")
          /\ HeldAfter(attemptsLock, attemptsLock', p, c.at, "recordwrite")
        BY <1>4, <2>2, NotHeld DEF ListLock, HeldAfter, fileVars, allowVars, attemptVars, Hold
    <2> HIDE DEF c
    <2> QED
        BY <2>1, <2>2, <2>3, <2>4, TypesAfter
  <1>5. CASE ApproveNoFile(p)
    <2> DEFINE c == Idle
    <2>1. Goto(p, c)
        BY <1>5 DEF ApproveNoFile, Doing
    <2>2. c \in CallRec /\ CallOK(c) /\ c.at \in {"idle"}
        BY <1>5, <1>0, IdleIsCall DEF ApproveNoFile, Types, TypeOK, CallRec, CallOK, Doing, Stages, Keeps
    <2>3. DataOK' /\ IsFiniteSet(failures)'
        BY <1>5, <1>0, Bounds DEF ApproveNoFile, DataOK, CallOK, fileVars, allowVars, attemptVars, askVars
    <2>4. /\ HeldAfter(lock, lock', p, c.at, "writing")
          /\ HeldAfter(allowLock, allowLock', p, c.at, "allowwrite")
          /\ HeldAfter(attemptsLock, attemptsLock', p, c.at, "recordwrite")
        BY <1>5, <2>2, NotHeld DEF ApproveNoFile, HeldAfter, fileVars, allowVars, attemptVars
    <2> HIDE DEF c
    <2> QED
        BY <2>1, <2>2, <2>3, <2>4, TypesAfter
  <1>6. CASE AllowOpen(p)
    <2> DEFINE c == [call[p] EXCEPT !.at = "allowlock"]
    <2>1. Goto(p, c)
        BY <1>6 DEF AllowOpen, Doing
    <2>2. c \in CallRec /\ CallOK(c) /\ c.at \in {"allowlock"}
        BY <1>6, <1>0, IdleIsCall DEF AllowOpen, Types, TypeOK, CallRec, CallOK, Doing, Stages, Keeps
    <2>3. DataOK' /\ IsFiniteSet(failures)'
        BY <1>6, <1>0, Bounds DEF AllowOpen, DataOK, CallOK, fileVars, allowVars, attemptVars, askVars
    <2>4. /\ HeldAfter(lock, lock', p, c.at, "writing")
          /\ HeldAfter(allowLock, allowLock', p, c.at, "allowwrite")
          /\ HeldAfter(attemptsLock, attemptsLock', p, c.at, "recordwrite")
        BY <1>6, <2>2, NotHeld DEF AllowOpen, HeldAfter, fileVars, allowVars, attemptVars
    <2> HIDE DEF c
    <2> QED
        BY <2>1, <2>2, <2>3, <2>4, TypesAfter
  <1>7. CASE AllowKnown(p)
    <2> DEFINE c == Idle
    <2>1. Goto(p, c)
        BY <1>7 DEF AllowKnown, Doing
    <2>2. c \in CallRec /\ CallOK(c) /\ c.at \in {"idle"}
        BY <1>7, <1>0, IdleIsCall DEF AllowKnown, Types, TypeOK, CallRec, CallOK, Doing, Stages, Keeps
    <2>3. DataOK' /\ IsFiniteSet(failures)'
        BY <1>7, <1>0, Bounds DEF AllowKnown, DataOK, CallOK, fileVars, allowVars, attemptVars, askVars
    <2>4. /\ HeldAfter(lock, lock', p, c.at, "writing")
          /\ HeldAfter(allowLock, allowLock', p, c.at, "allowwrite")
          /\ HeldAfter(attemptsLock, attemptsLock', p, c.at, "recordwrite")
        BY <1>7, <2>2, NotHeld DEF AllowKnown, HeldAfter, fileVars, allowVars, attemptVars
    <2> HIDE DEF c
    <2> QED
        BY <2>1, <2>2, <2>3, <2>4, TypesAfter
  <1>8. CASE AllowAdd(p)
    <2>0. PICK read \in Reads(allow) :
              /\ Goto(p, Doing("allowwrite", call[p].id, None, read \cup {call[p].id}))
              /\ recent' = recent \ (allow \ read) /\ Misread("allow", allow, read)
        BY <1>8 DEF AllowAdd
    <2> DEFINE K == read \cup {call[p].id}
               c == Doing("allowwrite", call[p].id, None, K)
    <2>1. Goto(p, c)
        BY <2>0
    <2>2. c \in CallRec /\ CallOK(c) /\ c.at \in {"allowwrite"}
      <3>1. call[p].id \in Senders /\ K \in SUBSET Senders
          BY <1>8, <1>0 DEF AllowAdd, CallOK, DataOK, Reads
      <3>2. K \in Keeps
          BY <3>1, IsKeep
      <3> HIDE DEF K
      <3> QED
          BY <3>1, <3>2 DEF CallRec, CallOK, Doing, Stages
    <2>3. DataOK' /\ IsFiniteSet(failures)'
        BY <1>8, <2>0, <1>0, Bounds DEF AllowAdd, DataOK, Misread, Files, fileVars, attemptVars, askVars
    <2>4. /\ HeldAfter(lock, lock', p, c.at, "writing")
          /\ HeldAfter(allowLock, allowLock', p, c.at, "allowwrite")
          /\ HeldAfter(attemptsLock, attemptsLock', p, c.at, "recordwrite")
        BY <1>8, <2>2, NotHeld DEF AllowAdd, HeldAfter, fileVars, attemptVars
    <2> HIDE DEF c
    <2> QED
        BY <2>1, <2>2, <2>3, <2>4, TypesAfter
  <1>9. CASE AllowWrite(p)
    <2> DEFINE c == Idle
    <2>1. Goto(p, c)
        BY <1>9 DEF AllowWrite, Doing
    <2>2. c \in CallRec /\ CallOK(c) /\ c.at \in {"idle"}
        BY <1>9, <1>0, IdleIsCall DEF AllowWrite, Types, TypeOK, CallRec, CallOK, Doing, Stages, Keeps
    <2>3. DataOK' /\ IsFiniteSet(failures)'
        BY <1>9, <1>0, Bounds DEF AllowWrite, DataOK, CallOK, fileVars, allowVars, attemptVars, askVars
    <2>4. /\ HeldAfter(lock, lock', p, c.at, "writing")
          /\ HeldAfter(allowLock, allowLock', p, c.at, "allowwrite")
          /\ HeldAfter(attemptsLock, attemptsLock', p, c.at, "recordwrite")
        BY <1>9, <2>2, NotHeld DEF AllowWrite, HeldAfter, fileVars, allowVars, attemptVars
    <2> HIDE DEF c
    <2> QED
        BY <2>1, <2>2, <2>3, <2>4, TypesAfter
  <1>10. CASE RecordWrite(p)
    <2> DEFINE c == Idle
    <2>1. Goto(p, c)
        BY <1>10 DEF RecordWrite, Doing
    <2>2. c \in CallRec /\ CallOK(c) /\ c.at \in {"idle"}
        BY <1>10, <1>0, IdleIsCall DEF RecordWrite, Types, TypeOK, CallRec, CallOK, Doing, Stages, Keeps
    <2>3. DataOK' /\ IsFiniteSet(failures)'
        BY <1>10, <1>0, Bounds DEF RecordWrite, DataOK, CallOK, fileVars, allowVars, attemptVars, askVars
    <2>4. /\ HeldAfter(lock, lock', p, c.at, "writing")
          /\ HeldAfter(allowLock, allowLock', p, c.at, "allowwrite")
          /\ HeldAfter(attemptsLock, attemptsLock', p, c.at, "recordwrite")
        BY <1>10, <2>2, NotHeld DEF RecordWrite, HeldAfter, fileVars, allowVars, attemptVars
    <2> HIDE DEF c
    <2> QED
        BY <2>1, <2>2, <2>3, <2>4, TypesAfter
  <1>11. CASE Fail(p)
    <2> DEFINE c == Idle
    <2>1. Goto(p, c)
        BY <1>11 DEF Fail, Doing
    <2>2. c \in CallRec /\ CallOK(c) /\ c.at \in {"idle"}
        BY <1>11, <1>0, IdleIsCall DEF Fail, Types, TypeOK, CallRec, CallOK, Doing, Stages, Keeps
    <2>3. DataOK' /\ IsFiniteSet(failures)'
      <3>1. CutBy(p) \subseteq Files
          BY DEF CutBy
      <3>2. LostBy(p) \subseteq Request \cup Failure
          BY <1>0 DEF LostBy, DataOK, CallOK
      <3> QED
          BY <1>11, <1>0, <3>1, <3>2 DEF Fail, DataOK, askVars
    <2>4. /\ HeldAfter(lock, lock', p, c.at, "writing")
          /\ HeldAfter(allowLock, allowLock', p, c.at, "allowwrite")
          /\ HeldAfter(attemptsLock, attemptsLock', p, c.at, "recordwrite")
        BY <1>11, <2>2, NotHeld DEF Fail, HeldAfter, fileVars, allowVars, attemptVars
    <2> HIDE DEF c
    <2> QED
        BY <2>1, <2>2, <2>3, <2>4, TypesAfter
  <1> QED
      BY <1>1, <1>2, <1>3, <1>4, <1>5, <1>6, <1>7, <1>8, <1>9, <1>10, <1>11

(* The calls that begin. *)
LEMMA TypesBegin ==
    ASSUME Types, NEW p \in Callers,
           \/ \E s \in Senders : Message(p, s)
           \/ \E code \in Codes : Approve(p, code)
    PROVE  Types'
  <1> USE DEF At
  <1>0. DataOK /\ IsFiniteSet(failures) /\ call[p] \in CallRec
      BY DEF Types, TypeOK, DataOK
  <1>1. ASSUME NEW s \in Senders, Message(p, s) PROVE Types'
    <2> DEFINE c == Doing("upsert", s, None, {})
    <2>1. Goto(p, c)
        BY <1>1 DEF Message
    <2>2. c \in CallRec /\ CallOK(c) /\ c.at = "upsert"
        BY DEF CallRec, CallOK, Doing, Stages, Keeps
    <2>3. DataOK' /\ IsFiniteSet(failures)'
        BY <1>1, <1>0, Bounds DEF Message, Begins, DataOK, allowVars, attemptVars, askVars
    <2>4. /\ HeldAfter(lock, lock', p, c.at, "writing")
          /\ HeldAfter(allowLock, allowLock', p, c.at, "allowwrite")
          /\ HeldAfter(attemptsLock, attemptsLock', p, c.at, "recordwrite")
        BY <1>1, <2>2, NotHeld DEF Message, Begins, HeldAfter, allowVars, attemptVars
    <2> HIDE DEF c
    <2> QED
        BY <2>1, <2>2, <2>3, <2>4, TypesAfter
  <1>2. ASSUME NEW code \in Codes, Approve(p, code) PROVE Types'
    <2> DEFINE c == Doing("approve", None, code, {})
    <2>1. Goto(p, c)
        BY <1>2 DEF Approve
    <2>2. c \in CallRec /\ CallOK(c) /\ c.at = "approve"
        BY DEF CallRec, CallOK, Doing, Stages, Keeps
    <2>3. DataOK' /\ IsFiniteSet(failures)'
        BY <1>2, <1>0, Bounds DEF Approve, Begins, DataOK, fileVars, allowVars, attemptVars
    <2>4. /\ HeldAfter(lock, lock', p, c.at, "writing")
          /\ HeldAfter(allowLock, allowLock', p, c.at, "allowwrite")
          /\ HeldAfter(attemptsLock, attemptsLock', p, c.at, "recordwrite")
        BY <1>2, <2>2, NotHeld DEF Approve, Begins, HeldAfter, fileVars, allowVars, attemptVars
    <2> HIDE DEF c
    <2> QED
        BY <2>1, <2>2, <2>3, <2>4, TypesAfter
  <1> QED
      BY <1>1, <1>2

(* A caller that takes the lock of the requests for a content of requests. *)
LEMMA TypesHold ==
    ASSUME Types, NEW p \in Callers, NEW id \in Senders \cup {None}, NEW keep \in SUBSET Request,
           At(p, "upsert") \/ At(p, "approve"), lock = None, Hold(p, id, keep),
           DataOK', IsFiniteSet(failures)', UNCHANGED <<allowLock, attemptsLock>>
    PROVE  Types'
  <1> USE DEF At
  <1> DEFINE c == Doing("writing", id, None, keep)
  <1>1. Goto(p, c) /\ lock' = p
      BY DEF Hold
  <1>2. keep \in Keeps
      BY DEF Keeps
  <1>3. c \in CallRec /\ CallOK(c) /\ c.at = "writing"
      BY <1>2 DEF CallRec, CallOK, Doing, Stages
  <1>4. /\ HeldAfter(lock, lock', p, c.at, "writing")
        /\ HeldAfter(allowLock, allowLock', p, c.at, "allowwrite")
        /\ HeldAfter(attemptsLock, attemptsLock', p, c.at, "recordwrite")
      BY <1>1, <1>3, NotHeld DEF HeldAfter
  <1> HIDE DEF c
  <1> QED
      BY <1>1, <1>3, <1>4, TypesAfter

(* A request made now is a request. *)
LEMMA NewIsRequest ==
    ASSUME Types, NEW s \in Senders, NEW code \in Codes
    PROVE  [id |-> s, code |-> code, created |-> now] \in Request
  <1>1. now \in Nat
      BY Bounds DEF Types, TypeOK
  <1> QED
      BY <1>1 DEF Request

(* What is read of a file is part of it, and what is live of that too. *)
LEMMA ReadsPart ==
    ASSUME NEW S, NEW read \in Reads(S)
    PROVE  read \subseteq S /\ Live(read) \subseteq read /\ Live(read) \subseteq S
  BY DEF Reads, Live

(* upsert_request under the lock. *)
LEMMA TypesUpsert ==
    ASSUME Types, NEW p \in Callers, Upsert(p)
    PROVE  Types'
  <1> USE DEF At
  <1>a. PICK read \in Reads(file) : UpsertInto(p, call[p].id, read)
      BY DEF Upsert
  <1> DEFINE s == call[p].id
             live == Live(read)
  <1>0. /\ DataOK /\ IsFiniteSet(failures) /\ s \in Senders
        /\ live \in SUBSET Request /\ read \in SUBSET Request
      BY ReadsPart DEF Types, TypeOK, DataOK, CallOK, Upsert
  <1>1. /\ call[p].at = "upsert" /\ lock = None
        /\ UpsertInto(p, s, read)
        /\ UNCHANGED <<exists, allowVars, attemptVars, tried, now, calls>>
      BY <1>a DEF Upsert
  <1>2. UNCHANGED <<allowLock, attemptsLock, failures, allow, attempts, approved, recent>>
      BY <1>1 DEF allowVars, attemptVars
  <1>3. CASE /\ Hold(p, None, live)
             /\ UNCHANGED <<pending, shown, overtaken, lost, broken>>
    <2> HIDE DEF s, live
    <2>1. DataOK' /\ IsFiniteSet(failures)'
        BY <1>0, <1>1, <1>2, <1>3 DEF DataOK, Hold
    <2> QED
        BY <2>1, <1>0, <1>1, <1>2, <1>3, TypesHold
  <1>4. CASE /\ Goto(p, Idle)
             /\ UNCHANGED <<lock, file, pending, shown, overtaken, lost, broken>>
    <2> HIDE DEF s, live
    <2>1. DataOK' /\ IsFiniteSet(failures)'
        BY <1>0, <1>1, <1>2, <1>4 DEF DataOK
    <2>2. /\ HeldAfter(lock, lock', p, Idle.at, "writing")
          /\ HeldAfter(allowLock, allowLock', p, Idle.at, "allowwrite")
          /\ HeldAfter(attemptsLock, attemptsLock', p, Idle.at, "recordwrite")
        BY <1>1, <1>2, <1>4, IdleIsCall, NotHeld DEF HeldAfter
    <2> QED
        BY <2>1, <2>2, <1>4, IdleIsCall, TypesAfter
  <1>5. ASSUME NEW new \in Request, NEW code \in Codes,
               Hold(p, None, live \cup {new}),
               pending' = pending \cup {new},
               shown' = shown \cup {<<s, code>>},
               overtaken' = (overtaken \/ Rewriting),
               lost' = (lost \cup (file \ read)) \ {new},
               Misread("pending", file, read)
        PROVE  Types'
    <2>2. <<s, code>> \in Senders \X Codes
        BY <1>0
    <2> HIDE DEF s, live
    <2>3. DataOK' /\ IsFiniteSet(failures)'
        BY <1>0, <1>1, <1>2, <1>5, <2>2 DEF DataOK, Hold, Rewriting, Misread, Files
    <2>4. live \cup {new} \in SUBSET Request
        BY <1>0
    <2> QED
        BY <2>3, <2>4, <1>0, <1>1, <1>2, <1>5, TypesHold
  <1>6. \A code \in Codes : [id |-> s, code |-> code, created |-> now] \in Request
      BY <1>0, NewIsRequest
  <1> HIDE DEF s
  <1> QED
      BY <1>1, <1>3, <1>4, <1>5, <1>6 DEF UpsertInto

(* A failure has a number of its own, and one more failure leaves finitely
   many. *)
LEMMA NewIsFailure ==
    ASSUME Types
    PROVE  NewFailure \in Failure /\ IsFiniteSet(failures \cup {NewFailure})
  <1>1. now \in Nat /\ IsFiniteSet(failures)
      BY Bounds DEF Types, TypeOK
  <1> QED
      BY <1>1, FS_CardinalityType, FS_AddElement DEF NewFailure, Failure

(* approve under the lock. *)
LEMMA TypesApprove ==
    ASSUME Types, NEW p \in Callers, ApproveLock(p)
    PROVE  Types'
  <1> USE DEF At
  <1>a. PICK read \in Reads(file) : TakeOut(p, Live(read), {r \in Live(read) : r.code = call[p].code})
      BY DEF ApproveLock
  <1> DEFINE live == Live(read)
             matches == {r \in live : r.code = call[p].code}
  <1>0. DataOK /\ IsFiniteSet(failures) /\ live \in SUBSET Request /\ matches \subseteq live
      BY ReadsPart DEF Types, TypeOK, DataOK
  <1>1. /\ call[p].at = "approve" /\ lock = None
        /\ TakeOut(p, live, matches)
        /\ UNCHANGED <<exists, allowVars, attempts, attemptsLock, shown, tried, now, calls, lost, broken>>
      BY <1>a DEF ApproveLock
  <1> HIDE DEF live, matches
  <1>2. UNCHANGED <<allowLock, attemptsLock, allow, attempts, approved, recent>>
      BY <1>1 DEF allowVars
  <1>3. ASSUME NEW r \in matches, Hold(p, r.id, live \ {r}),
               pending' = pending \ {r}, overtaken' = (overtaken \/ Rewriting), failures' = failures
        PROVE  Types'
    <2>1. DataOK' /\ IsFiniteSet(failures)'
        BY <1>0, <1>1, <1>2, <1>3 DEF DataOK, Hold, Rewriting
    <2>2. r \in Request /\ r.id \in Senders \cup {None} /\ live \ {r} \in SUBSET Request
        BY <1>0, <1>3 DEF Request
    <2> QED
        BY <2>1, <2>2, <1>1, <1>2, <1>3, TypesHold
  <1>4. CASE /\ failures' = failures \cup {NewFailure}
             /\ Goto(p, Doing("record", None, None, {NewFailure}))
             /\ UNCHANGED <<lock, file, pending, overtaken>>
    <2> DEFINE K == {NewFailure}
               c == Doing("record", None, None, K)
    <2>0. K \in SUBSET Failure
        BY NewIsFailure
    <2>1. c \in CallRec /\ CallOK(c) /\ c.at = "record"
      <3>1. K \in Keeps
          BY <2>0, IsKeep
      <3> HIDE DEF K
      <3> QED
          BY <2>0, <3>1 DEF CallRec, CallOK, Doing, Stages
    <2>2. DataOK' /\ IsFiniteSet(failures)'
        BY <1>0, <1>1, <1>2, <1>4, NewIsFailure DEF DataOK
    <2>3. /\ HeldAfter(lock, lock', p, c.at, "writing")
          /\ HeldAfter(allowLock, allowLock', p, c.at, "allowwrite")
          /\ HeldAfter(attemptsLock, attemptsLock', p, c.at, "recordwrite")
        BY <1>1, <1>2, <1>4, <2>1, NotHeld DEF HeldAfter
    <2>4. Goto(p, c)
        BY <1>4
    <2> HIDE DEF c
    <2> QED
        BY <2>1, <2>2, <2>3, <2>4, TypesAfter
  <1> QED
      BY <1>1, <1>3, <1>4 DEF TakeOut

(* The failed attempt a caller is about to record, as it will be recorded. *)
LEMMA RecordedIsFailure ==
    ASSUME Types, NEW f \in Failure
    PROVE  [f EXCEPT !.at = now] \in Failure /\ [f EXCEPT !.at = now].no = f.no
  <1>1. now \in Nat
      BY Bounds DEF Types, TypeOK
  <1> QED
      BY <1>1 DEF Failure

(* record_failed_approve under its lock. *)
LEMMA TypesRecord ==
    ASSUME Types, NEW p \in Callers, RecordLock(p)
    PROVE  Types'
  <1> USE DEF At
  <1>0. DataOK /\ IsFiniteSet(failures)
      BY DEF Types, TypeOK, DataOK
  <1>a. PICK f \in call[p].keep, read \in Reads(attempts) : RecordInto(p, f, read)
      BY DEF RecordLock
  <1>1. f \in Failure /\ read \in SUBSET Failure
      BY <1>0 DEF RecordLock, Types, CallOK, Reads, DataOK
  <1> DEFINE new == [f EXCEPT !.at = now]
             keep == InWindow(read \cup {new})
             c == Doing("recordwrite", None, None, keep)
  <1>2. /\ Goto(p, c) /\ attemptsLock' = p /\ attempts' = {}
        /\ failures' = (failures \ {f}) \cup {new}
        /\ lost' = lost \cup (attempts \ read)
        /\ Misread("attempts", attempts, read)
      BY <1>a DEF RecordInto
  <1>b. new \in Failure
      BY <1>1, RecordedIsFailure
  <1> HIDE DEF new
  <1>3. keep \in SUBSET Failure /\ keep \in Keeps
    <2>1. keep \in SUBSET Failure
        BY <1>1, <1>b DEF InWindow
    <2> HIDE DEF keep
    <2> QED
        BY <2>1, IsKeep
  <1> HIDE DEF keep
  <1>4. c \in CallRec /\ CallOK(c) /\ c.at = "recordwrite"
      BY <1>3 DEF CallRec, CallOK, Doing, Stages
  <1>5. DataOK' /\ IsFiniteSet(failures)'
    <2>1. IsFiniteSet(failures \ {f})
        BY <1>0, FS_Subset
    <2>2. IsFiniteSet(failures')
        BY <1>2, <2>1, FS_AddElement
    <2>3. DataOK'
        BY <1>0, <1>2, <1>b DEF DataOK, RecordLock, Misread, Files, fileVars, allowVars, askVars
    <2> QED
        BY <2>2, <2>3
  <1>6. /\ HeldAfter(lock, lock', p, c.at, "writing")
        /\ HeldAfter(allowLock, allowLock', p, c.at, "allowwrite")
        /\ HeldAfter(attemptsLock, attemptsLock', p, c.at, "recordwrite")
      BY <1>2, <1>4, NotHeld DEF HeldAfter, RecordLock, fileVars, allowVars
  <1> HIDE DEF c
  <1> QED
      BY <1>2, <1>4, <1>5, <1>6, TypesAfter

(* Every step keeps the types. *)
LEMMA TypesNext ==
    ASSUME Types, [Next]_vars
    PROVE  Types'
  <1>1. CASE Tick
    <2>1. now' \in 0..MaxTime
        BY <1>1, Bounds DEF Tick, Types, TypeOK
    <2> QED
        BY <1>1, <2>1 DEF Tick, Types, TypeOK, At, fileVars, allowVars, attemptVars, askVars
  <1>2. ASSUME NEW p \in Callers, Proceed(p) \/ ListPending(p) \/ Fail(p) PROVE Types'
      BY <1>2, TypesProceed, TypesUpsert, TypesApprove, TypesRecord DEF Proceed
  <1>3. ASSUME NEW p \in Callers, NEW s \in Senders, Message(p, s) PROVE Types'
      BY <1>3, TypesBegin
  <1>4. ASSUME NEW p \in Callers, NEW c \in Codes, Approve(p, c) PROVE Types'
      BY <1>4, TypesBegin
  <1>5. CASE UNCHANGED vars
      BY <1>5 DEF vars, Types, TypeOK, At, fileVars, allowVars, attemptVars, askVars
  <1> QED
      BY <1>1, <1>2, <1>3, <1>4, <1>5 DEF Next

-----------------------------------------------------------------------------
(* The file of requests and what is going to be written to it are well
   formed, and every request there was shown to its sender. *)

Content(requests, given) ==
    /\ IsFiniteSet(requests) /\ WellFormed(requests)
    /\ \A r \in requests : <<r.id, r.code>> \in given

Carries(c) == c.at \in {"rewrite", "relock", "writing"}

Contents ==
    /\ Content(file, shown)
    /\ \A p \in Callers : Carries(call[p]) => Content(call[p].keep, shown)

(* Nothing is a content, and so is a part of one. *)
LEMMA ContentEmpty == ASSUME NEW given PROVE Content({}, given)
  BY FS_EmptySet, Bounds DEF Content, WellFormed

(* A part of a content is one. *)
LEMMA ContentPart ==
    ASSUME NEW given, NEW S, Content(S, given), NEW T \in SUBSET S
    PROVE  Content(T, given)
  <1>1. IsFiniteSet(T) /\ Cardinality(T) <= Cardinality(S)
      BY FS_Subset DEF Content
  <1>2. Cardinality(T) \in Nat /\ Cardinality(S) \in Nat
      BY <1>1, FS_CardinalityType DEF Content
  <1> QED
      BY <1>1, <1>2, Bounds DEF Content, WellFormed

(* One more request, of a sender and with a code that are not there, in a file
   with room. *)
LEMMA ContentMore ==
    ASSUME NEW given, NEW S, Content(S, given), HasRoom(S),
           NEW s, NEW code, NEW created,
           \A r \in S : r.id # s, \A r \in S : r.code # code
    PROVE  Content(S \cup {[id |-> s, code |-> code, created |-> created]}, given \cup {<<s, code>>})
  <1> DEFINE new == [id |-> s, code |-> code, created |-> created]
  <1>0. new.id = s /\ new.code = code
      OBVIOUS
  <1> HIDE DEF new
  <1>1. new \notin S
      BY <1>0
  <1>2. IsFiniteSet(S) /\ Cardinality(S) \in Nat
      BY FS_CardinalityType DEF Content
  <1>3. IsFiniteSet(S \cup {new}) /\ Cardinality(S \cup {new}) = Cardinality(S) + 1
      BY <1>1, <1>2, FS_AddElement
  <1>4. Cardinality(S \cup {new}) <= PendingMax
      BY <1>2, <1>3, Bounds DEF HasRoom
  <1>5. \A r, q \in S \cup {new} : r # q => r.id # q.id /\ r.code # q.code
      BY <1>0 DEF Content, WellFormed
  <1>6. \A r \in S \cup {new} : <<r.id, r.code>> \in given \cup {<<s, code>>}
      BY <1>0 DEF Content
  <1>7. IsFiniteSet(S \cup {new}) /\ WellFormed(S \cup {new})
      BY <1>3, <1>4, <1>5 DEF WellFormed
  <1>8. Content(S \cup {new}, given \cup {<<s, code>>})
      BY <1>6, <1>7 DEF Content
  <1> QED
      BY <1>8 DEF new

(* Showing a code takes none away. *)
LEMMA ContentStays ==
    ASSUME NEW given, NEW more, NEW S, Content(S, given), given \subseteq more
    PROVE  Content(S, more)
  BY DEF Content

(* A step of one caller that leaves a content in the file and carries one. *)
LEMMA ContentsAfter ==
    ASSUME Types, Contents, NEW p \in Callers, NEW c, Goto(p, c),
           shown \subseteq shown', Content(file', shown'), Carries(c) => Content(c.keep, shown')
    PROVE  Contents'
  <1>1. call'[p] = c /\ \A q \in Callers : q # p => call'[q] = call[q]
      BY DEF Types, Goto
  <1>2. ASSUME NEW q \in Callers, Carries(call'[q]) PROVE Content(call'[q].keep, shown')
    <2>1. CASE q = p
        BY <2>1, <1>1, <1>2
    <2>2. CASE q # p
      <3>1. Content(call[q].keep, shown)
          BY <2>2, <1>1, <1>2 DEF Contents
      <3> QED
          BY <3>1, <2>2, <1>1, ContentStays
    <2> QED
        BY <2>1, <2>2
  <1> QED
      BY <1>2 DEF Contents

(* The steps of a caller that do not touch the file of requests or carry a
   content of it. *)
Elsewhere(p) ==
    \/ ApproveNoFile(p) \/ AllowOpen(p) \/ AllowKnown(p) \/ AllowAdd(p) \/ AllowWrite(p)
    \/ RecordLock(p) \/ RecordWrite(p)
    \/ \E s \in Senders : Message(p, s)
    \/ \E code \in Codes : Approve(p, code)

(* What they change of it. *)
LEMMA ElsewhereStep ==
    ASSUME Types, NEW p \in Callers, Elsewhere(p)
    PROVE  /\ UNCHANGED <<file, shown, pending, overtaken, now>>
           /\ \E c : Goto(p, c) /\ ~Carries(c)
  <1> USE DEF Carries, Doing, Idle, fileVars, askVars
  <1>1. CASE ApproveNoFile(p) \/ AllowKnown(p) \/ AllowWrite(p) \/ RecordWrite(p)
      BY <1>1 DEF ApproveNoFile, AllowKnown, AllowWrite, RecordWrite
  <1>2. CASE AllowOpen(p)
    <2>1. [call[p] EXCEPT !.at = "allowlock"].at = "allowlock"
        BY DEF Types, CallRec
    <2> QED
        BY <1>2, <2>1 DEF AllowOpen
  <1>3. CASE AllowAdd(p)
    <2>1. PICK keep : Goto(p, Doing("allowwrite", call[p].id, None, keep))
        BY <1>3 DEF AllowAdd
    <2> QED
        BY <1>3, <2>1 DEF AllowAdd
  <1>6. CASE RecordLock(p)
    <2>1. PICK keep : Goto(p, Doing("recordwrite", None, None, keep))
        BY <1>6 DEF RecordLock, RecordInto
    <2> QED
        BY <1>6, <2>1 DEF RecordLock
  <1>4. CASE \E s \in Senders : Message(p, s)
      BY <1>4 DEF Message
  <1>5. CASE \E code \in Codes : Approve(p, code)
      BY <1>5 DEF Approve
  <1> QED
      BY <1>1, <1>2, <1>3, <1>4, <1>5, <1>6 DEF Elsewhere

(* The steps of Next, with those elsewhere taken together. *)
LEMMA Steps ==
    ASSUME [Next]_vars
    PROVE  \/ Tick \/ UNCHANGED vars
           \/ \E p \in Callers : \/ Elsewhere(p) \/ Fail(p) \/ Write(p) \/ ListPending(p) \/ ListOpen(p)
                                 \/ ListLock(p) \/ Upsert(p) \/ ApproveLock(p)
  BY DEF Next, Proceed, Elsewhere

(* What is live of some requests. *)
LEMMA LiveIsPart == ASSUME NEW S PROVE Live(S) \in SUBSET S
  BY DEF Live

(* The contents stay so. *)
LEMMA ContentsNext ==
    ASSUME Types, Contents, [Next]_vars
    PROVE  Contents'
  <1>0. Content(file, shown) /\ Content(Live(file), shown)
      BY LiveIsPart, ContentPart DEF Contents
  <1>1. CASE Tick \/ UNCHANGED vars
      BY <1>1 DEF Tick, vars, Contents, fileVars, askVars
  <1>2. ASSUME NEW p \in Callers, Elsewhere(p) PROVE Contents'
      BY <1>2, <1>0, ElsewhereStep, ContentsAfter
  <1>10. ASSUME NEW p \in Callers, Fail(p) PROVE Contents'
      BY <1>10, <1>0, ContentsAfter DEF Fail, askVars, Carries, Idle, Doing
  <1>3. ASSUME NEW p \in Callers, Write(p) PROVE Contents'
    <2>1. Content(call[p].keep, shown)
        BY <1>3 DEF Write, Contents, Carries, At
    <2>2. Content(file', shown') /\ shown' = shown
        BY <1>3, <2>1 DEF Write, askVars
    <2>3. PICK c : Goto(p, c) /\ c \in {Idle, Doing("allow", call[p].id, None, {})}
        BY <1>3 DEF Write
    <2>4. ~Carries(c)
        BY <2>3 DEF Carries, Idle, Doing
    <2> QED
        BY <2>2, <2>3, <2>4, ContentsAfter
  <1>4. ASSUME NEW p \in Callers, ListPending(p) PROVE Contents'
    <2> DEFINE c == Doing("rewrite", None, None, Live(file))
    <2>1. Goto(p, c) /\ file' = file /\ shown' = shown
        BY <1>4 DEF ListPending, fileVars, askVars
    <2>2. c.keep = Live(file)
        BY DEF Doing
    <2> HIDE DEF c
    <2> QED
        BY <2>1, <2>2, <1>0, ContentsAfter
  <1>5. ASSUME NEW p \in Callers, ListOpen(p) PROVE Contents'
    <2> DEFINE c == [call[p] EXCEPT !.at = "relock"]
    <2>1. Goto(p, c) /\ file' = {} /\ shown' = shown
        BY <1>5 DEF ListOpen, askVars
    <2>2. c.keep = call[p].keep
        BY DEF Types, CallRec
    <2>3. Content(call[p].keep, shown)
        BY <1>5 DEF ListOpen, Contents, Carries, At
    <2> HIDE DEF c
    <2> QED
        BY <2>1, <2>2, <2>3, ContentEmpty, ContentsAfter
  <1>6. ASSUME NEW p \in Callers, ListLock(p) PROVE Contents'
    <2> DEFINE c == Doing("writing", None, None, call[p].keep)
    <2>1. Goto(p, c) /\ file' = {} /\ shown' = shown
        BY <1>6 DEF ListLock, Hold, askVars
    <2>2. c.keep = call[p].keep
        BY DEF Doing
    <2>3. Content(call[p].keep, shown)
        BY <1>6 DEF ListLock, Contents, Carries, At
    <2> HIDE DEF c
    <2> QED
        BY <2>1, <2>2, <2>3, ContentEmpty, ContentsAfter
  <1>7. ASSUME NEW p \in Callers, NEW id, NEW keep, Hold(p, id, keep),
               shown \subseteq shown', Content(keep, shown')
        PROVE  Contents'
    <2> DEFINE c == Doing("writing", id, None, keep)
    <2>1. Goto(p, c) /\ file' = {}
        BY <1>7 DEF Hold
    <2>2. c.keep = keep
        BY DEF Doing
    <2> HIDE DEF c
    <2> QED
        BY <2>1, <2>2, <1>7, ContentEmpty, ContentsAfter
  <1>8. ASSUME NEW p \in Callers, Upsert(p) PROVE Contents'
    <2>0. PICK read \in Reads(file) : UpsertInto(p, call[p].id, read)
        BY <1>8 DEF Upsert
    <2> DEFINE s == call[p].id
               live == Live(read)
    <2>1. UpsertInto(p, s, read)
        BY <2>0
    <2>2. Content(live, shown)
        BY <1>0, ReadsPart, ContentPart
    <2>3. CASE Hold(p, None, live) /\ shown' = shown
      <3> HIDE DEF live
      <3> QED
          BY <2>2, <2>3, <1>7
    <2>4. CASE Goto(p, Idle) /\ file' = file /\ shown' = shown
        BY <2>4, <1>0, ContentsAfter DEF Carries, Idle, Doing
    <2>5. ASSUME NEW code \in Codes, HasRoom(live),
                 \A r \in live : r.id # s, \A r \in live : r.code # code,
                 Hold(p, None, live \cup {[id |-> s, code |-> code, created |-> now]}),
                 shown' = shown \cup {<<s, code>>}
          PROVE  Contents'
      <3> HIDE DEF live, s
      <3> QED
          BY <2>2, <2>5, <1>7, ContentMore
    <2> HIDE DEF s
    <2> QED
        BY <2>1, <2>3, <2>4, <2>5 DEF UpsertInto
  <1>9. ASSUME NEW p \in Callers, ApproveLock(p) PROVE Contents'
    <2>0. PICK read \in Reads(file) :
               /\ TakeOut(p, Live(read), {r \in Live(read) : r.code = call[p].code})
               /\ shown' = shown
        BY <1>9 DEF ApproveLock
    <2> DEFINE matches == {r \in Live(read) : r.code = call[p].code}
    <2>1. TakeOut(p, Live(read), matches) /\ shown' = shown
        BY <2>0
    <2> HIDE DEF matches
    <2> DEFINE live == Live(read)
    <2>2. Content(live, shown)
        BY <1>0, ReadsPart, ContentPart
    <2>3. ASSUME NEW r \in matches, Hold(p, r.id, live \ {r}) PROVE Contents'
      <3> HIDE DEF live
      <3>1. Content(live \ {r}, shown)
          BY <2>2, ContentPart
      <3> QED
          BY <3>1, <2>1, <2>3, <1>7
    <2>4. CASE Goto(p, Doing("record", None, None, {NewFailure})) /\ file' = file
        BY <2>4, <2>1, <1>0, ContentsAfter DEF Carries, Doing
    <2> QED
        BY <2>1, <2>3, <2>4 DEF TakeOut
  <1> QED
      BY <1>1, <1>2, <1>3, <1>4, <1>5, <1>6, <1>8, <1>9, <1>10, Steps

-----------------------------------------------------------------------------
(* Whoever is let in, or on the way, was shown a code that was approved. *)

Admitted(s, codes, given) == \E c \in codes : <<s, c>> \in given

CallAdmits(c, codes, given) ==
    /\ c.at = "approve" => c.code \in codes
    /\ c.at \in {"allow", "allowlock", "allowwrite"} => Admitted(c.id, codes, given)
    /\ c.at = "writing" /\ c.id # None => Admitted(c.id, codes, given)
    /\ c.at = "allowwrite" => \A s \in c.keep : Admitted(s, codes, given)

Admits ==
    /\ \A s \in allow : Admitted(s, tried, shown)
    /\ \A p \in Callers : CallAdmits(call[p], tried, shown)

(* More codes tried or shown take nobody back. *)
LEMMA AdmitsMore ==
    ASSUME NEW codes, NEW given, NEW codes2, NEW given2, codes \subseteq codes2, given \subseteq given2
    PROVE  /\ \A s : Admitted(s, codes, given) => Admitted(s, codes2, given2)
           /\ \A c : CallAdmits(c, codes, given) => CallAdmits(c, codes2, given2)
  <1>1. \A s : Admitted(s, codes, given) => Admitted(s, codes2, given2)
      BY DEF Admitted
  <1> QED
      BY <1>1 DEF CallAdmits

(* A step of one caller. *)
LEMMA AdmitsAfter ==
    ASSUME Types, Admits, NEW p \in Callers, NEW c, Goto(p, c),
           tried \subseteq tried', shown \subseteq shown',
           \A s \in allow' : s \in allow \/ Admitted(s, tried', shown'),
           CallAdmits(c, tried', shown')
    PROVE  Admits'
  <1>1. call'[p] = c /\ \A q \in Callers : q # p => call'[q] = call[q]
      BY DEF Types, Goto
  <1>2. \A q \in Callers : CallAdmits(call'[q], tried', shown')
      BY <1>1, AdmitsMore DEF Admits
  <1>3. \A s \in allow' : Admitted(s, tried', shown')
      BY AdmitsMore DEF Admits
  <1> QED
      BY <1>2, <1>3 DEF Admits

(* Nobody else gets in. *)
LEMMA AdmitsNext ==
    ASSUME Types, Contents, Admits, [Next]_vars
    PROVE  Admits'
  <1> USE DEF At
  <1>0. \A p \in Callers : call[p] \in CallRec /\ CallAdmits(call[p], tried, shown)
      BY DEF Types, Admits
  <1>1. CASE Tick \/ UNCHANGED vars
      BY <1>1 DEF Tick, vars, Admits, allowVars, askVars
  <1>2. ASSUME NEW p \in Callers, NEW c, Goto(p, c),
               c.at \in {"idle", "rewrite", "relock", "upsert", "record", "recordwrite"},
               UNCHANGED <<tried, shown>>, allow' \subseteq allow
        PROVE  Admits'
      BY <1>2, AdmitsAfter DEF CallAdmits
  <1>3. ASSUME NEW p \in Callers,
               \/ ListPending(p) \/ ListOpen(p) \/ ApproveNoFile(p) \/ AllowKnown(p)
               \/ RecordLock(p) \/ RecordWrite(p) \/ Fail(p) \/ \E s \in Senders : Message(p, s)
        PROVE  Admits'
    <2> USE DEF Idle, Doing, allowVars, askVars
    <2>1. CASE ListPending(p) \/ \E s \in Senders : Message(p, s)
        BY <2>1, <1>2 DEF ListPending, Message
    <2>4. CASE RecordLock(p)
      <3>1. PICK keep : Goto(p, Doing("recordwrite", None, None, keep))
          BY <2>4 DEF RecordLock, RecordInto
      <3> QED
          BY <2>4, <3>1, <1>2 DEF RecordLock
    <2>2. CASE ListOpen(p)
      <3>1. [call[p] EXCEPT !.at = "relock"].at = "relock"
          BY <1>0 DEF CallRec
      <3> QED
          BY <2>2, <3>1, <1>2 DEF ListOpen
    <2>3. CASE ApproveNoFile(p) \/ AllowKnown(p) \/ RecordWrite(p) \/ Fail(p)
        BY <2>3, <1>2 DEF ApproveNoFile, AllowKnown, RecordWrite, Fail
    <2> QED
        BY <1>3, <2>1, <2>2, <2>3, <2>4
  <1>4. ASSUME NEW p \in Callers, NEW id, NEW keep, Hold(p, id, keep),
               id # None => Admitted(id, tried, shown),
               tried' = tried, shown \subseteq shown', allow' = allow
        PROVE  Admits'
    <2> DEFINE c == Doing("writing", id, None, keep)
    <2>1. Goto(p, c)
        BY <1>4 DEF Hold
    <2>2. CallAdmits(c, tried', shown')
        BY <1>4, AdmitsMore DEF CallAdmits, Doing
    <2> HIDE DEF c
    <2> QED
        BY <2>1, <2>2, <1>4, AdmitsAfter
  <1>5. ASSUME NEW p \in Callers, Write(p) PROVE Admits'
    <2>1. CASE call[p].id = None
        BY <1>5, <2>1, <1>2 DEF Write, Idle, Doing, allowVars, askVars
    <2>2. CASE call[p].id # None
      <3> DEFINE c == Doing("allow", call[p].id, None, {})
      <3>1. Goto(p, c) /\ UNCHANGED <<tried, shown, allow>>
          BY <1>5, <2>2 DEF Write, allowVars, askVars
      <3>2. CallAdmits(c, tried, shown)
          BY <1>0, <1>5, <2>2 DEF Write, CallAdmits, Doing
      <3> HIDE DEF c
      <3> QED
          BY <3>1, <3>2, AdmitsAfter
    <2> QED
        BY <2>1, <2>2
  <1>6. ASSUME NEW p \in Callers, ListLock(p) PROVE Admits'
      BY <1>4, <1>6 DEF ListLock, allowVars, askVars
  <1>7. ASSUME NEW p \in Callers, Upsert(p) PROVE Admits'
    <2>1. (\E read : UpsertInto(p, call[p].id, read)) /\ UNCHANGED <<tried, allow>>
        BY <1>7 DEF Upsert, allowVars
    <2>2. CASE \E keep : Hold(p, None, keep) /\ shown \subseteq shown'
        BY <2>1, <2>2, <1>4
    <2>3. CASE Goto(p, Idle) /\ shown' = shown
        BY <2>1, <2>3, <1>2 DEF Idle, Doing
    <2> QED
        BY <2>1, <2>2, <2>3 DEF UpsertInto
  <1>8. ASSUME NEW p \in Callers, NEW code \in Codes, Approve(p, code) PROVE Admits'
    <2> DEFINE c == Doing("approve", None, code, {})
    <2>1. Goto(p, c) /\ tried' = tried \cup {code} /\ UNCHANGED <<shown, allow>>
        BY <1>8 DEF Approve, allowVars
    <2>2. CallAdmits(c, tried', shown')
        BY <2>1 DEF CallAdmits, Doing
    <2> HIDE DEF c
    <2> QED
        BY <2>1, <2>2, AdmitsAfter
  <1>9. ASSUME NEW p \in Callers, ApproveLock(p) PROVE Admits'
    <2>0. PICK read \in Reads(file) : TakeOut(p, Live(read), {r \in Live(read) : r.code = call[p].code})
        BY <1>9 DEF ApproveLock
    <2> DEFINE live == Live(read)
               matches == {r \in live : r.code = call[p].code}
    <2>1. TakeOut(p, live, matches) /\ UNCHANGED <<tried, shown, allow>>
        BY <1>9, <2>0 DEF ApproveLock, allowVars
    <2>2. \A r \in matches : r \in file /\ r.code = call[p].code
        BY ReadsPart
    <2>3. call[p].code \in tried
        BY <1>0, <1>9 DEF ApproveLock, CallAdmits
    <2> HIDE DEF live, matches
    <2>4. \A r \in matches : Admitted(r.id, tried, shown)
        BY <2>2, <2>3 DEF Admitted, Contents, Content
    <2>5. ASSUME NEW r \in matches, Hold(p, r.id, live \ {r}) PROVE Admits'
        BY <2>1, <2>4, <2>5, <1>4
    <2>6. CASE Goto(p, Doing("record", None, None, {NewFailure}))
        BY <2>1, <2>6, <1>2 DEF Doing
    <2> QED
        BY <2>1, <2>5, <2>6 DEF TakeOut
  <1>10. ASSUME NEW p \in Callers, AllowOpen(p) PROVE Admits'
    <2> DEFINE c == [call[p] EXCEPT !.at = "allowlock"]
    <2>1. Goto(p, c) /\ UNCHANGED <<tried, shown>> /\ allow' = {}
        BY <1>10 DEF AllowOpen, askVars
    <2>2. c.at = "allowlock" /\ c.id = call[p].id
        BY <1>0 DEF CallRec
    <2>3. Admitted(call[p].id, tried, shown)
        BY <1>0, <1>10 DEF AllowOpen, CallAdmits
    <2> HIDE DEF c
    <2>4. CallAdmits(c, tried, shown)
        BY <2>2, <2>3 DEF CallAdmits
    <2> QED
        BY <2>1, <2>4, AdmitsAfter
  <1>11. ASSUME NEW p \in Callers, AllowAdd(p) PROVE Admits'
    <2>0. PICK read \in Reads(allow) : Goto(p, Doing("allowwrite", call[p].id, None, read \cup {call[p].id}))
        BY <1>11 DEF AllowAdd
    <2> DEFINE c == Doing("allowwrite", call[p].id, None, read \cup {call[p].id})
    <2>1. Goto(p, c) /\ UNCHANGED <<tried, shown>> /\ allow' = {}
        BY <1>11, <2>0 DEF AllowAdd, askVars
    <2>2. /\ c.at = "allowwrite" /\ c.id = call[p].id /\ c.keep = read \cup {call[p].id}
          /\ read \subseteq allow
        BY DEF Doing, Reads
    <2>3. Admitted(call[p].id, tried, shown)
        BY <1>0, <1>11 DEF AllowAdd, CallAdmits
    <2> HIDE DEF c
    <2>4. CallAdmits(c, tried, shown)
        BY <2>2, <2>3 DEF CallAdmits, Admits
    <2> QED
        BY <2>1, <2>4, AdmitsAfter
  <1>12. ASSUME NEW p \in Callers, AllowWrite(p) PROVE Admits'
    <2>1. Goto(p, Idle) /\ UNCHANGED <<tried, shown>> /\ allow' = call[p].keep
        BY <1>12 DEF AllowWrite, askVars
    <2>2. \A s \in call[p].keep : Admitted(s, tried, shown)
        BY <1>0, <1>12 DEF AllowWrite, CallAdmits
    <2>3. CallAdmits(Idle, tried, shown)
        BY DEF CallAdmits, Idle, Doing
    <2> QED
        BY <2>1, <2>2, <2>3, AdmitsAfter
  <1> QED
      BY <1>1, <1>3, <1>5, <1>6, <1>7, <1>8, <1>9, <1>10, <1>11, <1>12 DEF Next, Proceed

-----------------------------------------------------------------------------
(* Calls do not undo each other: as long as no list is written back over a
   change, every content that waits to be written is what is pending and not
   lost, and so is the file, unless someone has cut it and not written it yet. *)

LiveAt(requests, t) == {r \in requests : ~(t > r.created + Ttl)}
Agrees(S, T, t) == LiveAt(S, t) = LiveAt(T, t)
Cutting(c) == c.at \in {"relock", "writing"}

Exact ==
    ~overtaken =>
        /\ \A p \in Callers : Carries(call[p]) => Agrees(call[p].keep, pending \ lost, now)
        /\ \/ Agrees(file, pending \ lost, now)
           \/ file = {} /\ \E p \in Callers : Cutting(call[p])

(* Contents that agree go on to when time passes, and what is live of one
   agrees with it. *)
LEMMA AgreeLater ==
    ASSUME NEW t \in Nat, NEW S \in SUBSET Request, NEW T \in SUBSET Request, Agrees(S, T, t)
    PROVE  Agrees(S, T, t + 1)
  <1>1. \A r \in Request : r.created \in Nat
      BY DEF Request
  <1>2. ASSUME NEW R \in SUBSET Request
        PROVE  LiveAt(R, t + 1) = {r \in LiveAt(R, t) : ~(t + 1 > r.created + Ttl)}
      BY <1>1, Bounds DEF LiveAt
  <1> QED
      BY <1>2 DEF Agrees

(* Live(S) and S agree; taking out a request keeps agreement. *)
LEMMA AgreeLive ==
    ASSUME NEW S, NEW T, Agrees(S, T, now)
    PROVE  /\ Agrees(Live(S), T, now)
           /\ \A r : Agrees(Live(S) \ {r}, T \ {r}, now)
  <1>1. \A r : r \in LiveAt(S, now) <=> r \in LiveAt(T, now)
      BY DEF Agrees
  <1>2. Live(S) = LiveAt(S, now)
      BY DEF Live, Expired, LiveAt
  <1> QED
      BY <1>1, <1>2 DEF Agrees, LiveAt

(* A request added to what was read of a file, when what was not read is lost. *)
LEMMA AgreeAdd ==
    ASSUME NEW F, NEW P, NEW L, Agrees(F, P \ L, now), NEW read \in Reads(F), NEW new
    PROVE  Agrees(Live(read) \cup {new}, (P \cup {new}) \ ((L \cup (F \ read)) \ {new}), now)
  <1>1. \A r : r \in LiveAt(F, now) <=> r \in LiveAt(P \ L, now)
      BY DEF Agrees
  <1>2. Live(read) = LiveAt(read, now)
      BY DEF Live, Expired, LiveAt
  <1>3. CASE read = F
      BY <1>1, <1>2, <1>3 DEF Agrees, LiveAt
  <1>4. CASE read = {}
      BY <1>1, <1>2, <1>4 DEF Agrees, LiveAt
  <1> QED
      BY <1>3, <1>4 DEF Reads

(* What is not in the file is lost. *)
LEMMA AgreeCut ==
    ASSUME NEW F, NEW P, NEW L, NEW t, F = {} \/ Agrees(F, P \ L, t)
    PROVE  Agrees(F, P \ (L \cup (P \ F)), t)
  <1>1. CASE F = {}
      BY <1>1 DEF Agrees, LiveAt
  <1>2. CASE Agrees(F, P \ L, t)
    <2>1. \A r : r \in LiveAt(F, t) <=> r \in LiveAt(P \ L, t)
        BY <1>2 DEF Agrees
    <2> QED
        BY <2>1 DEF Agrees, LiveAt
  <1> QED
      BY <1>1, <1>2

(* A step of one caller. *)
LEMMA ExactAfter ==
    ASSUME Types, NEW p \in Callers, NEW c, Goto(p, c), now' = now,
           ~overtaken' =>
             /\ \A q \in Callers : q # p /\ Carries(call[q]) => Agrees(call[q].keep, (pending \ lost)', now)
             /\ Carries(c) => Agrees(c.keep, (pending \ lost)', now)
             /\ \/ Agrees(file', (pending \ lost)', now)
                \/ file' = {} /\ (Cutting(c) \/ \E q \in Callers : q # p /\ Cutting(call[q]))
    PROVE  Exact'
  <1>1. call'[p] = c /\ \A q \in Callers : q # p => call'[q] = call[q]
      BY DEF Types, Goto
  <1> SUFFICES ASSUME ~overtaken'
               PROVE  /\ \A q \in Callers : Carries(call'[q]) => Agrees(call'[q].keep, (pending \ lost)', now')
                      /\ \/ Agrees(file', (pending \ lost)', now')
                         \/ file' = {} /\ \E q \in Callers : Cutting(call'[q])
      BY DEF Exact
  <1>2. ASSUME NEW q \in Callers, Carries(call'[q]) PROVE Agrees(call'[q].keep, (pending \ lost)', now')
      BY <1>1, <1>2
  <1>3. \/ Agrees(file', (pending \ lost)', now')
        \/ file' = {} /\ \E q \in Callers : Cutting(call'[q])
      BY <1>1
  <1> QED
      BY <1>2, <1>3

(* A request is no failed attempt. *)
LEMMA RequestIsNoFailure ==
    ASSUME NEW P \in SUBSET Request, NEW L, NEW F \in SUBSET Failure
    PROVE  P \ (L \cup F) = P \ L
  <1>1. \A r \in Request : r \notin Failure
      BY DEF Request, Failure
  <1> QED
      BY <1>1

(* The steps elsewhere lose no request. *)
LEMMA ElsewhereCuts ==
    ASSUME Types, NEW p \in Callers, Elsewhere(p)
    PROVE  /\ (pending \ lost)' = pending \ lost
           /\ overtaken' = overtaken /\ ~Cutting(call[p])
  <1> USE DEF Cutting, At
  <1>1. CASE RecordLock(p)
    <2>1. PICK read \in Reads(attempts) : lost' = lost \cup (attempts \ read)
        BY <1>1 DEF RecordLock, RecordInto
    <2>2. attempts \ read \in SUBSET Failure /\ pending \in SUBSET Request
        BY DEF Types, TypeOK
    <2>3. pending' = pending /\ overtaken' = overtaken /\ call[p].at = "record"
        BY <1>1 DEF RecordLock, askVars
    <2> QED
        BY <2>1, <2>2, <2>3, RequestIsNoFailure
  <1>2. CASE ~RecordLock(p)
    <2>1. UNCHANGED <<pending, lost, overtaken>> /\ ~Cutting(call[p])
        BY <1>2 DEF Elsewhere, ApproveNoFile, AllowOpen, AllowKnown, AllowAdd, AllowWrite,
                    RecordWrite, Message, Approve, Begins, askVars
    <2> QED
        BY <2>1
  <1> QED
      BY <1>1, <1>2

(* A call that fails: what it had cut is lost, if nobody else writes it. *)
LEMMA ExactFail ==
    ASSUME Types, Exact, NEW p \in Callers, Fail(p)
    PROVE  Exact'
  <1> USE DEF At
  <1> DEFINE P == pending \ lost
             K == IF call[p].at \in {"record", "recordwrite"} THEN call[p].keep ELSE {}
  <1>0. /\ Goto(p, Idle) /\ UNCHANGED <<file, pending, now>>
        /\ lost' = lost \cup LostBy(p)
        /\ ~Carries(Idle) /\ ~Cutting(Idle)
      BY DEF Fail, askVars, Carries, Cutting, Idle, Doing
  <1>1. pending \in SUBSET Request /\ K \in SUBSET Failure
      BY DEF Types, TypeOK, CallOK
  <1>2. ~overtaken' => ~overtaken
      BY DEF Fail
  <1>3. CASE Cutting(call[p]) /\ lock \in {p, None}
    <2>1. "pending" \in CutBy(p) /\ K = {}
        BY <1>3 DEF CutBy, Files, Cutting
    <2>2. lost' = lost \cup (pending \ file)
        BY <1>0, <1>3, <2>1 DEF LostBy, Cutting
    <2>3. ~overtaken' => \A q \in Callers : q # p => ~Carries(call[q])
      <3> SUFFICES ASSUME ~overtaken', NEW q \in Callers, q # p PROVE ~Carries(call[q])
          OBVIOUS
      <3>1. call[q].at # "rewrite" /\ call[q].at # "relock"
          BY <2>1 DEF Fail
      <3>2. lock # q
          BY <1>3, Bounds
      <3>3. call[q].at # "writing"
          BY <3>2 DEF Types, TypeOK
      <3> QED
          BY <3>1, <3>3 DEF Carries
    <2>4. ~overtaken' => Agrees(file, pending \ (lost \cup (pending \ file)), now)
      <3>1. ~overtaken' => file = {} \/ Agrees(file, pending \ lost, now)
          BY <1>2 DEF Exact
      <3> QED
          BY <3>1, AgreeCut
    <2> QED
        BY <1>0, <2>2, <2>3, <2>4, ExactAfter
  <1>4. CASE ~(Cutting(call[p]) /\ lock \in {p, None})
    <2>1. LostBy(p) = K
        BY <1>4 DEF LostBy, CutBy, Cutting
    <2>2. (pending \ lost)' = pending \ lost
      <3> HIDE DEF K
      <3> QED
          BY <1>0, <1>1, <2>1, RequestIsNoFailure
    <2>3. Cutting(call[p]) => \E q \in Callers : q # p /\ Cutting(call[q])
        BY <1>4 DEF Types, TypeOK, Cutting
    <2> QED
        BY <1>0, <1>2, <2>2, <2>3, ExactAfter DEF Exact
  <1> QED
      BY <1>3, <1>4

(* The file stays exact. *)
LEMMA ExactNext ==
    ASSUME Types, Exact, [Next]_vars
    PROVE  Exact'
  <1> USE DEF At
  <1>0. /\ \A q \in Callers : Carries(call[q]) => call[q].keep \in SUBSET Request
        /\ file \in SUBSET Request /\ pending \ lost \in SUBSET Request /\ now \in Nat
      BY Bounds DEF Types, TypeOK, CallOK, Carries
  <1>1. CASE Tick
    <2>1. now' = now + 1 /\ UNCHANGED <<file, pending, lost, call, overtaken>>
        BY <1>1 DEF Tick, fileVars, askVars
    <2>2. \A q \in Callers : Carries(call[q]) /\ Agrees(call[q].keep, pending \ lost, now)
                                => Agrees(call[q].keep, pending \ lost, now')
        BY <2>1, <1>0, AgreeLater
    <2>3. Agrees(file, pending \ lost, now) => Agrees(file, pending \ lost, now')
        BY <2>1, <1>0, AgreeLater
    <2> QED
        BY <2>1, <2>2, <2>3 DEF Exact
  <1>2. CASE UNCHANGED vars
      BY <1>2 DEF vars, Exact, fileVars, askVars
  <1>3. ASSUME NEW p \in Callers, Elsewhere(p) PROVE Exact'
    <2>1. UNCHANGED <<file, now>>
        BY <1>3, ElsewhereStep
    <2>2. PICK c : Goto(p, c) /\ ~Carries(c)
        BY <1>3, ElsewhereStep
    <2>3. (pending \ lost)' = pending \ lost /\ overtaken' = overtaken /\ ~Cutting(call[p])
        BY <1>3, ElsewhereCuts
    <2> QED
        BY <2>1, <2>2, <2>3, ExactAfter DEF Exact
  <1>4. ASSUME NEW p \in Callers, Write(p) PROVE Exact'
    <2>1. PICK c : Goto(p, c) /\ c \in {Idle, Doing("allow", call[p].id, None, {})}
        BY <1>4 DEF Write
    <2>2. ~Carries(c)
        BY <2>1 DEF Carries, Idle, Doing
    <2>3. /\ file' = call[p].keep /\ Carries(call[p])
          /\ UNCHANGED <<pending, lost, now, overtaken>>
        BY <1>4 DEF Write, askVars, Carries
    <2> QED
        BY <2>1, <2>2, <2>3, ExactAfter DEF Exact
  <1>5. ASSUME NEW p \in Callers, ListPending(p) PROVE Exact'
    <2> DEFINE c == Doing("rewrite", None, None, Live(file))
    <2>1. /\ Goto(p, c) /\ call[p].at = "idle" /\ Live(file) # file
          /\ UNCHANGED <<file, pending, lost, now, overtaken>>
        BY <1>5 DEF ListPending, Begins, fileVars, askVars
    <2>2. c.keep = Live(file) /\ ~Cutting(call[p])
        BY <2>1 DEF Doing, Cutting
    <2>3. file # {}
        BY <2>1 DEF Live
    <2> HIDE DEF c
    <2>4. ~overtaken => Agrees(Live(file), pending \ lost, now)
        BY <2>3, AgreeLive DEF Exact
    <2> QED
        BY <2>1, <2>2, <2>3, <2>4, ExactAfter DEF Exact
  <1>6. ASSUME NEW p \in Callers, ListOpen(p) PROVE Exact'
    <2> DEFINE c == [call[p] EXCEPT !.at = "relock"]
    <2>1. /\ Goto(p, c) /\ file' = {} /\ call[p].at = "rewrite"
          /\ UNCHANGED <<pending, lost, now, overtaken>>
        BY <1>6 DEF ListOpen, askVars
    <2>2. c.keep = call[p].keep /\ Cutting(c) /\ Carries(call[p])
        BY <2>1 DEF Types, CallRec, Cutting, Carries
    <2> HIDE DEF c
    <2> QED
        BY <2>1, <2>2, ExactAfter DEF Exact
  <1>7. ASSUME NEW p \in Callers, ListLock(p) PROVE Exact'
    <2> DEFINE c == Doing("writing", None, None, call[p].keep)
    <2>1. /\ Goto(p, c) /\ file' = {} /\ call[p].at = "relock"
          /\ UNCHANGED <<pending, lost, now, overtaken>>
        BY <1>7 DEF ListLock, Hold, askVars
    <2>2. c.keep = call[p].keep /\ Cutting(c) /\ Carries(call[p])
        BY <2>1 DEF Doing, Cutting, Carries
    <2> HIDE DEF c
    <2> QED
        BY <2>1, <2>2, ExactAfter DEF Exact
  <1>8. ASSUME NEW p \in Callers, NEW id, NEW keep, Hold(p, id, keep), now' = now,
               ~overtaken' =>
                 /\ \A q \in Callers : q # p /\ Carries(call[q]) => Agrees(call[q].keep, (pending \ lost)', now)
                 /\ Agrees(keep, (pending \ lost)', now)
        PROVE  Exact'
    <2> DEFINE c == Doing("writing", id, None, keep)
    <2>1. Goto(p, c) /\ file' = {}
        BY <1>8 DEF Hold
    <2>2. c.keep = keep /\ Cutting(c)
        BY DEF Doing, Cutting
    <2> HIDE DEF c
    <2> QED
        BY <2>1, <2>2, <1>8, ExactAfter
  <1>9. ASSUME lock = None, ~Rewriting, ~overtaken
        PROVE  /\ \A q \in Callers : ~Carries(call[q])
               /\ Agrees(file, pending \ lost, now)
    <2>1. \A q \in Callers : ~Carries(call[q])
        BY <1>9, Bounds DEF Rewriting, Carries, Types, TypeOK
    <2> QED
        BY <2>1, <1>9 DEF Exact, Carries, Cutting
  <1>10. ASSUME NEW p \in Callers, Upsert(p) PROVE Exact'
    <2>0. PICK read \in Reads(file) : UpsertInto(p, call[p].id, read)
        BY <1>10 DEF Upsert
    <2> DEFINE s == call[p].id
    <2>1. /\ call[p].at = "upsert" /\ lock = None
          /\ UpsertInto(p, s, read) /\ now' = now
        BY <1>10, <2>0 DEF Upsert
    <2> HIDE DEF s
    <2>2. CASE /\ \E r \in Live(read) : r.id = s
               /\ Hold(p, None, Live(read)) /\ UNCHANGED <<pending, lost, overtaken>>
      <3>1. file # {} /\ read = file
          BY <2>2 DEF Live, Reads
      <3>2. ~overtaken => Agrees(Live(read), pending \ lost, now)
          BY <3>1, AgreeLive DEF Exact
      <3> QED
          BY <2>1, <2>2, <3>2, <1>8 DEF Exact
    <2>3. CASE Goto(p, Idle) /\ UNCHANGED <<file, pending, lost, overtaken>>
      <3>1. ~Carries(Idle) /\ ~Cutting(call[p])
          BY <2>1 DEF Idle, Doing, Carries, Cutting
      <3> QED
          BY <2>1, <2>3, <3>1, ExactAfter DEF Exact
    <2>4. ASSUME NEW new, Hold(p, None, Live(read) \cup {new}),
                 pending' = pending \cup {new}, overtaken' = (overtaken \/ Rewriting),
                 lost' = (lost \cup (file \ read)) \ {new}
          PROVE  Exact'
      <3>1. ~overtaken' =>
              /\ \A q \in Callers : ~Carries(call[q])
              /\ Agrees(Live(read) \cup {new}, (pending \cup {new}) \ ((lost \cup (file \ read)) \ {new}), now)
          BY <2>1, <2>4, <1>9, AgreeAdd
      <3> QED
          BY <2>1, <2>4, <3>1, <1>8
    <2> QED
        BY <2>1, <2>2, <2>3, <2>4 DEF UpsertInto
  <1>11. ASSUME NEW p \in Callers, ApproveLock(p) PROVE Exact'
    <2>1. PICK read \in Reads(file) :
              TakeOut(p, Live(read), {r \in Live(read) : r.code = call[p].code})
        BY <1>11 DEF ApproveLock
    <2>2. /\ call[p].at = "approve" /\ lock = None
          /\ UNCHANGED <<now, lost>>
        BY <1>11 DEF ApproveLock
    <2>3. ASSUME NEW r \in Live(read), Hold(p, r.id, Live(read) \ {r}),
                 pending' = pending \ {r}, overtaken' = (overtaken \/ Rewriting)
          PROVE  Exact'
      <3>0. read = file
          BY <2>3 DEF Reads, Live
      <3>1. ~overtaken' =>
              /\ \A q \in Callers : ~Carries(call[q])
              /\ Agrees(Live(read) \ {r}, (pending \ lost) \ {r}, now)
          BY <2>2, <2>3, <3>0, <1>9, AgreeLive
      <3>2. (pending \ lost) \ {r} = (pending \ lost)'
          BY <2>2, <2>3
      <3> QED
          BY <2>2, <2>3, <3>1, <3>2, <1>8
    <2>4. CASE Goto(p, Doing("record", None, None, {NewFailure})) /\ UNCHANGED <<file, pending, overtaken>>
      <3>1. ~Carries(Doing("record", None, None, {NewFailure})) /\ ~Cutting(call[p])
          BY <2>2 DEF Doing, Carries, Cutting
      <3> QED
          BY <2>2, <2>4, <3>1, ExactAfter DEF Exact
    <2> QED
        BY <2>1, <2>3, <2>4 DEF TakeOut
  <1> QED
      BY <1>1, <1>2, <1>3, <1>4, <1>5, <1>6, <1>7, <1>10, <1>11, ExactFail, Steps

-----------------------------------------------------------------------------
(* The list of those let in and the failed attempts: the caller that holds the
   lock carries all that has to be there, and without one it is there. *)

RecentKept ==
    /\ allowLock = None => recent \subseteq allow
    /\ \A p \in Callers : At(p, "allowwrite") =>
            recent \subseteq call[p].keep /\ call[p].id \in call[p].keep

(* The steps that touch neither. *)
Requesting(p) ==
    \/ Write(p) \/ ListPending(p) \/ ListOpen(p) \/ ListLock(p) \/ Upsert(p)
    \/ ApproveNoFile(p)
    \/ \E s \in Senders : Message(p, s)
    \/ \E code \in Codes : Approve(p, code)

Recordings == {"record", "recordwrite"}

(* What they leave alone. *)
LEMMA RequestingStep ==
    ASSUME Types, NEW p \in Callers, Requesting(p)
    PROVE  /\ UNCHANGED <<allow, allowLock, recent, attempts, attemptsLock, failures, now>>
           /\ \E c : Goto(p, c) /\ c.at \notin {"allowwrite"} \cup Recordings
           /\ call[p].at \notin {"allowwrite"} \cup Recordings
  <1> USE DEF At, Doing, Idle, Recordings, allowVars, attemptVars
  <1>1. CASE Write(p)
      BY <1>1 DEF Write
  <1>2. CASE ListPending(p) \/ ListLock(p) \/ ApproveNoFile(p)
      BY <1>2 DEF ListPending, Begins, ListLock, Hold, ApproveNoFile
  <1>3. CASE ListOpen(p)
    <2>1. [call[p] EXCEPT !.at = "relock"].at = "relock"
        BY DEF Types, CallRec
    <2> QED
        BY <1>3, <2>1 DEF ListOpen
  <1>4. CASE Upsert(p)
    <2>1. /\ UNCHANGED <<allow, allowLock, recent, attempts, attemptsLock, failures, now>>
          /\ call[p].at = "upsert"
        BY <1>4 DEF Upsert
    <2>2. (\E keep : Goto(p, Doing("writing", None, None, keep))) \/ Goto(p, Idle)
      <3> HIDE DEF Doing, Idle
      <3> QED
          BY <1>4 DEF Upsert, UpsertInto, Hold
    <2>3. \E c : Goto(p, c) /\ c.at \in {"writing", "idle"}
      <3>1. \A keep : Doing("writing", None, None, keep).at = "writing"
          OBVIOUS
      <3>2. Idle.at = "idle"
          OBVIOUS
      <3> HIDE DEF Doing, Idle
      <3> QED
          BY <2>2, <3>1, <3>2
    <2> QED
        BY <2>1, <2>3
  <1>6. CASE \E s \in Senders : Message(p, s)
      BY <1>6 DEF Message, Begins
  <1>7. CASE \E code \in Codes : Approve(p, code)
      BY <1>7 DEF Approve, Begins
  <1> QED
      BY <1>1, <1>2, <1>3, <1>4, <1>6, <1>7 DEF Requesting

(* approve under the lock takes a request out, or has failed. *)
LEMMA ApproveStep ==
    ASSUME Types, NEW p \in Callers, ApproveLock(p)
    PROVE  /\ UNCHANGED <<allow, allowLock, recent, attempts, attemptsLock, lost, now>>
           /\ call[p].at = "approve"
           /\ \/ /\ failures' = failures
                 /\ \E c : Goto(p, c) /\ c.at = "writing"
              \/ /\ failures' = failures \cup {NewFailure}
                 /\ Goto(p, Doing("record", None, None, {NewFailure}))
  <1>1. /\ UNCHANGED <<allow, allowLock, recent, attempts, attemptsLock, lost, now>>
        /\ call[p].at = "approve"
      BY DEF ApproveLock, allowVars, At
  <1>2. \A id, keep : Doing("writing", id, None, keep).at = "writing"
      BY DEF Doing
  <1>3. \/ failures' = failures /\ \E id, keep : Goto(p, Doing("writing", id, None, keep))
        \/ failures' = failures \cup {NewFailure} /\ Goto(p, Doing("record", None, None, {NewFailure}))
      BY DEF ApproveLock, TakeOut, Hold
  <1> QED
      BY <1>1, <1>2, <1>3

(* The steps of Next, with those on requests taken together. *)
LEMMA ListSteps ==
    ASSUME [Next]_vars
    PROVE  \/ Tick \/ UNCHANGED vars
           \/ \E p \in Callers : \/ Requesting(p) \/ ApproveLock(p)
                                 \/ AllowOpen(p) \/ AllowKnown(p) \/ AllowAdd(p) \/ AllowWrite(p)
                                 \/ RecordLock(p) \/ RecordWrite(p) \/ Fail(p)
  BY DEF Next, Proceed, Requesting

(* Where the callers are after one of them moved. *)
LEMMA Moved ==
    ASSUME Types, NEW p \in Callers, NEW c, Goto(p, c)
    PROVE  /\ call'[p] = c
           /\ \A q \in Callers : q # p => call'[q] = call[q]
  BY DEF Types, Goto

(* Approvals keep each other's senders. *)
LEMMA RecentNext ==
    ASSUME Types, RecentKept, [Next]_vars
    PROVE  RecentKept'
  <1> USE DEF At
  <1>0. \A q \in Callers : q # None /\ (allowLock = q <=> call[q].at = "allowwrite")
      BY Bounds DEF Types, TypeOK
  <1>1. CASE Tick \/ UNCHANGED vars
      BY <1>1 DEF Tick, vars, RecentKept, allowVars
  <1>2. ASSUME NEW p \in Callers, NEW c, Goto(p, c), c.at # "allowwrite",
               call[p].at # "allowwrite", UNCHANGED <<allow, allowLock, recent>>
        PROVE  RecentKept'
    <2>1. \A q \in Callers : call'[q].at = "allowwrite" => call'[q] = call[q]
        BY <1>2, Moved
    <2> QED
        BY <2>1, <1>2 DEF RecentKept
  <1>3. ASSUME NEW p \in Callers, Requesting(p) PROVE RecentKept'
      BY <1>3, <1>2, RequestingStep
  <1>10. ASSUME NEW p \in Callers, ApproveLock(p) PROVE RecentKept'
    <2>1. PICK c : Goto(p, c) /\ c.at \in {"writing", "record"}
        BY <1>10, ApproveStep DEF Doing
    <2> QED
        BY <1>10, <2>1, <1>2, ApproveStep
  <1>4. ASSUME NEW p \in Callers, RecordLock(p) \/ RecordWrite(p) PROVE RecentKept'
    <2>1. \E c : Goto(p, c) /\ c.at \in {"recordwrite", "idle"}
      <3>1. CASE RecordLock(p)
        <4>1. PICK keep : Goto(p, Doing("recordwrite", None, None, keep))
            BY <3>1 DEF RecordLock, RecordInto
        <4> QED
            BY <4>1 DEF Doing
      <3>2. CASE RecordWrite(p)
          BY <3>2, IdleIsCall DEF RecordWrite
      <3> QED
          BY <1>4, <3>1, <3>2
    <2> QED
        BY <1>4, <2>1, <1>2 DEF RecordLock, RecordWrite, allowVars
  <1>5. ASSUME NEW p \in Callers, AllowOpen(p) PROVE RecentKept'
    <2> DEFINE c == [call[p] EXCEPT !.at = "allowlock"]
    <2>1. Goto(p, c) /\ allow' = {} /\ recent' = {} /\ UNCHANGED allowLock
        BY <1>5 DEF AllowOpen
    <2>2. c.at = "allowlock"
        BY DEF Types, CallRec
    <2> HIDE DEF c
    <2>3. \A q \in Callers : call'[q].at = "allowwrite" => call'[q] = call[q]
        BY <2>1, <2>2, Moved
    <2> QED
        BY <2>1, <2>3 DEF RecentKept
  <1>6. ASSUME NEW p \in Callers, AllowKnown(p) PROVE RecentKept'
    <2>1. Goto(p, Idle) /\ Idle.at = "idle"
        BY <1>6, IdleIsCall DEF AllowKnown
    <2>2. \A q \in Callers : call'[q].at # "allowwrite"
        BY <1>0, <1>6, <2>1, Moved DEF AllowKnown
    <2> QED
        BY <2>2, <1>6 DEF AllowKnown, RecentKept
  <1>7. ASSUME NEW p \in Callers, AllowAdd(p) PROVE RecentKept'
    <2>0. PICK read \in Reads(allow) :
              /\ Goto(p, Doing("allowwrite", call[p].id, None, read \cup {call[p].id}))
              /\ recent' = recent \ (allow \ read)
        BY <1>7 DEF AllowAdd
    <2> DEFINE c == Doing("allowwrite", call[p].id, None, read \cup {call[p].id})
    <2>1. Goto(p, c) /\ allowLock = None /\ allowLock' = p
        BY <1>7, <2>0 DEF AllowAdd
    <2>2. c.keep = read \cup {call[p].id} /\ c.id = call[p].id
        BY DEF Doing
    <2> HIDE DEF c
    <2>3. \A q \in Callers : call'[q].at = "allowwrite" => call'[q] = c
        BY <1>0, <2>1, Moved
    <2>4. recent' \subseteq read
        BY <2>0, <2>1 DEF RecentKept
    <2> QED
        BY <1>0, <2>1, <2>2, <2>3, <2>4 DEF RecentKept
  <1>8. ASSUME NEW p \in Callers, AllowWrite(p) PROVE RecentKept'
    <2>1. Goto(p, Idle) /\ Idle.at = "idle"
        BY <1>8, IdleIsCall DEF AllowWrite
    <2>2. \A q \in Callers : call'[q].at # "allowwrite"
        BY <1>0, <1>8, <2>1, Moved DEF AllowWrite
    <2> QED
        BY <2>2, <1>8 DEF AllowWrite, RecentKept
  <1>9. ASSUME NEW p \in Callers, Fail(p) PROVE RecentKept'
    <2>1. Goto(p, Idle) /\ Idle.at = "idle" /\ UNCHANGED allow
        BY <1>9, IdleIsCall DEF Fail
    <2>2. CASE call[p].at = "allowwrite"
      <3>1. recent' = {}
          BY <2>2, <1>9 DEF Fail
      <3>2. \A q \in Callers : call'[q].at # "allowwrite"
          BY <1>0, <2>1, <2>2, Moved
      <3> QED
          BY <3>1, <3>2 DEF RecentKept
    <2>3. CASE call[p].at # "allowwrite"
      <3>1. allowLock' = allowLock /\ recent' = recent
          BY <2>3, <1>9, NotHeld DEF Fail
      <3> QED
          BY <3>1, <2>1, <2>3, <1>2
    <2> QED
        BY <2>2, <2>3
  <1> QED
      BY <1>1, <1>3, <1>4, <1>5, <1>6, <1>7, <1>8, <1>9, <1>10, ListSteps

-----------------------------------------------------------------------------
(* Failed attempts keep their numbers apart, whether they are recorded, lost
   or about to be recorded, and those in the window that are recorded are those
   that are neither lost nor about to be. *)

InWindowAt(fs, t) == {f \in fs : f.at + Window >= t}
Counts(fs, all, t) == InWindowAt(fs, t) = InWindowAt(all, t)

\* What the file holds, or its caller will write.
Recorded == IF attemptsLock = None THEN attempts ELSE call[attemptsLock].keep

Numbered ==
    /\ \A f \in failures : f.no < Cardinality(failures)
    /\ \A f, g \in failures : f.no = g.no => f = g

Placed ==
    /\ attemptsLock # None => attempts = {}
    /\ Recorded \subseteq failures
    /\ \A f \in lost : f \in Failure => f \in failures
    /\ \A p \in Callers : At(p, "record") =>
            \E f \in failures : call[p].keep = {f} /\ f \notin Recorded \cup lost
    /\ \A p, q \in Callers : At(p, "record") /\ At(q, "record") /\ p # q => call[p].keep # call[q].keep

AllCounted == Numbered /\ Placed /\ Counts(Recorded, failures \ (lost \cup Unrecorded), now)

(* Failures that agree in the window go on to when time passes. *)
LEMMA CountsLater ==
    ASSUME NEW t \in Nat, NEW S \in SUBSET Failure, NEW T \in SUBSET Failure, Counts(S, T, t)
    PROVE  Counts(S, T, t + 1)
  <1>1. \A f \in Failure : f.at \in Nat
      BY DEF Failure
  <1>2. ASSUME NEW R \in SUBSET Failure
        PROVE  InWindowAt(R, t + 1) = {f \in InWindowAt(R, t) : f.at + Window >= t + 1}
      BY <1>1, Bounds DEF InWindowAt
  <1> QED
      BY <1>2 DEF Counts

(* One more failure, and the others dropped when they leave the window or could
   not be read. *)
LEMMA CountsMore ==
    ASSUME NEW S, NEW T, NEW f, Counts(S, T, now), NEW read \in Reads(S)
    PROVE  Counts(InWindow(read \cup {f}), (T \ (S \ read)) \cup {f}, now)
  <1>1. \A g : g \in InWindowAt(S, now) <=> g \in InWindowAt(T, now)
      BY DEF Counts
  <1>2. InWindow(read \cup {f}) = InWindowAt(read \cup {f}, now)
      BY DEF InWindow, InWindowAt
  <1>3. CASE read = S
      BY <1>1, <1>2, <1>3 DEF Counts, InWindowAt
  <1>4. CASE read = {}
      BY <1>1, <1>2, <1>4 DEF Counts, InWindowAt
  <1> QED
      BY <1>3, <1>4 DEF Reads

(* Without what was recorded nothing is left to count. *)
LEMMA CountsNone ==
    ASSUME NEW S, NEW T, NEW t, Counts(S, T, t)
    PROVE  Counts({}, T \ S, t)
  <1>1. \A g : g \in InWindowAt(S, t) <=> g \in InWindowAt(T, t)
      BY DEF Counts
  <1> QED
      BY <1>1 DEF Counts, InWindowAt

(* Who is about to record what. *)
LEMMA UnrecordedIs ==
    \A f : f \in Unrecorded <=> \E p \in Callers : call[p].at = "record" /\ f \in call[p].keep
  BY DEF Unrecorded, At

(* A step that records nothing leaves the failures as they are. *)
LEMMA CountedAside ==
    ASSUME Types, AllCounted, NEW p \in Callers, NEW c, Goto(p, c), c.at \notin Recordings,
           call[p].at \notin Recordings, UNCHANGED <<attempts, attemptsLock, failures, now>>,
           \/ lost' = lost
           \/ \E L \in SUBSET Request : lost' \subseteq lost \cup L /\ \A r \in lost : r \in Failure => r \in lost'
    PROVE  AllCounted'
  <1> USE DEF At, Recordings
  <1>1. call'[p] = c /\ \A q \in Callers : q # p => call'[q] = call[q]
      BY Moved
  <1>2. \A q \in Callers : (call'[q].at \in Recordings \/ call[q].at \in Recordings) => call'[q] = call[q]
      BY <1>1
  <1>3. attemptsLock # None => attemptsLock \in Callers /\ call[attemptsLock].at = "recordwrite"
      BY DEF Types, TypeOK
  <1>4. Recorded' = Recorded
      BY <1>2, <1>3 DEF Recorded
  <1>5. Unrecorded' = Unrecorded
      BY <1>2 DEF Unrecorded
  <1>6. \A f \in Failure : f \in lost' <=> f \in lost
      BY DEF Request, Failure
  <1>7. failures \in SUBSET Failure
      BY DEF Types, TypeOK
  <1>8. failures' \ (lost' \cup Unrecorded') = failures \ (lost \cup Unrecorded)
      BY <1>5, <1>6, <1>7
  <1>9. Placed'
    <2>1. \A f \in lost' : f \in Failure => f \in failures'
        BY <1>6 DEF AllCounted, Placed
    <2>2. ASSUME NEW q \in Callers, call'[q].at = "record"
          PROVE  \E f \in failures' : call'[q].keep = {f} /\ f \notin Recorded' \cup lost'
      <3>1. PICK f \in failures : call[q].keep = {f} /\ f \notin Recorded \cup lost
          BY <1>2, <2>2 DEF AllCounted, Placed
      <3> QED
          BY <3>1, <1>2, <1>4, <1>6, <1>7, <2>2
    <2>3. \A q, u \in Callers : call'[q].at = "record" /\ call'[u].at = "record" /\ q # u
                                    => call'[q].keep # call'[u].keep
        BY <1>2 DEF AllCounted, Placed
    <2> QED
        BY <2>1, <2>2, <2>3, <1>4 DEF AllCounted, Placed
  <1> QED
      BY <1>4, <1>8, <1>9 DEF AllCounted, Numbered

(* What the steps on requests lose are requests. *)
LEMMA RequestingLoses ==
    ASSUME Types, NEW p \in Callers, Requesting(p)
    PROVE  \/ lost' = lost
           \/ \E L \in SUBSET Request : lost' \subseteq lost \cup L /\ \A r \in lost : r \in Failure => r \in lost'
  <1>1. CASE Upsert(p)
    <2>1. PICK read \in Reads(file) : UpsertInto(p, call[p].id, read)
        BY <1>1 DEF Upsert
    <2>2. \A code \in Codes : [id |-> call[p].id, code |-> code, created |-> now] \in Request
        BY <1>1, NewIsRequest DEF Upsert, Types, CallOK, At
    <2>3. \/ lost' = lost
          \/ \E n \in Request : lost' = (lost \cup (file \ read)) \ {n}
        BY <2>1, <2>2 DEF UpsertInto
    <2>4. file \ read \in SUBSET Request
        BY DEF Types, TypeOK
    <2>5. \A r \in Request : r \notin Failure
        BY DEF Request, Failure
    <2> QED
        BY <2>3, <2>4, <2>5
  <1>2. CASE ~Upsert(p)
      BY <1>2 DEF Requesting, Write, ListPending, ListOpen, ListLock, ApproveNoFile, Message, Approve
  <1> QED
      BY <1>1, <1>2

(* approve with a code that no request has: one more failure to be recorded. *)
LEMMA CountedFailed ==
    ASSUME Types, AllCounted, NEW p \in Callers, call[p].at = "approve",
           Goto(p, Doing("record", None, None, {NewFailure})),
           failures' = failures \cup {NewFailure},
           UNCHANGED <<attempts, attemptsLock, lost, now>>
    PROVE  AllCounted'
  <1> DEFINE n == NewFailure
             c == Doing("record", None, None, {n})
  <1>1. call'[p] = c /\ c.at = "record" /\ c.keep = {n}
      BY Moved DEF Doing
  <1>2. \A q \in Callers : q # p => call'[q] = call[q]
      BY Moved
  <1>3. /\ n \in Failure /\ n.no = Cardinality(failures)
        /\ IsFiniteSet(failures) /\ Cardinality(failures) \in Nat
        /\ failures \in SUBSET Failure /\ \A f \in Failure : f.no \in Nat
      BY NewIsFailure, FS_CardinalityType DEF Types, TypeOK, NewFailure, Failure
  <1> HIDE DEF n, c
  <1>4. failures' = failures \cup {n}
      BY DEF n
  <1>5. n \notin failures
      BY <1>3 DEF AllCounted, Numbered
  <1>6. Cardinality(failures') = Cardinality(failures) + 1
      BY <1>3, <1>4, <1>5, FS_AddElement
  <1>7. Numbered'
    <2>1. \A f \in failures' : f.no < Cardinality(failures')
        BY <1>3, <1>4, <1>6 DEF AllCounted, Numbered
    <2>2. \A f, g \in failures' : f.no = g.no => f = g
        BY <1>3, <1>4 DEF AllCounted, Numbered
    <2> QED
        BY <2>1, <2>2 DEF Numbered
  <1>8. attemptsLock # None => attemptsLock \in Callers /\ call[attemptsLock].at = "recordwrite"
      BY DEF Types, TypeOK, At
  <1>9. Recorded' = Recorded
      BY <1>2, <1>8 DEF Recorded
  <1>10. n \notin Recorded \cup lost
      BY <1>3, <1>5 DEF AllCounted, Placed
  <1>11. Placed'
    <2>1. /\ attemptsLock' # None => attempts' = {}
          /\ Recorded' \subseteq failures'
          /\ \A f \in lost' : f \in Failure => f \in failures'
        BY <1>4, <1>9 DEF AllCounted, Placed
    <2>2. ASSUME NEW q \in Callers, call'[q].at = "record"
          PROVE  \E f \in failures' : call'[q].keep = {f} /\ f \notin Recorded' \cup lost'
      <3>1. CASE q = p
          BY <3>1, <1>1, <1>4, <1>9, <1>10
      <3>2. CASE q # p
          BY <3>2, <2>2, <1>2, <1>4, <1>9 DEF AllCounted, Placed, At
      <3> QED
          BY <3>1, <3>2
    <2>3. \A q \in Callers : q # p /\ call[q].at = "record" => call[q].keep # {n}
        BY <1>5 DEF AllCounted, Placed, At
    <2>4. \A q, u \in Callers : call'[q].at = "record" /\ call'[u].at = "record" /\ q # u
                                    => call'[q].keep # call'[u].keep
        BY <2>3, <1>1, <1>2 DEF AllCounted, Placed, At
    <2> QED
        BY <2>1, <2>2, <2>4 DEF Placed, At
  <1>12. \A f : f \in Unrecorded' <=> f \in Unrecorded \/ f = n
    <2>1. \A f : f \in Unrecorded' <=> \E q \in Callers : call'[q].at = "record" /\ f \in call'[q].keep
        BY UnrecordedIs DEF Unrecorded, At
    <2> QED
        BY <2>1, <1>1, <1>2, UnrecordedIs
  <1>13. failures' \ (lost' \cup Unrecorded') = failures \ (lost \cup Unrecorded)
      BY <1>4, <1>5, <1>12
  <1> QED
      BY <1>7, <1>9, <1>11, <1>13 DEF AllCounted

(* A failure is recorded: it leaves those about to be, with the time it counts
   from, and what could not be read is lost. *)
LEMMA CountedRecord ==
    ASSUME Types, AllCounted, NEW p \in Callers, RecordLock(p)
    PROVE  AllCounted'
  <1> USE DEF At
  <1>a. PICK f \in call[p].keep, read \in Reads(attempts) : RecordInto(p, f, read)
      BY DEF RecordLock
  <1> DEFINE new == [f EXCEPT !.at = now]
             K == InWindow(read \cup {new})
             c == Doing("recordwrite", None, None, K)
             T == failures \ (lost \cup Unrecorded)
  <1>0. /\ call[p].at = "record" /\ attemptsLock = None /\ now' = now
        /\ Goto(p, c) /\ attemptsLock' = p /\ attempts' = {}
        /\ failures' = (failures \ {f}) \cup {new}
        /\ lost' = lost \cup (attempts \ read)
      BY <1>a DEF RecordLock, RecordInto
  <1>1. call'[p] = c /\ c.at = "recordwrite" /\ c.keep = K
      BY <1>0, Moved DEF Doing
  <1>2. \A q \in Callers : q # p => call'[q] = call[q]
      BY <1>0, Moved
  <1>3. Recorded = attempts /\ Recorded' = K /\ K \subseteq read \cup {new} /\ read \subseteq attempts
      BY <1>0, <1>1, Bounds DEF Recorded, InWindow, Reads
  <1>4. call[p].keep = {f} /\ f \in failures /\ f \notin attempts \cup lost
      BY <1>0, <1>3 DEF AllCounted, Placed
  <1>5. /\ failures \in SUBSET Failure /\ attempts \subseteq failures
        /\ IsFiniteSet(failures) /\ new \in Failure /\ new.no = f.no
      BY <1>3, <1>4, RecordedIsFailure DEF Types, TypeOK, AllCounted, Placed
  <1> HIDE DEF new
  <1>6. new \notin failures \ {f}
      BY <1>4, <1>5 DEF AllCounted, Numbered
  <1>7. Cardinality(failures') = Cardinality(failures)
    <2>1. IsFiniteSet(failures \ {f}) /\ Cardinality(failures \ {f}) = Cardinality(failures) - 1
        BY <1>4, <1>5, FS_RemoveElement
    <2>2. Cardinality(failures') = Cardinality(failures \ {f}) + 1
        BY <1>0, <1>6, <2>1, FS_AddElement
    <2>3. Cardinality(failures) \in Nat
        BY <1>5, FS_CardinalityType
    <2> QED
        BY <2>1, <2>2, <2>3
  <1>8. Numbered'
    <2>1. \A g \in failures' : g.no < Cardinality(failures')
        BY <1>0, <1>4, <1>5, <1>7 DEF AllCounted, Numbered
    <2>2. \A g, h \in failures' : g.no = h.no => g = h
        BY <1>0, <1>4, <1>5 DEF AllCounted, Numbered
    <2> QED
        BY <2>1, <2>2 DEF Numbered
  <1>9. ASSUME NEW q \in Callers, q # p, call[q].at = "record" PROVE f \notin call[q].keep
    <2>1. PICK g : call[q].keep = {g}
        BY <1>9 DEF AllCounted, Placed
    <2>2. call[q].keep # call[p].keep
        BY <1>0, <1>9 DEF AllCounted, Placed
    <2> QED
        BY <2>1, <2>2, <1>4
  <1>10. new \notin lost \cup attempts
      BY <1>4, <1>5, <1>6 DEF AllCounted, Placed
  <1>11. Placed'
    <2>1. /\ attemptsLock' # None => attempts' = {}
          /\ Recorded' \subseteq failures'
        BY <1>0, <1>3, <1>4, <1>5
    <2>2. \A g \in lost' : g \in Failure => g \in failures'
        BY <1>0, <1>4, <1>5 DEF AllCounted, Placed
    <2>3. ASSUME NEW q \in Callers, call'[q].at = "record"
          PROVE  \E g \in failures' : call'[q].keep = {g} /\ g \notin Recorded' \cup lost'
      <3>1. q # p /\ call'[q] = call[q]
          BY <1>1, <1>2, <2>3
      <3>2. PICK g \in failures : call[q].keep = {g} /\ g \notin Recorded \cup lost
          BY <2>3, <3>1 DEF AllCounted, Placed
      <3>3. g # f
          BY <1>9, <2>3, <3>1, <3>2
      <3>4. g # new
          BY <1>6, <3>2, <3>3
      <3> QED
          BY <1>0, <1>3, <3>1, <3>2, <3>3, <3>4
    <2>4. \A q, u \in Callers : call'[q].at = "record" /\ call'[u].at = "record" /\ q # u
                                    => call'[q].keep # call'[u].keep
        BY <1>1, <1>2 DEF AllCounted, Placed
    <2> QED
        BY <2>1, <2>2, <2>3, <2>4 DEF Placed
  <1>12. /\ \A g : g \in Unrecorded <=> g \in Unrecorded' \/ g = f
         /\ f \notin Unrecorded' /\ new \notin Unrecorded'
    <2>1. \A g : g \in Unrecorded' <=> \E q \in Callers : call'[q].at = "record" /\ g \in call'[q].keep
        BY DEF Unrecorded
    <2>2. \A g : g \in Unrecorded' <=> \E q \in Callers : q # p /\ call[q].at = "record" /\ g \in call[q].keep
        BY <2>1, <1>1, <1>2
    <2>3. \A g : g \in Unrecorded <=> g \in Unrecorded' \/ g = f
        BY <2>2, <1>0, <1>4, UnrecordedIs
    <2>4. f \notin Unrecorded'
        BY <2>2, <1>9
    <2>5. Unrecorded' \subseteq failures
        BY <2>2 DEF AllCounted, Placed
    <2> QED
        BY <2>3, <2>4, <2>5, <1>6
  <1>13. failures' \ (lost' \cup Unrecorded') = (T \ (attempts \ read)) \cup {new}
      BY <1>0, <1>6, <1>10, <1>12
  <1>14. Counts(attempts, T, now)
      BY <1>3 DEF AllCounted
  <1>15. Counts(K, (T \ (attempts \ read)) \cup {new}, now)
    <2> HIDE DEF T
    <2> QED
        BY <1>14, CountsMore
  <1> QED
      BY <1>0, <1>3, <1>8, <1>11, <1>13, <1>15 DEF AllCounted

(* A call that fails before it has recorded its failure, or before it has
   written it. *)
LEMMA CountedFail ==
    ASSUME Types, AllCounted, NEW p \in Callers, Fail(p)
    PROVE  AllCounted'
  <1> USE DEF At, Recordings
  <1> DEFINE T == failures \ (lost \cup Unrecorded)
  <1>0. /\ Goto(p, Idle) /\ Idle.at = "idle"
        /\ UNCHANGED <<attempts, failures, now>>
        /\ lost' = lost \cup LostBy(p)
        /\ attemptsLock' = Released(attemptsLock, p)
      BY IdleIsCall DEF Fail
  <1>1. call'[p] = Idle /\ \A q \in Callers : q # p => call'[q] = call[q]
      BY <1>0, Moved
  <1>2. CASE call[p].at \notin Recordings
    <2>1. LostBy(p) \in SUBSET Request
        BY <1>2 DEF LostBy, Types, TypeOK
    <2>2. attemptsLock' = attemptsLock
        BY <1>0, <1>2, NotHeld
    <2> QED
        BY <1>0, <1>2, <2>1, <2>2, CountedAside
  <1>3. CASE call[p].at \in Recordings
    <2>1. LostBy(p) = call[p].keep
        BY <1>3 DEF LostBy, CutBy
    <2>2. /\ failures \in SUBSET Failure
          /\ attemptsLock # None => attemptsLock \in Callers /\ call[attemptsLock].at = "recordwrite"
          /\ call[p].at = "recordwrite" => attemptsLock = p
        BY DEF Types, TypeOK
    <2>3. /\ call[p].keep \subseteq failures
          /\ \A q \in Callers : q # p /\ call[q].at = "record" => call[q].keep \cap call[p].keep = {}
      <3>1. CASE call[p].at = "record"
        <4>1. PICK f \in failures : call[p].keep = {f}
            BY <3>1 DEF AllCounted, Placed
        <4>2. ASSUME NEW q \in Callers, q # p, call[q].at = "record"
              PROVE  call[q].keep \cap call[p].keep = {}
          <5>1. PICK g : call[q].keep = {g}
              BY <4>2 DEF AllCounted, Placed
          <5>2. call[q].keep # call[p].keep
              BY <3>1, <4>2 DEF AllCounted, Placed
          <5> QED
              BY <4>1, <5>1, <5>2
        <4> QED
            BY <4>1, <4>2
      <3>2. CASE call[p].at = "recordwrite"
        <4>1. Recorded = call[p].keep
            BY <3>2, <2>2, Bounds DEF Recorded
        <4> QED
            BY <4>1 DEF AllCounted, Placed
      <3> QED
          BY <3>1, <3>2, <1>3
    <2>4. /\ call[p].at = "record" => Recorded' = Recorded
          /\ call[p].at = "recordwrite" => Recorded' = {} /\ Recorded = call[p].keep
      <3>1. CASE call[p].at = "record"
        <4>1. attemptsLock' = attemptsLock
            BY <1>0, <3>1, NotHeld
        <4> QED
            BY <3>1, <4>1, <1>0, <1>1, <2>2 DEF Recorded
      <3>2. CASE call[p].at = "recordwrite"
        <4>1. attemptsLock' = None
            BY <1>0, <3>2, <2>2 DEF Released
        <4> QED
            BY <3>2, <4>1, <1>0, <2>2, Bounds DEF Recorded, AllCounted, Placed
      <3> QED
          BY <3>1, <3>2
    <2>5. Recorded' \subseteq Recorded
        BY <2>4, <1>3
    <2>6. Placed'
      <3>1. attemptsLock' # None => attempts' = {}
          BY <1>0 DEF AllCounted, Placed, Released
      <3>2. Recorded' \subseteq failures'
          BY <2>5, <1>0 DEF AllCounted, Placed
      <3>3. \A f \in lost' : f \in Failure => f \in failures'
          BY <1>0, <2>1, <2>3 DEF AllCounted, Placed
      <3>4. ASSUME NEW q \in Callers, call'[q].at = "record"
            PROVE  \E g \in failures' : call'[q].keep = {g} /\ g \notin Recorded' \cup lost'
        <4>1. q # p /\ call'[q] = call[q]
            BY <1>0, <1>1, <3>4
        <4>2. PICK g \in failures : call[q].keep = {g} /\ g \notin Recorded \cup lost
            BY <3>4, <4>1 DEF AllCounted, Placed
        <4>3. g \notin call[p].keep
            BY <2>3, <3>4, <4>1, <4>2
        <4> QED
            BY <1>0, <2>1, <2>5, <4>1, <4>2, <4>3
      <3>5. \A q, u \in Callers : call'[q].at = "record" /\ call'[u].at = "record" /\ q # u
                                      => call'[q].keep # call'[u].keep
          BY <1>0, <1>1 DEF AllCounted, Placed
      <3> QED
          BY <3>1, <3>2, <3>3, <3>4, <3>5 DEF Placed
    <2>7. \A g : g \in Unrecorded' <=> \E q \in Callers : q # p /\ call[q].at = "record" /\ g \in call[q].keep
      <3>1. \A g : g \in Unrecorded' <=> \E q \in Callers : call'[q].at = "record" /\ g \in call'[q].keep
          BY DEF Unrecorded
      <3> QED
          BY <3>1, <1>0, <1>1
    <2>8. Counts(Recorded', failures' \ (lost' \cup Unrecorded'), now')
      <3>1. CASE call[p].at = "record"
        <4>1. \A g : g \in Unrecorded <=> g \in Unrecorded' \/ g \in call[p].keep
            BY <2>7, <3>1, UnrecordedIs
        <4>2. failures' \ (lost' \cup Unrecorded') = T
            BY <1>0, <2>1, <4>1
        <4> QED
            BY <1>0, <2>4, <3>1, <4>2 DEF AllCounted
      <3>2. CASE call[p].at = "recordwrite"
        <4>1. \A g : g \in Unrecorded <=> g \in Unrecorded'
            BY <2>7, <3>2, UnrecordedIs
        <4>2. failures' \ (lost' \cup Unrecorded') = T \ call[p].keep
            BY <1>0, <2>1, <4>1
        <4>3. Counts(call[p].keep, T, now)
            BY <2>4, <3>2 DEF AllCounted
        <4> QED
            BY <1>0, <2>4, <3>2, <4>2, <4>3, CountsNone
      <3> QED
          BY <3>1, <3>2, <1>3
    <2> QED
        BY <2>6, <2>8, <1>0 DEF AllCounted, Numbered
  <1> QED
      BY <1>2, <1>3

(* Callers keep each other's failures. *)
LEMMA CountedNext ==
    ASSUME Types, AllCounted, [Next]_vars
    PROVE  AllCounted'
  <1> USE DEF At, Recordings
  <1>0. /\ \A q \in Callers : q # None /\ (attemptsLock = q <=> call[q].at = "recordwrite")
        /\ attemptsLock # None => attemptsLock \in Callers /\ call[attemptsLock].keep \in SUBSET Failure
        /\ attempts \in SUBSET Failure /\ failures \in SUBSET Failure /\ now \in Nat
      BY Bounds DEF Types, TypeOK, CallOK
  <1>1. CASE Tick
    <2>1. now' = now + 1 /\ UNCHANGED <<attempts, attemptsLock, failures, call, lost>>
        BY <1>1 DEF Tick, attemptVars
    <2>2. Recorded \in SUBSET Failure /\ Recorded' = Recorded /\ Unrecorded' = Unrecorded
        BY <1>0, <2>1 DEF Recorded, Unrecorded
    <2>3. Counts(Recorded, failures \ (lost \cup Unrecorded), now')
        BY <1>0, <2>1, <2>2, CountsLater DEF AllCounted
    <2>4. Numbered' /\ Placed'
        BY <2>1, <2>2 DEF AllCounted, Numbered, Placed
    <2> QED
        BY <2>1, <2>2, <2>3, <2>4 DEF AllCounted
  <1>2. CASE UNCHANGED vars
    <2>1. UNCHANGED <<attempts, attemptsLock, failures, call, lost, now>>
        BY <1>2 DEF vars, attemptVars
    <2>2. Recorded' = Recorded /\ Unrecorded' = Unrecorded
        BY <2>1 DEF Recorded, Unrecorded
    <2> QED
        BY <2>1, <2>2 DEF AllCounted, Numbered, Placed
  <1>3. ASSUME NEW p \in Callers, Requesting(p) PROVE AllCounted'
      BY <1>3, RequestingStep, RequestingLoses, CountedAside
  <1>4. ASSUME NEW p \in Callers, ApproveLock(p) PROVE AllCounted'
    <2>1. CASE failures' = failures /\ \E c : Goto(p, c) /\ c.at = "writing"
        BY <1>4, <2>1, ApproveStep, CountedAside
    <2>2. CASE failures' = failures \cup {NewFailure} /\ Goto(p, Doing("record", None, None, {NewFailure}))
        BY <1>4, <2>2, ApproveStep, CountedFailed
    <2> QED
        BY <1>4, <2>1, <2>2, ApproveStep
  <1>5. ASSUME NEW p \in Callers, AllowOpen(p) \/ AllowKnown(p) \/ AllowAdd(p) \/ AllowWrite(p)
        PROVE  AllCounted'
    <2>1. [call[p] EXCEPT !.at = "allowlock"].at = "allowlock"
        BY DEF Types, CallRec
    <2>2. \E c : Goto(p, c) /\ c.at \in {"allowlock", "allowwrite", "idle"}
      <3>1. CASE AllowOpen(p)
          BY <2>1, <3>1 DEF AllowOpen
      <3>2. CASE AllowKnown(p) \/ AllowWrite(p)
          BY <3>2, IdleIsCall DEF AllowKnown, AllowWrite
      <3>3. CASE AllowAdd(p)
        <4>1. PICK keep : Goto(p, Doing("allowwrite", call[p].id, None, keep))
            BY <3>3 DEF AllowAdd
        <4> QED
            BY <4>1 DEF Doing
      <3> QED
          BY <1>5, <3>1, <3>2, <3>3
    <2>3. call[p].at \notin Recordings /\ UNCHANGED <<attempts, attemptsLock, failures, now, lost>>
        BY <1>5 DEF AllowOpen, AllowKnown, AllowAdd, AllowWrite, attemptVars
    <2> QED
        BY <2>2, <2>3, CountedAside
  <1>6. ASSUME NEW p \in Callers, RecordWrite(p) PROVE AllCounted'
    <2>1. /\ Goto(p, Idle) /\ Idle.at = "idle" /\ call[p].at = "recordwrite"
          /\ attempts' = call[p].keep /\ attemptsLock' = None /\ UNCHANGED <<failures, lost, now>>
        BY <1>6, IdleIsCall DEF RecordWrite
    <2>2. call'[p] = Idle /\ \A q \in Callers : q # p => call'[q] = call[q]
        BY <2>1, Moved
    <2>3. Recorded' = Recorded
        BY <1>0, <2>1 DEF Recorded
    <2>4. \A q \in Callers : (call'[q].at = "record" \/ call[q].at = "record") => call'[q] = call[q]
        BY <2>1, <2>2
    <2>5. Unrecorded' = Unrecorded
        BY <2>4 DEF Unrecorded
    <2>6. Placed'
        BY <2>1, <2>3, <2>4 DEF AllCounted, Placed
    <2> QED
        BY <2>1, <2>3, <2>5, <2>6 DEF AllCounted, Numbered
  <1> QED
      BY <1>1, <1>2, <1>3, <1>4, <1>5, <1>6, CountedRecord, CountedFail, ListSteps

-----------------------------------------------------------------------------
(* The inductive invariant, and what follows from it. *)

IInv == Types /\ Contents /\ Admits /\ Exact /\ RecentKept /\ AllCounted

(* A fresh store satisfies it. *)
LEMMA InvariantInit == Init => IInv
  <1> SUFFICES ASSUME Init PROVE IInv
      OBVIOUS
  <1>1. Types
      BY TypesInit
  <1>2. \A p \in Callers : call[p] = Idle
      BY DEF Init
  <1>3. Contents
      BY <1>2, ContentEmpty, IdleIsCall DEF Init, Contents, Carries
  <1>4. Admits
      BY <1>2, IdleIsCall DEF Init, Admits, CallAdmits
  <1>5. Exact
      BY <1>2, IdleIsCall DEF Init, Exact, Carries, Agrees
  <1>6. RecentKept
      BY <1>2, IdleIsCall DEF Init, RecentKept, At
  <1>7. AllCounted
    <2>1. Recorded = {} /\ Unrecorded = {}
        BY <1>2, IdleIsCall DEF Init, Recorded, Unrecorded, At
    <2>2. Numbered /\ Placed
        BY <1>2, <2>1, IdleIsCall DEF Init, Numbered, Placed, At
    <2> QED
        BY <2>1, <2>2 DEF Init, AllCounted, Counts
  <1> QED
      BY <1>1, <1>3, <1>4, <1>5, <1>6, <1>7 DEF IInv

(* The inductive invariant of the pairing store (who holds which lock, what is
   in the files and on its way to them, who is let in, and that calls do not
   undo each other) holds in every reachable state. *)
THEOREM Invariance == Spec => []IInv
  <1>1. Init => IInv
      BY InvariantInit
  <1>2. IInv /\ [Next]_vars => IInv'
      BY TypesNext, ContentsNext, AdmitsNext, ExactNext, RecentNext, CountedNext DEF IInv
  <1> QED
      BY <1>1, <1>2, PTL DEF Spec

(* Every variable keeps its type, and each of the three locks is held by the
   one caller that is writing the file. *)
THEOREM TypeCorrect == Spec => []TypeOK
  <1>1. IInv => TypeOK
      BY DEF IInv, Types
  <1> QED
      BY <1>1, Invariance, PTL

(* list_pending, upsert_request and approve never leave more than
   PAIRING_PENDING_MAX requests, two of a sender or a code twice. *)
THEOREM FileStaysWellFormed == Spec => []FileIsWellFormed
  <1>1. IInv => FileIsWellFormed
      BY DEF IInv, Contents, Content, FileIsWellFormed
  <1> QED
      BY <1>1, Invariance, PTL

(* approve lets in only senders who were given a code it was called with. *)
THEOREM OnlyApprovedGetIn == Spec => []OnlyApproved
  <1>1. IInv => OnlyApproved
      BY DEF IInv, Admits, Admitted, OnlyApproved
  <1> QED
      BY <1>1, Invariance, PTL

(* Under the lock upsert_request and approve lose no request and bring none
   back, unless a list is written back over a change: also after files that
   were left cut or could not be read, whose requests are lost and no later
   ones. *)
THEOREM FileStaysExact == Spec => []FileIsExact
  <1>1. IInv => FileIsExact
    <2> SUFFICES ASSUME Exact, ~overtaken,
                        \A p \in Callers : ~At(p, "writing") /\ ~At(p, "relock")
                 PROVE  Live(file) = Live(pending \ lost)
        BY DEF IInv, FileIsExact
    <2>1. Agrees(file, pending \ lost, now)
        BY DEF Exact, Cutting, At
    <2> QED
        BY <2>1 DEF Agrees, LiveAt, Live, Expired
  <1> QED
      BY <1>1, Invariance, PTL

(* add_allow_from keeps the senders that concurrent approvals let in since the
   list was last cut or could not be read. *)
THEOREM RecentStayAllowed == Spec => []RecentAreAllowed
  <1>1. IInv => RecentAreAllowed
      BY DEF IInv, RecentKept, RecentAreAllowed
  <1> QED
      BY <1>1, Invariance, PTL

(* record_failed_approve: concurrent callers do not clobber each other's
   writes; only what could not be recorded, or was in a file that could not be
   read, does not count. *)
THEOREM NoFailureForgotten == Spec => []FailuresAreCounted
  <1>1. IInv => FailuresAreCounted
      BY DEF IInv, AllCounted, Recorded, Counts, InWindowAt, InWindow, FailuresAreCounted
  <1> QED
      BY <1>1, Invariance, PTL

=============================================================================
