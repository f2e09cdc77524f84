------------------------------ MODULE Pairing ------------------------------
(***************************************************************************)
(* The pairing store of one channel: the requests of unknown senders, the  *)
(* list of those let in and the failed attempts to approve, three files    *)
(* that the callbacks of the channel and the pairing commands, processes   *)
(* of their own, read and write at the same time.                          *)
(*                                                                         *)
(* An action is what a caller does between two points at which another     *)
(* caller can see or change a file: taking a file's lock, reading it and   *)
(* cutting it to nothing is one, as nothing another caller may do falls    *)
(* differently in between, and writing it and giving the lock back is one. *)
(* Readers take no lock, so they may meet a file that is cut, which parses *)
(* as an empty one.  What cannot be read under a lock is taken for empty   *)
(* too.  A set stands for a list whose order nothing reads.                *)
(***************************************************************************)
EXTENDS Naturals, FiniteSets

CONSTANTS
    Callers,       \* who may use the store at the same time
    Senders,       \* ids of senders
    Codes,         \* the pairing codes
    PendingMax,    \* PAIRING_PENDING_MAX
    Ttl,           \* PAIRING_PENDING_TTL_SECS
    RateLimit,     \* PAIRING_APPROVE_RATE_LIMIT
    Window,        \* PAIRING_APPROVE_RATE_WINDOW_SECS
    MaxTime,       \* bound: time that passes
    MaxCalls       \* bound: calls of the store that write

ASSUME PairingAssumption ==
    /\ "none" \notin Callers \cup Senders \cup Codes
    /\ {PendingMax, Ttl, RateLimit, Window, MaxTime, MaxCalls} \subseteq Nat

VARIABLES
    exists,          \* {channel}-pairing.json is there
    file,            \* the requests it holds
    lock,            \* the caller that holds its lock
    allow,           \* {channel}-allowFrom.json
    allowLock,       \* the caller that holds its lock
    attempts,        \* {channel}-approve-attempts.json
    attemptsLock,    \* the caller that holds its lock
    now,             \* the clock
    call,            \* what each caller is doing
    calls,           \* calls so far
    pending,         \* history: requests made and not approved
    shown,           \* history: who was given which code
    tried,           \* history: codes approve was called with
    approved,        \* history: senders the calls of approve let in
    recent,          \* history: those let in since the list was last cut, or not read
    failures,        \* history: failed attempts, numbered, with the time they count from
    lost,            \* history: requests and failed attempts a file operation that failed took away
    overtaken,       \* history: a request was added or taken out while a list was to be written back
    broken           \* history: files that were left cut, or could not be read under their lock

fileVars == <<exists, file, lock>>
allowVars == <<allow, allowLock, approved, recent>>
attemptVars == <<attempts, attemptsLock, failures>>
askVars == <<pending, shown, tried>>
vars == <<fileVars, allowVars, attemptVars, askVars, now, call, calls, overtaken, lost, broken>>

None == "none"
Request == [id : Senders, code : Codes, created : Nat]
Failure == [no : Nat, at : Nat]
Files == {"pending", "allow", "attempts"}
Stages == {"idle", "rewrite", "relock", "upsert", "approve", "writing",
           "allow", "allowlock", "allowwrite", "record", "recordwrite"}

\* A call: how far it is, the sender and the code it is about and the content
\* it will write.
Doing(at, id, code, keep) == [at |-> at, id |-> id, code |-> code, keep |-> keep]
Idle == Doing("idle", None, None, {})
At(p, stage) == call[p].at = stage
Goto(p, c) == call' = [call EXCEPT ![p] = c]

\* What a caller that holds the lock finds in a file: a read that fails is
\* taken for an empty file (unwrap_or_default).
Reads(content) == {content, {}}
Misread(f, content, read) == broken' = IF read = content THEN broken ELSE broken \cup {f}

Expired(r) == now > r.created + Ttl
Live(requests) == {r \in requests : ~Expired(r)}
InWindow(fs) == {f \in fs : f.at + Window >= now}

\* A caller is idle until it starts a call that may write.
Begins(p) == At(p, "idle") /\ calls < MaxCalls /\ calls' = calls + 1

\* A list has been read, and will be written back without what expired.
Rewriting == \E p \in Callers : At(p, "rewrite") \/ At(p, "relock")

-----------------------------------------------------------------------------
(* The file of requests. *)

\* The lock is taken and the file cut; `keep` is to be written.  For approve,
\* `id` is whom to let in then.
Hold(p, id, keep) ==
    /\ lock' = p /\ file' = {}
    /\ Goto(p, Doing("writing", id, None, keep))

\* Mutant: write_pairing_file is used, which opens and locks the file again.
WriteRelocks(p) ==
    /\ At(p, "writing") /\ lock = None
    /\ file' = call[p].keep
    /\ IF call[p].id = None THEN Goto(p, Idle) ELSE Goto(p, Doing("allow", call[p].id, None, {}))
    /\ UNCHANGED <<exists, lock, allowVars, attemptVars, askVars, now, calls, overtaken, lost, broken>>

\* write_pairing_file_locked, unlock.
Write(p) ==
    /\ At(p, "writing")
    /\ file' = call[p].keep /\ lock' = None
    /\ IF call[p].id = None THEN Goto(p, Idle) ELSE Goto(p, Doing("allow", call[p].id, None, {}))
    /\ UNCHANGED <<exists, allowVars, attemptVars, askVars, now, calls, overtaken, lost, broken>>

\* list_pending reads without a lock, and only has to write when a request has
\* expired.
ListPending(p) ==
    /\ Begins(p)
    /\ Live(file) # file
    /\ Goto(p, Doing("rewrite", None, None, Live(file)))
    /\ UNCHANGED <<fileVars, allowVars, attemptVars, askVars, now, overtaken, lost, broken>>

\* write_pairing_file cuts the file as it opens it, before it has the lock.
ListOpen(p) ==
    /\ At(p, "rewrite")
    /\ file' = {}
    /\ Goto(p, [call[p] EXCEPT !.at = "relock"])
    /\ UNCHANGED <<exists, lock, allowVars, attemptVars, askVars, now, calls, overtaken, lost, broken>>

ListLock(p) ==
    /\ At(p, "relock") /\ lock = None
    /\ Hold(p, None, call[p].keep)
    /\ UNCHANGED <<exists, allowVars, attemptVars, askVars, now, calls, overtaken, lost, broken>>

\* A message of a sender who is not on the list of those let in: upsert_request
\* opens the file, which creates it, and waits for the lock.
Message(p, s) ==
    /\ Begins(p)
    /\ s \notin allow
    /\ exists' = TRUE
    /\ Goto(p, Doing("upsert", s, None, {}))
    /\ UNCHANGED <<file, lock, allowVars, attemptVars, askVars, now, overtaken, lost, broken>>

\* Mutant: one request too many.
HasRoomForOneMore(live) == Cardinality(live) <= PendingMax

HasRoom(live) == Cardinality(live) < PendingMax

\* upsert_request has the lock and has read the file: a request that is there is
\* written again (with a new last_seen_at), none is added to a full file, a new
\* one gets a code that no request in the file has.
UpsertInto(p, s, read) ==
    LET live == Live(read) IN
    \/ /\ \E r \in live : r.id = s
       /\ Hold(p, None, live)
       /\ UNCHANGED <<pending, shown, overtaken, lost, broken>>
    \/ /\ \A r \in live : r.id # s
       /\ ~HasRoom(live)
       /\ Goto(p, Idle)
       /\ UNCHANGED <<lock, file, pending, shown, overtaken, lost, broken>>
    \/ /\ \A r \in live : r.id # s
       /\ HasRoom(live)
       /\ \E c \in Codes : LET new == [id |-> s, code |-> c, created |-> now] IN
            /\ \A r \in live : r.code # c
            /\ Hold(p, None, live \cup {new})
            /\ pending' = pending \cup {new}
            /\ shown' = shown \cup {<<s, c>>}
            /\ overtaken' = (overtaken \/ Rewriting)
            /\ lost' = (lost \cup (file \ read)) \ {new}
       /\ Misread("pending", file, read)

\* Mutant: the lock is not waited for.
UpsertUnlocked(p) ==
    /\ At(p, "upsert")
    /\ \E read \in Reads(file) : UpsertInto(p, call[p].id, read)
    /\ UNCHANGED <<exists, allowVars, attemptVars, tried, now, calls>>

Upsert(p) ==
    /\ At(p, "upsert") /\ lock = None
    /\ \E read \in Reads(file) : UpsertInto(p, call[p].id, read)
    /\ UNCHANGED <<exists, allowVars, attemptVars, tried, now, calls>>

-----------------------------------------------------------------------------
(* approve. *)

\* is_approve_rate_limited reads without a lock.
Limited == Cardinality(InWindow(attempts)) >= RateLimit

Approve(p, c) ==
    /\ Begins(p)
    /\ ~Limited
    /\ tried' = tried \cup {c}
    /\ Goto(p, Doing("approve", None, c, {}))
    /\ UNCHANGED <<fileVars, allowVars, attemptVars, pending, shown, now, overtaken, lost, broken>>

\* The file is not created here; without it the call fails.
ApproveNoFile(p) ==
    /\ At(p, "approve") /\ ~exists
    /\ Goto(p, Idle)
    /\ UNCHANGED <<fileVars, allowVars, attemptVars, askVars, now, calls, overtaken, lost, broken>>

NewFailure == [no |-> Cardinality(failures), at |-> now]

\* The request with the code is taken out, or the attempt has failed and is to
\* be recorded.
TakeOut(p, live, matches) ==
    \/ \E r \in matches :
        /\ Hold(p, r.id, live \ {r})
        /\ pending' = pending \ {r}
        /\ overtaken' = (overtaken \/ Rewriting)
        /\ UNCHANGED failures
    \/ /\ matches = {}
       /\ failures' = failures \cup {NewFailure}
       /\ Goto(p, Doing("record", None, None, {NewFailure}))
       /\ UNCHANGED <<lock, file, pending, overtaken>>

\* Mutant: a request is taken for the one with the code.
ApproveAny(p) ==
    /\ At(p, "approve") /\ exists /\ lock = None
    /\ TakeOut(p, Live(file), Live(file))
    /\ UNCHANGED <<exists, allowVars, attempts, attemptsLock, shown, tried, now, calls, lost, broken>>

\* A file that cannot be read has no request with the code.
ApproveLock(p) ==
    /\ At(p, "approve") /\ exists /\ lock = None
    /\ \E read \in Reads(file) :
          TakeOut(p, Live(read), {r \in Live(read) : r.code = call[p].code})
    /\ UNCHANGED <<exists, allowVars, attempts, attemptsLock, shown, tried, now, calls, lost, broken>>

\* add_allow_from cuts the file as it opens it, ...
AllowOpen(p) ==
    /\ At(p, "allow")
    /\ allow' = {} /\ recent' = {}
    /\ Goto(p, [call[p] EXCEPT !.at = "allowlock"])
    /\ UNCHANGED <<fileVars, allowLock, approved, attemptVars, askVars, now, calls, overtaken, lost, broken>>

\* ... reads it under the lock, and is done if the sender is on it, ...
AllowKnown(p) ==
    /\ At(p, "allowlock") /\ allowLock = None
    /\ call[p].id \in allow
    /\ approved' = approved \cup {call[p].id} /\ recent' = recent \cup {call[p].id}
    /\ Goto(p, Idle)
    /\ UNCHANGED <<fileVars, allow, allowLock, attemptVars, askVars, now, calls, overtaken, lost, broken>>

\* ... or writes it with the sender, alone if it could not be read.
AllowAdd(p) ==
    /\ At(p, "allowlock") /\ allowLock = None
    /\ \E read \in Reads(allow) :
          /\ call[p].id \notin read
          /\ recent' = recent \ (allow \ read)
          /\ Goto(p, Doing("allowwrite", call[p].id, None, read \cup {call[p].id}))
          /\ Misread("allow", allow, read)
    /\ allowLock' = p /\ allow' = {}
    /\ UNCHANGED <<fileVars, approved, attemptVars, askVars, now, calls, overtaken, lost>>

AllowWrite(p) ==
    /\ At(p, "allowwrite")
    /\ allow' = call[p].keep /\ allowLock' = None
    /\ approved' = approved \cup {call[p].id} /\ recent' = recent \cup {call[p].id}
    /\ Goto(p, Idle)
    /\ UNCHANGED <<fileVars, attemptVars, askVars, now, calls, overtaken, lost, broken>>

\* The attempt counts from when it is recorded; the file is written with it and
\* without the attempts that left the window.
RecordInto(p, f, read) ==
    LET new == [f EXCEPT !.at = now] IN
    /\ attemptsLock' = p /\ attempts' = {}
    /\ failures' = (failures \ {f}) \cup {new}
    /\ lost' = lost \cup (attempts \ read)
    /\ Goto(p, Doing("recordwrite", None, None, InWindow(read \cup {new})))
    /\ Misread("attempts", attempts, read)

\* Mutant: the lock is not waited for.
RecordUnlocked(p) ==
    /\ At(p, "record")
    /\ \E f \in call[p].keep, read \in Reads(attempts) : RecordInto(p, f, read)
    /\ UNCHANGED <<fileVars, allowVars, askVars, now, calls, overtaken>>

\* record_failed_approve reads the file under its lock.
RecordLock(p) ==
    /\ At(p, "record") /\ attemptsLock = None
    /\ \E f \in call[p].keep, read \in Reads(attempts) : RecordInto(p, f, read)
    /\ UNCHANGED <<fileVars, allowVars, askVars, now, calls, overtaken>>

RecordWrite(p) ==
    /\ At(p, "recordwrite")
    /\ attempts' = call[p].keep /\ attemptsLock' = None
    /\ Goto(p, Idle)
    /\ UNCHANGED <<fileVars, allowVars, failures, askVars, now, calls, overtaken, lost, broken>>

-----------------------------------------------------------------------------
(* Failures and time. *)

Released(holder, p) == IF holder = p THEN None ELSE holder

\* The files a caller has cut and not written.
CutBy(p) == {f \in Files :
    \/ f = "pending" /\ (At(p, "relock") \/ At(p, "writing"))
    \/ f = "allow" /\ (At(p, "allowlock") \/ At(p, "allowwrite"))
    \/ f = "attempts" /\ At(p, "recordwrite")}

\* What goes with it: the requests that are not in the file, unless another
\* caller is about to write it, and the failed attempts it was to write.
LostBy(p) ==
    (IF "pending" \in CutBy(p) /\ lock \in {p, None} THEN pending \ file ELSE {})
        \cup (IF At(p, "record") \/ At(p, "recordwrite") THEN call[p].keep ELSE {})

\* A file operation fails and the call returns its error, or the process ends:
\* closing the file gives its lock back, and what was cut stays cut.
Fail(p) ==
    /\ ~At(p, "idle")
    /\ Goto(p, Idle)
    /\ lock' = Released(lock, p)
    /\ allowLock' = Released(allowLock, p)
    /\ attemptsLock' = Released(attemptsLock, p)
    /\ recent' = IF At(p, "allowwrite") THEN {} ELSE recent
    /\ lost' = lost \cup LostBy(p)
    /\ overtaken' = (overtaken \/ ("pending" \in CutBy(p) /\ \E q \in Callers \ {p} : At(q, "rewrite") \/ At(q, "relock")))
    /\ broken' = broken \cup CutBy(p)
    /\ UNCHANGED <<exists, file, allow, approved, attempts, failures, askVars, now, calls>>

Tick ==
    /\ now < MaxTime
    /\ now' = now + 1
    /\ UNCHANGED <<fileVars, allowVars, attemptVars, askVars, call, calls, overtaken, lost, broken>>

-----------------------------------------------------------------------------
Init ==
    /\ exists = FALSE /\ file = {} /\ lock = None
    /\ allow = {} /\ allowLock = None
    /\ attempts = {} /\ attemptsLock = None
    /\ now = 0
    /\ call = [p \in Callers |-> Idle] /\ calls = 0
    /\ pending = {} /\ shown = {} /\ tried = {}
    /\ approved = {} /\ recent = {}
    /\ failures = {} /\ lost = {}
    /\ overtaken = FALSE /\ broken = {}

\* The steps of a call that has started.
Proceed(p) ==
    \/ Write(p) \/ ListOpen(p) \/ ListLock(p) \/ Upsert(p)
    \/ ApproveNoFile(p) \/ ApproveLock(p)
    \/ AllowOpen(p) \/ AllowKnown(p) \/ AllowAdd(p) \/ AllowWrite(p)
    \/ RecordLock(p) \/ RecordWrite(p)

Next ==
    \/ Tick
    \/ \E p \in Callers : Proceed(p) \/ ListPending(p) \/ Fail(p)
    \/ \E p \in Callers, s \in Senders : Message(p, s)
    \/ \E p \in Callers, c \in Codes : Approve(p, c)

Spec == Init /\ [][Next]_vars

\* A caller that can go on does so, and the system gives a free lock to one
\* that waits for it.
FairSpec == Spec /\ \A p \in Callers : WF_vars(Proceed(p))

-----------------------------------------------------------------------------
(* Properties. *)

\* The types, and who holds which lock.
TypeOK ==
    /\ exists \in BOOLEAN /\ file \subseteq Request
    /\ allow \subseteq Senders /\ attempts \subseteq Failure
    /\ now \in 0..MaxTime /\ calls \in 0..MaxCalls
    /\ DOMAIN call = Callers
    /\ \A p \in Callers :
        /\ call[p].at \in Stages
        /\ lock = p <=> At(p, "writing")
        /\ allowLock = p <=> At(p, "allowwrite")
        /\ attemptsLock = p <=> At(p, "recordwrite")
    /\ {lock, allowLock, attemptsLock} \subseteq Callers \cup {None}
    /\ pending \subseteq Request /\ shown \subseteq Senders \X Codes
    /\ tried \subseteq Codes /\ approved \subseteq Senders /\ recent \subseteq Senders
    /\ failures \subseteq Failure /\ lost \subseteq Request \cup Failure
    /\ overtaken \in BOOLEAN /\ broken \subseteq Files

WellFormed(requests) ==
    /\ Cardinality(requests) <= PendingMax
    /\ \A r, q \in requests : r # q => r.id # q.id /\ r.code # q.code

\* Whatever calls race and whatever a list writes back, the file never holds
\* more than PAIRING_PENDING_MAX requests, two of one sender or one code twice.
FileIsWellFormed == WellFormed(file)

\* "Only approved senders can message the agent": whoever is on the list of
\* those let in was given a code that the operator approved.
OnlyApproved == \A s \in allow : \E c \in tried : <<s, c>> \in shown

\* The lock keeps calls from undoing each other: unless a list that was read
\* without it is written back over a later change, the file holds, whenever it
\* is not being written, the requests that were made, have not expired and have
\* not been approved, and no others.  Failures take away what they lose, a file
\* that was cut or could not be read and was written over, and nothing later.
FileIsExact ==
    /\ ~overtaken
    /\ \A p \in Callers : ~At(p, "writing") /\ ~At(p, "relock")
    => Live(file) = Live(pending \ lost)

\* Its lock keeps approvals from losing each other's senders: all that were let
\* in since the list was last cut, on opening or by a write that failed, or not
\* read, are on it, whenever it is not being written.
RecentAreAllowed == allowLock = None => recent \subseteq allow

\* Failed attempts that are about to be recorded.
Unrecorded == UNION {call[p].keep : p \in {q \in Callers : At(q, "record")}}

\* The comment of record_failed_approve, "concurrent callers don't clobber each
\* other's writes": every failed attempt counts for as long as the window says,
\* but for those that could not be recorded, and those in a file that could not
\* be read and was written over.
FailuresAreCounted ==
    attemptsLock = None => InWindow(attempts) = InWindow(failures \ (lost \cup Unrecorded))

\* Calls take one lock at a time and give it back, so each of them returns.
CallsReturn == \A p \in Callers : ~At(p, "idle") ~> At(p, "idle")

AtRest == broken = {} /\ \A p \in Callers : At(p, "idle")

\* The pairing flow of the tests, "List pending shows the request" until it is
\* approved and "Pending list is empty" then: when no call is under way, the
\* file holds the requests that wait for approval.  TLC refutes this: a list
\* that drops what expired undoes the calls since it was read.
RequestsAreListed == AtRest => Live(file) = Live(pending)

\* The documented flow, "User is added to the allow list; future messages are
\* delivered": when no call is under way, all who were approved are on it.
ApprovedStaysAllowed == AtRest => approved \subseteq allow

=============================================================================
