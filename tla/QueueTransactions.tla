------------------------- MODULE QueueTransactions -------------------------
(***************************************************************************)
(* The statements of the message queue as PostgreSQL runs them: READ        *)
(* COMMITTED transactions that lock rows one by one.                        *)
(*                                                                         *)
(* A statement visits the rows its snapshot selected, in no given order.   *)
(* It takes the lock of a row, looks at the row's latest version again, and *)
(* writes it only if the row still qualifies.  A lock is held to the end of *)
(* the transaction.  A claim skips the rows somebody else has locked; every *)
(* other statement waits for them, so two of them can wait for each other,  *)
(* and the database then aborts one.  MessageQueue takes each of these      *)
(* transactions in one step; this module shows what that step relies on.    *)
(***************************************************************************)
EXTENDS Naturals, FiniteSets

CONSTANTS
  Ids,            (* message ids                                           *)
  Devices,        (* phones of one account                                 *)
  Tx,             (* database sessions                                     *)
  Ops,            (* bound of the model: the operations that are requested *)
  MaxAttempts,    (* Message.max_attempts                                  *)
  NoTx, NoDevice, NoId,
  Unwritten       (* draft of a row its locker left as it was              *)

ASSUME QueueTransactionsAssumption ==
  /\ Ops \subseteq {"claim", "ack", "delivered", "failed", "cancel", "delete", "requeue"}
  /\ MaxAttempts \in Nat \ {0}
  /\ NoTx \notin Tx
  /\ NoDevice \notin Devices
  /\ NoId \notin Ids

VARIABLES
  rows,      (* the committed version of each row                          *)
  draft,     (* the uncommitted version its locker wrote, or Unwritten     *)
  locker,    (* the transaction that holds the lock of each row            *)
  request,   (* what each session executes                                 *)
  todo,      (* rows the running statement still has to visit              *)
  waits,     (* the row a session waits for                                *)
  phase,     (* where each session is                                      *)
  handed     (* the messages that claims' answers gave to each phone       *)

txVars == <<draft, locker, request, todo, waits, phase>>
vars == <<rows, txVars, handed>>

\* A scheduled row is one whose time has come.  expired says whether the lease
\* of a row in sending has run out.
Row == [status: {"new", "scheduled", "queued", "sending", "sent", "delivered",
                 "failed", "canceled", "deleted"},
        device: Devices \cup {NoDevice}, attempts: 0..MaxAttempts, expired: BOOLEAN]

Subsets == SUBSET Ids \ {{}}
Requests ==
  [op: {"claim"}, ids: {Ids}, device: Devices, limit: 1..Cardinality(Ids)]
    \cup [op: {"ack", "cancel", "delete"}, ids: Subsets]
    \cup [op: {"delivered", "failed"}, ids: {{m} : m \in Ids}]
    \cup [op: {"requeue", "promote"}, ids: {Ids}]
Idle == [op |-> "idle"]

-----------------------------------------------------------------------------
(* The statements: which rows, and what is written.                        *)

\* Mutant: the claim takes the messages of every device of the account.
ClaimableByAny(r, row) == row.status = "queued"
Claimable(r, row) == row.status = "queued" /\ row.device \in {r.device, NoDevice}

Requeued(row) == IF row.attempts >= MaxAttempts THEN "failed" ELSE "queued"

\* The WHERE clause.
Wanted(r, row) ==
  CASE r.op = "claim" -> Claimable(r, row)
    [] r.op = "ack" -> row.status = "sending"
    [] r.op \in {"delivered", "failed", "delete"} -> row.status \notin {"new", "deleted"}
    [] r.op = "cancel" -> row.status \in {"queued", "scheduled"}
    [] r.op = "requeue" -> row.status = "sending" /\ row.expired
    [] r.op = "promote" -> row.status = "scheduled"

\* The SET clause.  A delete leaves nothing of the row.
Written(r, row) ==
  CASE r.op = "claim" -> [row EXCEPT !.status = "sending", !.device = r.device,
                                     !.attempts = @ + 1, !.expired = FALSE]
    [] r.op = "ack" -> [row EXCEPT !.status = "sent", !.expired = FALSE]
    [] r.op \in {"delivered", "failed"} -> [row EXCEPT !.status = r.op, !.expired = FALSE]
    [] r.op = "cancel" -> [row EXCEPT !.status = "canceled", !.expired = FALSE]
    [] r.op = "delete" -> [status |-> "deleted", device |-> NoDevice,
                           attempts |-> 0, expired |-> FALSE]
    [] r.op = "requeue" -> [row EXCEPT !.status = Requeued(row), !.expired = FALSE]
    [] r.op = "promote" -> [row EXCEPT !.status = "queued"]

\* FOR UPDATE SKIP LOCKED.
SkipsLocked(r) == r.op = "claim"

-----------------------------------------------------------------------------
(* Running a statement.                                                    *)

\* What transaction t sees of row m: its own version, or the committed one.
Seen(t, m) == IF locker[m] = t /\ draft[m] # Unwritten THEN draft[m] ELSE rows[m]

Selected(t, r) == {m \in r.ids : Wanted(r, Seen(t, m))}

Wrote(t) == {m \in Ids : locker[m] = t /\ draft[m] # Unwritten}

Full(t) == request[t].op = "claim" /\ Cardinality(Wrote(t)) = request[t].limit

Free(t, m) == locker[m] \in {t, NoTx}

\* A session sends the first statement of a request.  The reaper's transaction
\* starts with the requeue; the promotion follows in the same transaction.
Begin(t, r) ==
  /\ phase[t] = "idle"
  /\ r.op # "promote"
  /\ request' = [request EXCEPT ![t] = r]
  /\ todo' = [todo EXCEPT ![t] = Selected(t, r)]
  /\ phase' = [phase EXCEPT ![t] = "running"]
  /\ UNCHANGED <<rows, draft, locker, waits, handed>>

\* Lock a row and write it if its latest version still qualifies.
Visit(t, m) ==
  /\ phase[t] = "running" /\ m \in todo[t] /\ ~Full(t)
  /\ waits[t] \in {NoId, m}
  /\ Free(t, m)
  /\ locker' = [locker EXCEPT ![m] = t]
  /\ draft' = [draft EXCEPT ![m] = IF Wanted(request[t], Seen(t, m))
                                   THEN Written(request[t], Seen(t, m)) ELSE @]
  /\ todo' = [todo EXCEPT ![t] = @ \ {m}]
  /\ waits' = [waits EXCEPT ![t] = NoId]
  /\ UNCHANGED <<rows, request, phase, handed>>

Skip(t, m) ==
  /\ phase[t] = "running" /\ m \in todo[t]
  /\ SkipsLocked(request[t])
  /\ ~Free(t, m)
  /\ todo' = [todo EXCEPT ![t] = @ \ {m}]
  /\ UNCHANGED <<rows, draft, locker, request, waits, phase, handed>>

Wait(t, m) ==
  /\ phase[t] = "running" /\ m \in todo[t] /\ waits[t] = NoId /\ ~Full(t)
  /\ ~SkipsLocked(request[t])
  /\ ~Free(t, m)
  /\ waits' = [waits EXCEPT ![t] = m]
  /\ UNCHANGED <<rows, draft, locker, request, todo, phase, handed>>

\* The statement is through.  After the requeue comes the promotion, on a
\* snapshot of its own.
Through(t) == phase[t] = "running" /\ (todo[t] = {} \/ Full(t))

NextStatement(t) ==
  /\ Through(t) /\ request[t].op = "requeue"
  /\ request' = [request EXCEPT ![t].op = "promote"]
  /\ todo' = [todo EXCEPT ![t] = Selected(t, [op |-> "promote", ids |-> Ids])]
  /\ UNCHANGED <<rows, draft, locker, waits, phase, handed>>

Flushed(t) ==
  /\ Through(t) /\ request[t].op # "requeue"
  /\ todo' = [todo EXCEPT ![t] = {}]
  /\ phase' = [phase EXCEPT ![t] = "flushed"]
  /\ UNCHANGED <<rows, draft, locker, request, waits, handed>>

-----------------------------------------------------------------------------
(* The end of the request.                                                 *)

\* The messages that the answer of transaction t gives to its phone.
Handover(t) ==
  IF request[t].op # "claim" THEN handed
  ELSE [handed EXCEPT ![request[t].device] = @ \cup Wrote(t)]

\* The session returns to the pool without its locks.
Release(t) ==
  /\ draft' = [m \in Ids |-> IF locker[m] = t THEN Unwritten ELSE draft[m]]
  /\ locker' = [m \in Ids |-> IF locker[m] = t THEN NoTx ELSE locker[m]]
  /\ request' = [request EXCEPT ![t] = Idle]
  /\ todo' = [todo EXCEPT ![t] = {}]
  /\ waits' = [waits EXCEPT ![t] = NoId]
  /\ phase' = [phase EXCEPT ![t] = "idle"]

\* The session is a dependency with yield, committed when it is closed.  The
\* model takes the answer after the commit; framework versions that close the
\* dependency after the response are left out.
Commit(t) ==
  /\ phase[t] = "flushed"
  /\ rows' = [m \in Ids |-> IF m \in Wrote(t) THEN draft[m] ELSE rows[m]]
  /\ handed' = Handover(t)
  /\ Release(t)

\* Mutant: a cancelled request is not rolled back (except Exception does not
\* catch CancelledError) and its connection keeps its locks.
RollbackForgets(t) ==
  /\ phase[t] # "idle"
  /\ request' = [request EXCEPT ![t] = Idle]
  /\ todo' = [todo EXCEPT ![t] = {}]
  /\ waits' = [waits EXCEPT ![t] = NoId]
  /\ phase' = [phase EXCEPT ![t] = "idle"]
  /\ UNCHANGED <<rows, draft, locker, handed>>

\* An error, a client that hangs up, a lost connection or a crash.
Rollback(t) ==
  /\ phase[t] # "idle"
  /\ Release(t)
  /\ UNCHANGED <<rows, handed>>

\* A session that waits for itself through others.
Deadlocked(t) ==
  \E S \in SUBSET Tx :
    /\ t \in S
    /\ \A s \in S : waits[s] # NoId /\ locker[waits[s]] \in S
    /\ \A s \in S : \E r \in S : waits[r] # NoId /\ locker[waits[r]] = s

\* The database aborts a session of the cycle; the request fails.
BreakDeadlock(t) == Deadlocked(t) /\ Rollback(t)

-----------------------------------------------------------------------------
(* Outside the transactions.                                               *)

\* A row is inserted; nobody can see it, let alone lock it, before.
Insert(m, dev, status) ==
  /\ rows[m].status = "new"
  /\ rows' = [rows EXCEPT ![m].device = dev, ![m].status = status]
  /\ UNCHANGED <<txVars, handed>>

LeaseExpires(m) ==
  /\ rows[m].status = "sending" /\ ~rows[m].expired
  /\ rows' = [rows EXCEPT ![m].expired = TRUE]
  /\ UNCHANGED <<txVars, handed>>

Init ==
  /\ rows = [m \in Ids |-> [status |-> "new", device |-> NoDevice,
                            attempts |-> 0, expired |-> FALSE]]
  /\ draft = [m \in Ids |-> Unwritten]
  /\ locker = [m \in Ids |-> NoTx]
  /\ request = [t \in Tx |-> Idle]
  /\ todo = [t \in Tx |-> {}]
  /\ waits = [t \in Tx |-> NoId]
  /\ phase = [t \in Tx |-> "idle"]
  /\ handed = [d \in Devices |-> {}]

\* What a session does by itself, once it has begun.
Proceed(t) ==
  \/ \E m \in Ids : Visit(t, m) \/ Skip(t, m) \/ Wait(t, m)
  \/ NextStatement(t) \/ Flushed(t) \/ Commit(t)

Next ==
  \/ \E t \in Tx : \/ \E r \in {q \in Requests : q.op \in Ops} : Begin(t, r)
                   \/ Proceed(t)
                   \/ Rollback(t)
                   \/ BreakDeadlock(t)
  \/ \E m \in Ids : \/ LeaseExpires(m)
                    \/ \E dev \in Devices \cup {NoDevice}, s \in {"queued", "scheduled"} :
                         Insert(m, dev, s)

Spec == Init /\ [][Next]_vars

\* A session that can go on does; the database looks for deadlocks and queues
\* the sessions that wait for a row, so none of them is passed over for ever.
Fairness ==
  \A t \in Tx :
    /\ WF_vars(Proceed(t)) /\ WF_vars(BreakDeadlock(t))
    /\ SF_vars(\E m \in Ids : waits[t] = m /\ Visit(t, m))

FairSpec == Spec /\ Fairness

-----------------------------------------------------------------------------
(* What the transactions promise.                                          *)

\* The committed rows, step by step, live as MessageLifecycle says, although
\* statements select on a snapshot, wait, and write later versions.
Stage(m) ==
  CASE rows[m].status = "new" -> "new"
    [] rows[m].status \in {"scheduled", "queued"} -> "waiting"
    [] rows[m].status = "sending" -> "leased"
    [] rows[m].status = "deleted" -> "gone"
    [] OTHER -> "closed"

Lifecycle == INSTANCE MessageLifecycle WITH
  Messages <- Ids,
  Phones <- Devices,
  NoPhone <- NoDevice,
  MaxTries <- MaxAttempts,
  stage <- [m \in Ids |-> Stage(m)],
  tries <- [m \in Ids |-> rows[m].attempts],
  phone <- [m \in Ids |-> rows[m].device],
  holders <- [m \in Ids |-> {d \in Devices : m \in handed[d]}]

CommitsImplementLifecycle == Lifecycle!LifeSpec

\* Whoever waits for whom, and whatever fails, every request comes to its end
\* and gives its connection back.
RequestsEnd == \A t \in Tx : phase[t] # "idle" ~> phase[t] = "idle"
=============================================================================
