---------------------- MODULE QueueTransactionsProofs ----------------------
(***************************************************************************)
(* The committed rows live as MessageLifecycle says, for any number of      *)
(* sessions, phones and messages.                                          *)
(*                                                                         *)
(* The step of the lifecycle is taken when a transaction commits, but its   *)
(* guard was read when the row was visited, and statements of others have   *)
(* committed in between.  The argument is that the guard still holds: from  *)
(* the visit to the commit the row is locked, and all that can happen to    *)
(* the committed version of a locked row is the end of its lease, which no  *)
(* draft depends on.  So a draft remains a move of the committed version.   *)
(***************************************************************************)
EXTENDS QueueTransactions, TLAPS

Live(row) == row.status \notin {"new", "deleted"}

Settled == {"sent", "delivered", "failed", "canceled"}

\* A claim for phone d makes b of version a.
Takes(d, a, b) ==
  /\ a.status = "queued" /\ a.device \in {d, NoDevice}
  /\ b.status = "sending" /\ b.device = d /\ b.attempts = a.attempts + 1

\* Any other statement makes b of version a.
Changes(a, b) ==
  \/ /\ Live(a)
     /\ b.status = "deleted" /\ b.device = NoDevice /\ b.attempts = 0
  \/ /\ b.device = a.device /\ b.attempts = a.attempts
     /\ \/ Live(a) /\ b.status \in Settled
        \/ a.status = "scheduled" /\ b.status = "queued"
        \/ a.status = "sending" /\ a.attempts < MaxAttempts /\ b.status = "queued"

Makes(r, a, b) == IF r.op = "claim" THEN Takes(r.device, a, b) ELSE Changes(a, b)

-----------------------------------------------------------------------------
(* The inductive invariant.                                                *)

Statements ==
  {"claim", "ack", "cancel", "delete", "delivered", "failed", "requeue", "promote"}

Shape ==
  /\ rows \in [Ids -> Row]
  /\ DOMAIN draft = Ids
  /\ locker \in [Ids -> Tx \cup {NoTx}]
  /\ DOMAIN request = Tx
  /\ \A t \in Tx : phase[t] # "idle" => request[t] \in Requests
  /\ todo \in [Tx -> SUBSET Ids]
  /\ phase \in [Tx -> {"idle", "running", "flushed"}]
  /\ handed \in [Devices -> SUBSET Ids]

Drafted(t, m) == locker[m] = t /\ draft[m] # Unwritten

\* A row without a lock has no draft.
UnlockedIsUnwritten == \A m \in Ids : locker[m] = NoTx => draft[m] = Unwritten

\* A session without a request holds no lock.
IdleHoldsNothing == \A t \in Tx, m \in Ids : phase[t] = "idle" => locker[m] # t

\* The rows a transaction's first statement has yet to visit are not its own.
FirstVisit ==
  \A t \in Tx, m \in Ids :
    phase[t] = "running" /\ request[t].op # "promote" /\ m \in todo[t] => locker[m] # t

\* A draft is still a move of the committed version.
DraftIsCurrent ==
  \A t \in Tx, m \in Ids :
    Drafted(t, m) => draft[m] \in Row /\ Makes(request[t], rows[m], draft[m])

\* A row that can be claimed has attempts left, and only the phone it is
\* addressed to was ever given it.
RowsAreFit ==
  \A m \in Ids :
    /\ rows[m].status = "new" => rows[m].attempts = 0 /\ rows[m].device = NoDevice
    /\ rows[m].status \in {"scheduled", "queued"} => rows[m].attempts < MaxAttempts
    /\ \A d \in Devices : m \in handed[d] => rows[m].device = d \/ rows[m].status = "deleted"

Inv ==
  /\ Shape
  /\ UnlockedIsUnwritten
  /\ IdleHoldsNothing
  /\ FirstVisit
  /\ DraftIsCurrent
  /\ RowsAreFit

-----------------------------------------------------------------------------
(* The statements.                                                         *)

LEMMA RequestFields ==
  ASSUME NEW r \in Requests
  PROVE  /\ r.op \in Statements
         /\ r.ids \subseteq Ids
         /\ r.op = "claim" => r.device \in Devices
BY DEF Requests, Statements, Subsets

\* What a statement writes of a row it wants is a move of that row.
LEMMA WrittenIsMove ==
  ASSUME NEW r \in Requests, NEW row \in Row, Wanted(r, row),
         row.status \in {"scheduled", "queued"} => row.attempts < MaxAttempts
  PROVE  Written(r, row) \in Row /\ Makes(r, row, Written(r, row))
<1> USE QueueTransactionsAssumption
<1>1. r.op \in Statements /\ (r.op = "claim" => r.device \in Devices)
  BY RequestFields
<1>2. CASE r.op = "claim"
  <2>1. Claimable(r, row) /\ r.device \in Devices
    BY <1>1, <1>2 DEF Wanted
  <2>2. Written(r, row) = [row EXCEPT !.status = "sending", !.device = r.device,
                                      !.attempts = @ + 1, !.expired = FALSE]
    BY <1>2 DEF Written
  <2>3. row.status = "queued" /\ row.attempts \in 0..MaxAttempts - 1
    BY <2>1 DEF Claimable, Row
  <2>4. row.attempts + 1 \in 0..MaxAttempts
    BY <2>3
  <2>5. /\ Written(r, row) \in Row
        /\ Written(r, row).status = "sending"
        /\ Written(r, row).device = r.device
        /\ Written(r, row).attempts = row.attempts + 1
    BY <2>1, <2>2, <2>4 DEF Row
  <2> QED
    BY <1>2, <2>1, <2>5 DEF Claimable, Makes, Takes
<1>3. CASE r.op = "delete"
  <2>1. Live(row)
    BY <1>3 DEF Wanted, Live
  <2>2. Written(r, row) = [status |-> "deleted", device |-> NoDevice,
                           attempts |-> 0, expired |-> FALSE]
    BY <1>3 DEF Written
  <2> QED
    BY <1>3, <2>1, <2>2 DEF Makes, Changes, Row
<1>4. CASE r.op \in {"ack", "cancel", "delivered", "failed"}
  <2>1. Live(row)
    BY <1>4 DEF Wanted, Live
  <2>2. PICK s \in Settled : Written(r, row) = [row EXCEPT !.status = s, !.expired = FALSE]
    BY <1>4 DEF Written, Settled
  <2>3. /\ Written(r, row) \in Row
        /\ Written(r, row).status = s
        /\ Written(r, row).device = row.device
        /\ Written(r, row).attempts = row.attempts
    BY <2>2 DEF Row, Settled
  <2> QED
    BY <1>4, <2>1, <2>3 DEF Makes, Changes
<1>5. CASE r.op = "requeue"
  <2>1. row.status = "sending"
    BY <1>5 DEF Wanted
  <2>2. Written(r, row) = [row EXCEPT !.status = Requeued(row), !.expired = FALSE]
    BY <1>5 DEF Written
  <2>3. /\ Written(r, row) \in Row
        /\ Written(r, row).status = Requeued(row)
        /\ Written(r, row).device = row.device
        /\ Written(r, row).attempts = row.attempts
    BY <2>2 DEF Row, Requeued
  <2>4. Requeued(row) = "failed" \/ (Requeued(row) = "queued" /\ row.attempts < MaxAttempts)
    BY DEF Requeued, Row
  <2> QED
    BY <1>5, <2>1, <2>3, <2>4 DEF Makes, Changes, Live, Settled
<1>6. CASE r.op = "promote"
  <2>1. row.status = "scheduled"
    BY <1>6 DEF Wanted
  <2>2. Written(r, row) = [row EXCEPT !.status = "queued"]
    BY <1>6 DEF Written
  <2> QED
    BY <1>6, <2>1, <2>2 DEF Makes, Changes, Row
<1> QED
  BY <1>1, <1>2, <1>3, <1>4, <1>5, <1>6 DEF Statements

\* A statement writes only rows that its transaction has not written before:
\* the promotion finds nothing to promote in what the requeue wrote.
LEMMA SeenIsCommitted ==
  ASSUME Inv, NEW t \in Tx, NEW m \in todo[t], phase[t] = "running",
         Wanted(request[t], Seen(t, m))
  PROVE  Seen(t, m) = rows[m]
<1>1. m \in Ids /\ request[t] \in Requests
  BY DEF Inv, Shape
<1>2. CASE request[t].op # "promote"
  <2>1. locker[m] # t
    BY <1>1, <1>2 DEF Inv, FirstVisit
  <2> QED
    BY <2>1 DEF Seen
<1>3. CASE request[t].op = "promote" /\ Drafted(t, m)
  <2>1. Changes(rows[m], draft[m])
    BY <1>1, <1>3 DEF Inv, DraftIsCurrent, Makes
  <2>2. draft[m].status # "scheduled"
    BY <2>1 DEF Changes, Settled
  <2>3. Seen(t, m) = draft[m]
    BY <1>3 DEF Seen, Drafted
  <2> QED
    BY <1>3, <2>2, <2>3 DEF Wanted
<1>4. CASE ~Drafted(t, m)
  BY <1>4 DEF Seen, Drafted
<1> QED
  BY <1>2, <1>3, <1>4

-----------------------------------------------------------------------------
(* The invariant is kept.                                                  *)

LEMMA InitInv == Init => Inv
<1> SUFFICES ASSUME Init PROVE Inv
  OBVIOUS
<1> USE QueueTransactionsAssumption DEF Init
<1>1. Shape
  BY DEF Shape, Row
<1>2. UnlockedIsUnwritten /\ IdleHoldsNothing /\ FirstVisit /\ RowsAreFit
  BY DEF UnlockedIsUnwritten, IdleHoldsNothing, FirstVisit, RowsAreFit
<1>3. DraftIsCurrent
  BY DEF DraftIsCurrent, Drafted
<1> QED
  BY <1>1, <1>2, <1>3 DEF Inv

LEMMA BeginKeeps ==
  ASSUME Inv, NEW t \in Tx, NEW r \in Requests, Begin(t, r)
  PROVE  Inv'
<1> USE DEF Inv, Begin
<1>1. Selected(t, r) \subseteq Ids
  BY RequestFields DEF Selected
<1>2. Shape'
  BY <1>1 DEF Shape
<1>3. \A m \in Ids : locker[m] # t
  BY DEF IdleHoldsNothing
<1>4. UnlockedIsUnwritten' /\ RowsAreFit'
  BY DEF UnlockedIsUnwritten, RowsAreFit
<1>5. IdleHoldsNothing' /\ FirstVisit'
  BY <1>3 DEF IdleHoldsNothing, FirstVisit, Shape
<1>6. DraftIsCurrent'
  <2> SUFFICES ASSUME NEW s \in Tx, NEW m \in Ids, Drafted(s, m)'
               PROVE  draft[m] \in Row /\ Makes(request'[s], rows[m], draft[m])
    BY DEF DraftIsCurrent
  <2>1. Drafted(s, m) /\ request'[s] = request[s]
    BY <1>3 DEF Drafted, Shape
  <2> QED
    BY <2>1 DEF DraftIsCurrent
<1> QED
  BY <1>2, <1>4, <1>5, <1>6

LEMMA VisitKeeps ==
  ASSUME Inv, NEW t \in Tx, NEW m \in Ids, Visit(t, m)
  PROVE  Inv'
<1> USE DEF Inv, Visit
<1> DEFINE r == request[t]
           w == Wanted(r, Seen(t, m))
<1>1. r \in Requests /\ rows[m] \in Row /\ t # NoTx
  BY QueueTransactionsAssumption DEF Shape
<1>2. /\ locker'[m] = t
      /\ \A n \in Ids : n # m => locker'[n] = locker[n] /\ draft'[n] = draft[n]
      /\ todo'[t] = todo[t] \ {m}
      /\ \A s \in Tx : s # t => todo'[s] = todo[s]
      /\ DOMAIN draft' = Ids /\ locker' \in [Ids -> Tx \cup {NoTx}]
      /\ todo' \in [Tx -> SUBSET Ids]
  BY DEF Shape
<1>3. /\ w => draft'[m] = Written(r, Seen(t, m))
      /\ ~w => draft'[m] = draft[m]
  BY DEF Shape
<1>4. Shape'
  BY <1>2 DEF Shape
<1>5. UnlockedIsUnwritten' /\ RowsAreFit' /\ IdleHoldsNothing'
  BY <1>1, <1>2 DEF UnlockedIsUnwritten, RowsAreFit, IdleHoldsNothing
<1>6. FirstVisit'
  BY <1>2 DEF FirstVisit
<1>7. ASSUME Drafted(t, m)'
      PROVE  draft'[m] \in Row /\ Makes(r, rows[m], draft'[m])
  <2>1. CASE w
    <3>1. Seen(t, m) = rows[m]
      BY <2>1, SeenIsCommitted
    <3>2. rows[m].status \in {"scheduled", "queued"} => rows[m].attempts < MaxAttempts
      BY DEF RowsAreFit
    <3> QED
      BY <1>1, <1>3, <2>1, <3>1, <3>2, WrittenIsMove
  <2>2. CASE ~w
    <3>1. locker[m] \in {t, NoTx} /\ draft'[m] = draft[m] /\ draft[m] # Unwritten
      BY <1>3, <1>7, <2>2 DEF Free, Drafted
    <3>2. Drafted(t, m)
      BY <3>1 DEF Drafted, UnlockedIsUnwritten
    <3> QED
      BY <3>1, <3>2 DEF DraftIsCurrent
  <2> QED
    BY <2>1, <2>2
<1>8. DraftIsCurrent'
  <2> SUFFICES ASSUME NEW s \in Tx, NEW n \in Ids, Drafted(s, n)'
               PROVE  draft'[n] \in Row /\ Makes(request[s], rows[n], draft'[n])
    BY DEF DraftIsCurrent
  <2>1. CASE n = m
    <3>1. s = t
      BY <1>2, <2>1 DEF Drafted
    <3> QED
      BY <1>7, <2>1, <3>1
  <2>2. CASE n # m
    BY <1>2, <2>2 DEF DraftIsCurrent, Drafted
  <2> QED
    BY <2>1, <2>2
<1> QED
  BY <1>4, <1>5, <1>6, <1>8

LEMMA PassOnKeeps ==
  ASSUME Inv, NEW t \in Tx, NEW m \in Ids, Skip(t, m) \/ Wait(t, m)
  PROVE  Inv'
<1>1. /\ UNCHANGED <<rows, draft, locker, request, phase, handed>>
      /\ todo' \in [Tx -> SUBSET Ids]
      /\ \A s \in Tx : todo'[s] \subseteq todo[s]
  BY DEF Skip, Wait, Inv, Shape
<1>2. Shape'
  BY <1>1 DEF Inv, Shape
<1>3. UnlockedIsUnwritten' /\ IdleHoldsNothing' /\ FirstVisit' /\ RowsAreFit'
  BY <1>1 DEF Inv, UnlockedIsUnwritten, IdleHoldsNothing, FirstVisit, RowsAreFit
<1>4. DraftIsCurrent'
  BY <1>1 DEF Inv, DraftIsCurrent, Drafted
<1> QED
  BY <1>2, <1>3, <1>4 DEF Inv

LEMMA NextStatementKeeps ==
  ASSUME Inv, NEW t \in Tx, NextStatement(t)
  PROVE  Inv'
<1> USE DEF Inv, NextStatement
<1>1. phase[t] = "running" /\ request[t] \in Requests /\ request[t].op = "requeue"
  BY DEF Through, Shape
<1>2. /\ request'[t] = [request[t] EXCEPT !.op = "promote"]
      /\ \A s \in Tx : s # t => request'[s] = request[s]
      /\ DOMAIN request' = Tx
  BY DEF Shape
<1>3. request'[t] \in Requests /\ request'[t].op = "promote"
  BY <1>1, <1>2 DEF Requests
<1>4. Selected(t, [op |-> "promote", ids |-> Ids]) \subseteq Ids
  BY DEF Selected
<1>5. Shape'
  BY <1>2, <1>3, <1>4 DEF Shape
<1>6. UnlockedIsUnwritten' /\ IdleHoldsNothing' /\ RowsAreFit'
  BY DEF UnlockedIsUnwritten, IdleHoldsNothing, RowsAreFit
<1>7. FirstVisit'
  BY <1>2, <1>3 DEF FirstVisit, Shape
<1>8. DraftIsCurrent'
  <2> SUFFICES ASSUME NEW s \in Tx, NEW m \in Ids, Drafted(s, m)
               PROVE  draft[m] \in Row /\ Makes(request'[s], rows[m], draft[m])
    BY DEF DraftIsCurrent, Drafted
  <2>1. draft[m] \in Row /\ Makes(request[s], rows[m], draft[m])
    BY DEF DraftIsCurrent
  <2> QED
    BY <1>1, <1>2, <1>3, <2>1 DEF Makes
<1> QED
  BY <1>5, <1>6, <1>7, <1>8

LEMMA FlushedKeeps ==
  ASSUME Inv, NEW t \in Tx, Flushed(t)
  PROVE  Inv'
<1> USE DEF Inv, Flushed
<1>1. Shape'
  BY DEF Shape, Through
<1>2. UnlockedIsUnwritten' /\ IdleHoldsNothing' /\ FirstVisit' /\ RowsAreFit'
  BY DEF Shape, UnlockedIsUnwritten, IdleHoldsNothing, FirstVisit, RowsAreFit
<1>3. DraftIsCurrent'
  BY DEF DraftIsCurrent, Drafted
<1> QED
  BY <1>1, <1>2, <1>3

\* The end of a request frees its rows and touches no other draft.
LEMMA ReleaseKeeps ==
  ASSUME Inv, NEW t \in Tx, Release(t), rows' \in [Ids -> Row],
         handed' \in [Devices -> SUBSET Ids], RowsAreFit',
         \A m \in Ids : ~Drafted(t, m) => rows'[m] = rows[m]
  PROVE  Inv'
<1> USE DEF Inv, Release
<1>1. Shape'
  BY DEF Shape
<1>2. UnlockedIsUnwritten'
  BY QueueTransactionsAssumption DEF UnlockedIsUnwritten
<1>3. IdleHoldsNothing'
  BY QueueTransactionsAssumption DEF IdleHoldsNothing, Shape
<1>4. FirstVisit'
  BY QueueTransactionsAssumption DEF FirstVisit, Shape
<1>5. DraftIsCurrent'
  <2> SUFFICES ASSUME NEW s \in Tx, NEW m \in Ids, Drafted(s, m)'
               PROVE  draft'[m] \in Row /\ Makes(request'[s], rows'[m], draft'[m])
    BY DEF DraftIsCurrent
  <2>1. /\ Drafted(s, m) /\ s # t /\ ~Drafted(t, m)
        /\ draft'[m] = draft[m] /\ request'[s] = request[s]
    BY QueueTransactionsAssumption DEF Drafted, Shape
  <2> QED
    BY <2>1 DEF DraftIsCurrent
<1> QED
  BY <1>1, <1>2, <1>3, <1>4, <1>5

LEMMA RollbackKeeps ==
  ASSUME Inv, NEW t \in Tx, Rollback(t)
  PROVE  Inv'
<1>1. UNCHANGED <<rows, handed>> /\ Release(t)
  BY DEF Rollback
<1>2. RowsAreFit'
  BY <1>1 DEF Inv, RowsAreFit
<1> QED
  BY <1>1, <1>2, ReleaseKeeps DEF Inv, Shape

\* A transaction commits its drafts, and a claim's answer hands over the rows
\* it claimed.
LEMMA CommitRows ==
  ASSUME Inv, NEW t \in Tx, Commit(t), NEW m \in Ids
  PROVE  /\ Drafted(t, m) => rows'[m] = draft[m] /\ draft[m] \in Row
                             /\ Makes(request[t], rows[m], rows'[m])
         /\ ~Drafted(t, m) => rows'[m] = rows[m]
         /\ \A d \in Devices :
              m \in handed'[d] <=> \/ m \in handed[d]
                                   \/ /\ Drafted(t, m) /\ request[t].op = "claim"
                                      /\ request[t].device = d
<1>1. m \in Wrote(t) <=> Drafted(t, m)
  BY DEF Wrote, Drafted
<1>2. rows'[m] = IF m \in Wrote(t) THEN draft[m] ELSE rows[m]
  BY DEF Commit
<1>3. Drafted(t, m) => draft[m] \in Row /\ Makes(request[t], rows[m], draft[m])
  BY DEF Inv, DraftIsCurrent
<1>4. request[t] \in Requests
  BY DEF Commit, Inv, Shape
<1>5. ASSUME NEW d \in Devices
      PROVE  m \in handed'[d] <=> \/ m \in handed[d]
                                  \/ /\ m \in Wrote(t) /\ request[t].op = "claim"
                                     /\ request[t].device = d
  BY <1>4, RequestFields DEF Commit, Handover, Inv, Shape
<1> QED
  BY <1>1, <1>2, <1>3, <1>5

LEMMA CommitKeeps ==
  ASSUME Inv, NEW t \in Tx, Commit(t)
  PROVE  Inv'
<1> USE QueueTransactionsAssumption
<1>1. request[t] \in Requests /\ Release(t)
  BY DEF Commit, Inv, Shape
<1>2. rows' \in [Ids -> Row]
  <2>1. \A m \in Ids : rows'[m] \in Row
    BY CommitRows DEF Inv, Shape
  <2>2. rows' = [m \in Ids |-> rows'[m]]
    BY DEF Commit
  <2> QED
    BY <2>1, <2>2
<1>3. handed' \in [Devices -> SUBSET Ids]
  <2>1. Wrote(t) \subseteq Ids
    BY DEF Wrote
  <2> QED
    BY <2>1 DEF Commit, Handover, Inv, Shape
<1>4. RowsAreFit'
  <2> SUFFICES ASSUME NEW m \in Ids
               PROVE  /\ rows'[m].status = "new" =>
                           rows'[m].attempts = 0 /\ rows'[m].device = NoDevice
                      /\ rows'[m].status \in {"scheduled", "queued"} =>
                           rows'[m].attempts < MaxAttempts
                      /\ \A d \in Devices :
                           m \in handed'[d] => rows'[m].device = d \/ rows'[m].status = "deleted"
    BY DEF RowsAreFit
  <2>1. /\ rows[m].status = "new" => rows[m].attempts = 0 /\ rows[m].device = NoDevice
        /\ rows[m].status \in {"scheduled", "queued"} => rows[m].attempts < MaxAttempts
        /\ \A d \in Devices :
             m \in handed[d] => rows[m].device = d \/ rows[m].status = "deleted"
    BY DEF Inv, RowsAreFit
  <2>2. CASE ~Drafted(t, m)
    BY <2>1, <2>2, CommitRows
  <2>3. CASE Drafted(t, m) /\ request[t].op = "claim"
    <3>1. request[t].device \in Devices /\ Takes(request[t].device, rows[m], rows'[m])
      BY <1>1, <2>3, CommitRows, RequestFields DEF Makes
    <3> QED
      BY <2>1, <2>3, <3>1, CommitRows DEF Takes
  <2>4. CASE Drafted(t, m) /\ request[t].op # "claim"
    <3>1. Changes(rows[m], rows'[m]) /\ \A d \in Devices : m \in handed'[d] <=> m \in handed[d]
      BY <2>4, CommitRows DEF Makes
    <3> QED
      BY <2>1, <3>1 DEF Changes, Live, Settled
  <2> QED
    BY <2>2, <2>3, <2>4
<1>5. \A m \in Ids : ~Drafted(t, m) => rows'[m] = rows[m]
  BY CommitRows
<1> QED
  BY <1>1, <1>2, <1>3, <1>4, <1>5, ReleaseKeeps

\* A row is inserted before anybody can have drafted it.
LEMMA InsertKeeps ==
  ASSUME Inv, NEW m \in Ids, NEW dev \in Devices \cup {NoDevice},
         NEW s \in {"queued", "scheduled"}, Insert(m, dev, s)
  PROVE  Inv'
<1> USE QueueTransactionsAssumption DEF Inv, Insert, txVars
<1>1. /\ rows' \in [Ids -> Row]
      /\ rows'[m].status = s /\ rows'[m].device = dev /\ rows'[m].attempts = rows[m].attempts
      /\ \A n \in Ids : n # m => rows'[n] = rows[n]
  BY DEF Shape, Row
<1>2. Shape'
  BY <1>1 DEF Shape
<1>3. UnlockedIsUnwritten' /\ IdleHoldsNothing' /\ FirstVisit'
  BY DEF UnlockedIsUnwritten, IdleHoldsNothing, FirstVisit
<1>4. RowsAreFit'
  BY <1>1 DEF RowsAreFit
<1>5. \A t \in Tx : ~Drafted(t, m)
  BY DEF DraftIsCurrent, Makes, Takes, Changes, Live
<1>6. DraftIsCurrent'
  BY <1>1, <1>5 DEF DraftIsCurrent, Drafted
<1> QED
  BY <1>2, <1>3, <1>4, <1>6

\* No draft depends on whether the lease it found has run out.
LEMMA LeaseKeeps ==
  ASSUME Inv, NEW m \in Ids, LeaseExpires(m)
  PROVE  Inv'
<1> USE DEF Inv, LeaseExpires, txVars
<1>1. /\ rows' \in [Ids -> Row]
      /\ \A n \in Ids : /\ rows'[n].status = rows[n].status
                        /\ rows'[n].device = rows[n].device
                        /\ rows'[n].attempts = rows[n].attempts
  BY DEF Shape, Row
<1>2. Shape'
  BY <1>1 DEF Shape
<1>3. UnlockedIsUnwritten' /\ IdleHoldsNothing' /\ FirstVisit'
  BY DEF UnlockedIsUnwritten, IdleHoldsNothing, FirstVisit
<1>4. RowsAreFit'
  BY <1>1 DEF RowsAreFit
<1>5. DraftIsCurrent'
  BY <1>1 DEF DraftIsCurrent, Drafted, Makes, Takes, Changes, Live
<1> QED
  BY <1>2, <1>3, <1>4, <1>5

LEMMA NextInv == Inv /\ [Next]_vars => Inv'
<1> SUFFICES ASSUME Inv, [Next]_vars PROVE Inv'
  OBVIOUS
<1>1. ASSUME NEW t \in Tx, Proceed(t) PROVE Inv'
  BY <1>1, VisitKeeps, PassOnKeeps, NextStatementKeeps, FlushedKeeps, CommitKeeps DEF Proceed
<1>2. ASSUME NEW t \in Tx, Rollback(t) \/ BreakDeadlock(t) PROVE Inv'
  BY <1>2, RollbackKeeps DEF BreakDeadlock
<1>3. CASE UNCHANGED vars
  BY <1>3
  DEF vars, txVars, Inv, Shape, UnlockedIsUnwritten, IdleHoldsNothing, FirstVisit,
      DraftIsCurrent, Drafted, RowsAreFit
<1> QED
  BY <1>1, <1>2, <1>3, BeginKeeps, InsertKeeps, LeaseKeeps DEF Next

LEMMA InvHolds == Spec => []Inv
BY InitInv, NextInv, PTL DEF Spec

-----------------------------------------------------------------------------
(* The committed rows are the lives of the messages.                       *)

Holders(m) == {d \in Devices : m \in handed[d]}

LEMMA InitIsLifeInit == Init => Lifecycle!LifeInit
BY DEF Init, Lifecycle!LifeInit, Stage

\* A commit of a draft is a step of the message's life, and a row without one
\* rests.
LEMMA CommitIsLifeStep ==
  ASSUME Inv, NEW t \in Tx, Commit(t), NEW m \in Ids
  PROVE  Lifecycle!LifeStep(m)
<1> USE QueueTransactionsAssumption DEF Lifecycle!LifeStep, Lifecycle!Becomes
<1>1. CASE ~Drafted(t, m)
  <2>1. rows'[m] = rows[m] /\ Holders(m)' = Holders(m)
    BY <1>1, CommitRows DEF Holders
  <2> QED
    BY <2>1 DEF Lifecycle!Rests, Stage, Holders
<1>2. CASE Drafted(t, m) /\ request[t].op = "claim"
  <2> DEFINE d == request[t].device
  <2>1. d \in Devices /\ Takes(d, rows[m], rows'[m])
    <3>1. request[t] \in Requests
      BY DEF Commit, Inv, Shape
    <3> QED
      BY <1>2, <3>1, CommitRows, RequestFields DEF Makes
  <2>2. rows[m].attempts < MaxAttempts /\ Holders(m) \subseteq {d}
    BY <2>1 DEF Inv, RowsAreFit, Takes, Holders
  <2>3. Holders(m)' = {d}
    BY <1>2, <2>1, <2>2, CommitRows DEF Holders
  <2> QED
    BY <2>1, <2>2, <2>3 DEF Lifecycle!Hand, Takes, Stage, Holders
<1>3. CASE Drafted(t, m) /\ request[t].op # "claim"
  <2>1. Changes(rows[m], rows'[m]) /\ rows[m] \in Row
    BY <1>3, CommitRows DEF Makes, Inv, Shape
  <2>2. Holders(m)' = Holders(m)
    BY <1>3, CommitRows DEF Holders
  <2>3. CASE Live(rows[m]) /\ rows'[m].status = "deleted" /\ rows'[m].device = NoDevice
             /\ rows'[m].attempts = 0
    BY <2>1, <2>2, <2>3 DEF Lifecycle!Forget, Live, Stage, Holders, Row
  <2>4. ASSUME rows'[m].device = rows[m].device, rows'[m].attempts = rows[m].attempts,
               Live(rows[m]), rows'[m].status \in Settled
        PROVE  Lifecycle!LifeStep(m)
    BY <2>1, <2>2, <2>4
    DEF Lifecycle!Close, Lifecycle!Rests, Live, Settled, Stage, Holders, Row
  <2>5. ASSUME rows'[m].device = rows[m].device, rows'[m].attempts = rows[m].attempts,
               rows[m].status = "scheduled", rows'[m].status = "queued"
        PROVE  Lifecycle!LifeStep(m)
    BY <2>2, <2>5 DEF Lifecycle!Rests, Stage, Holders
  <2>6. ASSUME rows'[m].device = rows[m].device, rows'[m].attempts = rows[m].attempts,
               rows[m].status = "sending", rows[m].attempts < MaxAttempts,
               rows'[m].status = "queued"
        PROVE  Lifecycle!LifeStep(m)
    BY <2>2, <2>6 DEF Lifecycle!Return, Stage, Holders
  <2> QED
    BY <2>1, <2>3, <2>4, <2>5, <2>6 DEF Changes
<1> QED
  BY <1>1, <1>2, <1>3

LEMMA InsertIsLifeStep ==
  ASSUME Inv, NEW m \in Ids, NEW dev \in Devices \cup {NoDevice},
         NEW s \in {"queued", "scheduled"}, Insert(m, dev, s), NEW n \in Ids
  PROVE  Lifecycle!LifeStep(n)
<1> USE QueueTransactionsAssumption DEF Lifecycle!LifeStep, Lifecycle!Becomes
<1>1. handed' = handed
  BY DEF Insert
<1>2. CASE n = m
  <2>1. /\ rows[n].status = "new" /\ rows[n].attempts = 0 /\ Holders(n) = {}
        /\ rows'[n].status = s /\ rows'[n].device = dev /\ rows'[n].attempts = 0
    BY <1>2 DEF Insert, Inv, Shape, Row, RowsAreFit, Holders
  <2> QED
    BY <1>1, <2>1 DEF Lifecycle!Submit, Stage, Holders
<1>3. CASE n # m
  <2>1. rows'[n] = rows[n]
    BY <1>3 DEF Insert, Inv, Shape
  <2> QED
    BY <1>1, <2>1 DEF Lifecycle!Rests, Stage
<1> QED
  BY <1>2, <1>3

LEMMA LeaseIsRest ==
  ASSUME Inv, NEW m \in Ids, LeaseExpires(m), NEW n \in Ids
  PROVE  Lifecycle!LifeStep(n)
<1>1. /\ handed' = handed
      /\ rows'[n].status = rows[n].status
      /\ rows'[n].device = rows[n].device
      /\ rows'[n].attempts = rows[n].attempts
  BY DEF LeaseExpires, Inv, Shape, Row
<1> QED
  BY <1>1 DEF Lifecycle!LifeStep, Lifecycle!Rests, Lifecycle!Becomes, Stage

LEMMA NextIsLifeNext ==
  ASSUME Inv, [Next]_vars
  PROVE  [Lifecycle!LifeNext]_(Lifecycle!lifeVars)
<1>1. ASSUME UNCHANGED <<rows, handed>>
      PROVE  UNCHANGED Lifecycle!lifeVars
  BY <1>1 DEF Lifecycle!lifeVars, Stage
<1>2. ASSUME NEW t \in Tx, Commit(t)
      PROVE  Lifecycle!LifeNext
  BY <1>2, CommitIsLifeStep DEF Lifecycle!LifeNext
<1>3. ASSUME NEW t \in Tx, Proceed(t), ~Commit(t)
      PROVE  UNCHANGED <<rows, handed>>
  BY <1>3 DEF Proceed, Visit, Skip, Wait, NextStatement, Flushed
<1>4. ASSUME NEW t \in Tx, Rollback(t) \/ BreakDeadlock(t) \/ \E r \in Requests : Begin(t, r)
      PROVE  UNCHANGED <<rows, handed>>
  BY <1>4 DEF Rollback, BreakDeadlock, Begin
<1>5. ASSUME NEW m \in Ids, NEW dev \in Devices \cup {NoDevice},
             NEW s \in {"queued", "scheduled"}, Insert(m, dev, s)
      PROVE  Lifecycle!LifeNext
  BY <1>5, InsertIsLifeStep DEF Lifecycle!LifeNext
<1>6. ASSUME NEW m \in Ids, LeaseExpires(m)
      PROVE  Lifecycle!LifeNext
  BY <1>6, LeaseIsRest DEF Lifecycle!LifeNext
<1>7. CASE UNCHANGED vars
  BY <1>1, <1>7 DEF vars
<1> QED
  BY <1>1, <1>2, <1>3, <1>4, <1>5, <1>6, <1>7 DEF Next

\* Statements select on a snapshot, wait, skip and write later versions; two of
\* them can deadlock and any can be rolled back: what is committed, step by
\* step, is still a life of every message.
THEOREM CommitsTheorem == Spec => CommitsImplementLifecycle
<1>1. Inv /\ [Next]_vars => [Lifecycle!LifeNext]_(Lifecycle!lifeVars)
  BY NextIsLifeNext
<1> QED
  BY <1>1, InitIsLifeInit, InvHolds, PTL
  DEF Spec, Lifecycle!LifeSpec, CommitsImplementLifecycle
=============================================================================
