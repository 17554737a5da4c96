------------------------- MODULE MessageQueueProofs -------------------------
(***************************************************************************)
(* The safety invariants of MessageQueue, for any number of accounts,      *)
(* phones, messages and attempts.                                          *)
(*                                                                         *)
(* A request rewrites many rows at once, but to one row only a handful of  *)
(* things can ever happen.  RowStep lists them; one lemma per action shows *)
(* that the action does one of them to every row; and each invariant is    *)
(* then preserved row by row, whatever the action was.                     *)
(*                                                                         *)
(* The same case analysis shows that MessageQueue implements               *)
(* MessageLifecycle, the invariant supplying what the guards of the        *)
(* lifecycle ask for and the requests do not check: a claim looks neither  *)
(* at attempts nor at who held the message before.  The daily counter      *)
(* needs sums over the messages as well, and the lemmas about them.        *)
(***************************************************************************)
EXTENDS MessageQueueLifecycle, FiniteSetTheorems, WellFoundedInduction, TLAPS

-----------------------------------------------------------------------------
(* The inductive invariant.                                                *)

\* An id that was not drawn yet has no row and was given to nobody.
FreshIds ==
  \A m \in Ids : m >= nextId =>
    /\ ~Present(m)
    /\ \A d \in Devices : handed[d][m] = 0

\* Exactly the ids without a row belong to no account.
AbsentIsUnowned == \A m \in Ids : ~Present(m) <=> Belongs(m, NoUser)

Inv ==
  /\ TypeOK
  /\ FreshIds
  /\ AbsentIsUnowned
  /\ LeaseIffSending
  /\ FailReasonMatches
  /\ AttemptBudget
  /\ OnePhonePerMessage
  /\ TenantIsolation

-----------------------------------------------------------------------------
(* What a step does to one row.                                            *)

\* Same account, same device, same number of attempts, nothing handed over.
Stays(m) ==
  /\ messages'[m].user = messages[m].user
  /\ messages'[m].device = messages[m].device
  /\ messages'[m].attempts = messages[m].attempts
  /\ \A d \in Devices : handed'[d][m] = handed[d][m]

\* The status, the lease and the reason stay as well.
Untouched(m) ==
  /\ Stays(m)
  /\ messages'[m].status = messages[m].status
  /\ messages'[m].failReason = messages[m].failReason
  /\ messages'[m].lease # "none" <=> messages[m].lease # "none"

Inserted(m) ==
  /\ m >= nextId /\ m < nextId'
  /\ \E u \in Users, dev \in Devices \cup {NoDevice}, prio \in Nat, due \in {"none", "future"} :
       /\ dev # NoDevice => Owner[dev] = u
       /\ messages'[m] = NewRow(u, dev, prio, due)
  /\ \A d \in Devices : handed'[d][m] = handed[d][m]

Deleted(m) ==
  /\ Present(m)
  /\ messages'[m] = NoRow
  /\ \A d \in Devices : handed'[d][m] = handed[d][m]

Handed(m) ==
  \E d \in Devices :
    /\ m \in Claimable(d)
    /\ messages'[m] = Leased(messages[m], d)
    /\ \A e \in Devices : handed'[e][m] = IF e = d THEN handed[e][m] + 1 ELSE handed[e][m]

Closes(m) ==
  /\ Stays(m)
  /\ Present(m)
  /\ messages'[m].status \in Closed
  /\ messages'[m].lease = "none"
  /\ messages'[m].failReason # "none" <=> messages'[m].status = "failed"

Returns(m) ==
  /\ Stays(m)
  /\ \/ StatusIn(m, {"sending"}) /\ messages[m].attempts < MaxAttempts
     \/ StatusIn(m, {"scheduled"})
  /\ messages'[m].status = "queued"
  /\ messages'[m].lease = "none"
  /\ messages'[m].failReason = "none"

RowStep(m) ==
  \/ Untouched(m)
  \/ Inserted(m)
  \/ Deleted(m)
  \/ Handed(m)
  \/ Closes(m)
  \/ Returns(m)

-----------------------------------------------------------------------------
(* Type correctness: one lemma per action that builds rows.                *)

USE DEF Ids

LEMMA NoRowType == NoRow \in Row
BY DEF NoRow, Row

LEMMA NewRowType ==
  ASSUME TypeOK, NEW u \in Users, NEW dev \in Devices \cup {NoDevice}, NEW prio \in Nat,
         NEW due \in {"none", "future"}
  PROVE  NewRow(u, dev, prio, due) \in Row
BY MessageQueueAssumption DEF TypeOK, NewRow, Row, Statuses

LEMMA EnqueueType ==
  ASSUME TypeOK, NEW u \in Users, NEW n \in 1..MaxMessages, NEW dev \in Devices \cup {NoDevice},
         NEW prio \in Nat, NEW due \in {"none", "future"},
         nextId + n - 1 <= MaxMessages, Enqueue(u, n, dev, prio, due)
  PROVE  TypeOK'
<1>1. messages' \in [Ids -> Row]
  BY NewRowType DEF TypeOK, Enqueue
<1>2. nextId' \in 1..(MaxMessages + 1)
  BY MessageQueueAssumption DEF TypeOK, Enqueue
<1>3. smsSent' \in [Users -> Nat]
  BY DEF TypeOK, Enqueue
<1> QED
  BY <1>1, <1>2, <1>3 DEF TypeOK, Enqueue, phoneVars

LEMMA RewriteType ==
  ASSUME TypeOK, NEW new \in [Ids -> Row], Rewrite(new)
  PROVE  TypeOK'
BY DEF TypeOK, Rewrite, phoneVars


LEMMA CancelRowsType ==
  ASSUME TypeOK, NEW u \in Users, NEW S \in SUBSET Ids, CancelRows(u, S)
  PROVE  TypeOK'
<1>1. ASSUME NEW row \in Row
      PROVE  [row EXCEPT !.status = "canceled", !.lease = "none"] \in Row
  BY DEF Row, Statuses
<1>2. messages' \in [Ids -> Row]
  BY <1>1 DEF TypeOK, CancelRows, Rewrite
<1> QED
  BY <1>2 DEF TypeOK, CancelRows, Rewrite, phoneVars

LEMMA BulkSetPriorityType ==
  ASSUME TypeOK, NEW u \in Users, NEW S \in SUBSET Ids, NEW rank \in Priorities,
         BulkSetPriority(u, S, rank)
  PROVE  TypeOK'
<1>1. ASSUME NEW row \in Row
      PROVE  [row EXCEPT !.priority = rank] \in Row
  BY MessageQueueAssumption DEF Row
<1>2. messages' \in [Ids -> Row]
  BY <1>1 DEF TypeOK, BulkSetPriority, Rewrite
<1> QED
  BY <1>2 DEF TypeOK, BulkSetPriority, Rewrite, phoneVars

LEMMA BulkDeleteType ==
  ASSUME TypeOK, NEW u \in Users, NEW S \in SUBSET Ids, BulkDelete(u, S)
  PROVE  TypeOK'
<1>1. messages' \in [Ids -> Row]
  BY NoRowType DEF TypeOK, BulkDelete, Rewrite
<1> QED
  BY <1>1 DEF TypeOK, BulkDelete, Rewrite, phoneVars

LEMMA LeasedType ==
  ASSUME NEW row \in Row, NEW d \in Devices
  PROVE  Leased(row, d) \in Row
<1>1. row.attempts + 1 \in Nat
  BY DEF Row
<1> QED
  BY <1>1 DEF Leased, Row, Statuses

LEMMA ClaimType ==
  ASSUME TypeOK, NEW d \in Devices, NEW limit \in 1..MaxMessages, NEW locked \in SUBSET Ids,
         Claim(d, limit, locked)
  PROVE  TypeOK'
<1>1. PICK batch \in Batches(d, limit, locked) :
        /\ messages' = [m \in Ids |-> IF m \in batch THEN Leased(messages[m], d)
                                                     ELSE messages[m]]
        /\ handed' = [handed EXCEPT ![d] = [m \in Ids |-> IF m \in batch THEN @[m] + 1
                                                                         ELSE @[m]]]
  BY DEF Claim
<1>2. messages' \in [Ids -> Row]
  BY <1>1, LeasedType DEF TypeOK
<1>3. [m \in Ids |-> IF m \in batch THEN handed[d][m] + 1 ELSE handed[d][m]] \in [Ids -> Nat]
  <2>1. \A m \in Ids : handed[d][m] \in Nat
    BY DEF TypeOK
  <2>2. \A m \in Ids : handed[d][m] + 1 \in Nat
    BY <2>1
  <2> QED
    BY <2>1, <2>2
<1>4. handed' \in [Devices -> [Ids -> Nat]]
  BY <1>1, <1>3 DEF TypeOK
<1> QED
  BY <1>2, <1>4 DEF TypeOK, Claim

LEMMA AckType ==
  ASSUME TypeOK, NEW d \in Devices, NEW S \in SUBSET Ids, Ack(d, S)
  PROVE  TypeOK'
<1>1. ASSUME NEW row \in Row
      PROVE  [row EXCEPT !.status = "sent", !.lease = "none"] \in Row
  BY DEF Row, Statuses
<1>2. messages' \in [Ids -> Row]
  BY <1>1 DEF TypeOK, Ack
<1>3. Cardinality(Acked(d, S)) \in Nat
  <2>1. IsFiniteSet(Ids)
    BY FS_Interval, MessageQueueAssumption
  <2>2. Acked(d, S) \subseteq Ids
    BY DEF Acked
  <2> QED
    BY <2>1, <2>2, FS_Subset, FS_CardinalityType
<1>4. sentToday' \in [Devices -> Nat]
  <2>1. sentToday[d] + Cardinality(Acked(d, S)) \in Nat
    BY <1>3 DEF TypeOK
  <2> QED
    BY <2>1 DEF TypeOK, Ack
<1> QED
  BY <1>2, <1>4 DEF TypeOK, Ack, phoneVars

LEMMA ReportedType ==
  ASSUME NEW row \in Row, NEW status \in {"delivered", "failed"},
         NEW reason \in FailReasons \cup {"none"}
  PROVE  Reported(row, status, reason) \in Row
BY DEF Reported, Row, Statuses

LEMMA ReportType ==
  ASSUME TypeOK, NEW d \in Devices, NEW m \in Ids, NEW status \in {"delivered", "failed"},
         NEW reason \in FailReasons \cup {"none"}, Report(d, m, status, reason)
  PROVE  TypeOK'
<1>1. messages[m] \in Row
  BY DEF TypeOK
<1>2. Reported(messages[m], status, reason) \in Row
  BY <1>1, ReportedType
<1>3. [messages EXCEPT ![m] = Reported(messages[m], status, reason)] \in [Ids -> Row]
  BY <1>2 DEF TypeOK
<1> QED
  BY <1>3, RewriteType DEF Report

LEMMA ReaperType ==
  ASSUME TypeOK, Reaper
  PROVE  TypeOK'
<1>1. ASSUME NEW row \in Row
      PROVE  Requeued(row) \in Row
  BY DEF Requeued, Row, Statuses, FailReasons
<1>2. ASSUME NEW row \in Row
      PROVE  [row EXCEPT !.status = "queued"] \in Row
  BY DEF Row, Statuses
<1>3. [m \in Ids |-> CASE Expired(m) -> Requeued(messages[m])
                      [] Due(m) -> [messages[m] EXCEPT !.status = "queued"]
                      [] OTHER -> messages[m]] \in [Ids -> Row]
  BY <1>1, <1>2 DEF TypeOK
<1> QED
  BY <1>3, RewriteType DEF Reaper

LEMMA ClockType ==
  ASSUME TypeOK, NEW m \in Ids, LeaseExpires(m) \/ DueArrives(m)
  PROVE  TypeOK'
<1>1. messages[m] \in Row
  BY DEF TypeOK
<1>2. CASE LeaseExpires(m)
  <2>1. [messages[m] EXCEPT !.lease = "expired"] \in Row
    BY <1>1 DEF Row
  <2>2. [messages EXCEPT ![m].lease = "expired"] \in [Ids -> Row]
    BY <2>1 DEF TypeOK
  <2> QED
    BY <1>2, <2>2, RewriteType DEF LeaseExpires
<1>3. CASE DueArrives(m)
  <2>1. [messages[m] EXCEPT !.due = "past"] \in Row
    BY <1>1 DEF Row
  <2>2. [messages EXCEPT ![m].due = "past"] \in [Ids -> Row]
    BY <2>1 DEF TypeOK
  <2> QED
    BY <1>3, <2>2, RewriteType DEF DueArrives
<1> QED
  BY <1>2, <1>3

LEMMA TransmitType ==
  ASSUME TypeOK, NEW d \in Devices, NEW m \in Ids, Transmit(d, m)
  PROVE  TypeOK'
<1>1. [sims[d] EXCEPT ![m] = @ + 1] \in [Ids -> Nat]
  <2>1. sims[d] \in [Ids -> Nat]
    BY DEF TypeOK
  <2>2. sims[d][m] \in Nat
    BY <2>1
  <2>3. sims[d][m] + 1 \in Nat
    BY <2>2
  <2> QED
    BY <2>1, <2>3
<1>2. sims' \in [Devices -> [Ids -> Nat]]
  BY <1>1 DEF TypeOK, Transmit
<1> QED
  BY <1>2 DEF TypeOK, Transmit

LEMMA PhoneType ==
  ASSUME TypeOK, NEW d \in Devices, PhoneStops(d) \/ PhoneReturns(d) \/ DeleteDevice(d)
  PROVE  TypeOK'
BY DEF TypeOK, PhoneStops, PhoneReturns, DeleteDevice, phoneVars

LEMMA HeartbeatType ==
  ASSUME TypeOK, NEW d \in Devices, NEW count \in Nat, Heartbeat(d, count)
  PROVE  TypeOK'
BY DEF TypeOK, Heartbeat, phoneVars

LEMMA UserStepType ==
  ASSUME TypeOK, NEW u \in Users, UserStep(u)
  PROVE  TypeOK'
<1>1. ASSUME NEW n \in 1..MaxMessages, NEW dev \in Devices \cup {NoDevice}, NEW prio \in Nat,
             NEW due \in {"none", "future"}, Send(u, n, dev, prio, due)
      PROVE  TypeOK'
  BY <1>1, EnqueueType DEF Send
<1>2. ASSUME NEW m \in Ids, Resend(u, m)
      PROVE  TypeOK'
  <2>1. messages[m].device \in Devices \cup {NoDevice} /\ messages[m].priority \in Nat
    BY DEF TypeOK, Row
  <2>2. 1 \in 1..MaxMessages
    BY MessageQueueAssumption
  <2> QED
    BY <1>1, <1>2, <2>1, <2>2 DEF Resend
<1>3. ASSUME NEW m \in Ids, Cancel(u, m)
      PROVE  TypeOK'
  BY <1>3, CancelRowsType DEF Cancel
<1>4. ASSUME NEW S \in SUBSET Ids, BulkCancel(u, S)
      PROVE  TypeOK'
  BY <1>4, CancelRowsType DEF BulkCancel
<1>5. ASSUME NEW S \in SUBSET Statuses, ClearAll(u, S)
      PROVE  TypeOK'
  BY <1>5, BulkDeleteType DEF ClearAll
<1>6. CASE \E n \in 1..MaxMessages, dev \in Devices \cup {NoDevice}, prio \in Priorities,
              due \in {"none", "future"} : Send(u, n, dev, prio, due)
  BY <1>1, <1>6, MessageQueueAssumption
<1> QED
  BY <1>2, <1>3, <1>4, <1>5, <1>6, BulkSetPriorityType, BulkDeleteType DEF UserStep

LEMMA DeviceStepType ==
  ASSUME TypeOK, NEW d \in Devices, DeviceStep(d)
  PROVE  TypeOK'
<1>1. ASSUME NEW count \in 0..Transmitted(d), Heartbeat(d, count)
      PROVE  TypeOK'
  BY <1>1, HeartbeatType
<1> QED
  BY <1>1, ClaimType, AckType, ReportType, TransmitType, PhoneType DEF DeviceStep

LEMMA NextType == TypeOK /\ [Next]_vars => TypeOK'
<1>1. ASSUME TypeOK, UNCHANGED vars
      PROVE  TypeOK'
  BY <1>1 DEF TypeOK, vars
<1> QED
  BY <1>1, UserStepType, DeviceStepType, ReaperType, ClockType DEF Next, ClockStep

LEMMA InitType == Init => TypeOK
BY NoRowType, MessageQueueAssumption DEF Init, TypeOK

\* Every variable keeps its shape, for any number of accounts, phones and rows.
THEOREM TypeCorrect == Spec => []TypeOK
BY InitType, NextType, PTL DEF Spec

-----------------------------------------------------------------------------
(* Every action does one of the six things of RowStep to every row.        *)

LEMMA EnqueueRows ==
  ASSUME TypeOK, NEW u \in Users, NEW n \in 1..MaxMessages, NEW dev \in Devices \cup {NoDevice},
         NEW prio \in Nat, NEW due \in {"none", "future"},
         Send(u, n, dev, prio, due), NEW m \in Ids
  PROVE  RowStep(m)
<1>1. CASE m \in nextId..(nextId + n - 1)
  <2>1. m >= nextId /\ m < nextId'
    BY <1>1 DEF TypeOK, Send, Enqueue
  <2>2. messages'[m] = NewRow(u, dev, prio, due)
    BY <1>1 DEF Send, Enqueue
  <2>3. dev # NoDevice => Owner[dev] = u
    BY DEF Send, Addressable
  <2>4. \A d \in Devices : handed'[d][m] = handed[d][m]
    BY DEF Send, Enqueue, phoneVars
  <2> QED
    BY <2>1, <2>2, <2>3, <2>4 DEF RowStep, Inserted
<1>2. CASE m \notin nextId..(nextId + n - 1)
  BY <1>2 DEF Send, Enqueue, phoneVars, RowStep, Untouched, Stays
<1> QED
  BY <1>1, <1>2

\* A row that a request of the ledger leaves alone.
LEMMA RewriteKeeps ==
  ASSUME NEW new, Rewrite(new), NEW m \in Ids, new[m] = messages[m]
  PROVE  RowStep(m)
BY DEF Rewrite, phoneVars, RowStep, Untouched, Stays

LEMMA CancelRowsRows ==
  ASSUME TypeOK, AbsentIsUnowned, FailReasonMatches, NEW u \in Users, NEW S \in SUBSET Ids,
         CancelRows(u, S), NEW m \in Ids
  PROVE  RowStep(m)
<1>1. messages[m] \in Row
  BY DEF TypeOK
<1>2. CASE m \in S /\ Belongs(m, u) /\ StatusIn(m, Cancelable)
  <2>1. messages'[m] = [messages[m] EXCEPT !.status = "canceled", !.lease = "none"]
    BY <1>2 DEF CancelRows, Rewrite
  <2>2. messages[m].failReason = "none"
    BY <1>2 DEF FailReasonMatches, StatusIn, Cancelable
  <2>3. Present(m)
    BY <1>2 DEF Present, StatusIn, Cancelable
  <2>4. handed' = handed
    BY DEF CancelRows, Rewrite, phoneVars
  <2> QED
    BY <1>1, <2>1, <2>2, <2>3, <2>4 DEF RowStep, Closes, Stays, Closed, Row
<1>3. CASE ~(m \in S /\ Belongs(m, u) /\ StatusIn(m, Cancelable))
  BY <1>3 DEF CancelRows, Rewrite, phoneVars, RowStep, Untouched, Stays
<1> QED
  BY <1>2, <1>3

LEMMA BulkSetPriorityRows ==
  ASSUME TypeOK, NEW u \in Users, NEW S \in SUBSET Ids, NEW rank \in Priorities,
         BulkSetPriority(u, S, rank), NEW m \in Ids
  PROVE  RowStep(m)
<1>1. messages[m] \in Row
  BY DEF TypeOK
<1>2. \/ messages'[m] = messages[m]
      \/ messages'[m] = [messages[m] EXCEPT !.priority = rank]
  BY DEF BulkSetPriority, Rewrite
<1>3. handed' = handed
  BY DEF BulkSetPriority, Rewrite, phoneVars
<1> QED
  BY <1>1, <1>2, <1>3 DEF RowStep, Untouched, Stays, Row

LEMMA BulkDeleteRows ==
  ASSUME AbsentIsUnowned, NEW u \in Users, NEW S \in SUBSET Ids, BulkDelete(u, S), NEW m \in Ids
  PROVE  RowStep(m)
<1>1. messages'[m] = messages[m] \/ (messages'[m] = NoRow /\ Belongs(m, u))
  BY DEF BulkDelete, Rewrite
<1>2. Belongs(m, u) => Present(m)
  BY MessageQueueAssumption DEF AbsentIsUnowned, Belongs
<1>3. handed' = handed
  BY DEF BulkDelete, Rewrite, phoneVars
<1> QED
  BY <1>1, <1>2, <1>3 DEF RowStep, Untouched, Stays, Deleted

LEMMA ClaimRows ==
  ASSUME TypeOK, NEW d \in Devices, NEW limit \in 1..MaxMessages, NEW locked \in SUBSET Ids,
         Claim(d, limit, locked), NEW m \in Ids
  PROVE  RowStep(m)
<1>1. PICK batch \in Batches(d, limit, locked) :
        /\ messages' = [i \in Ids |-> IF i \in batch THEN Leased(messages[i], d)
                                                     ELSE messages[i]]
        /\ handed' = [handed EXCEPT ![d] = [i \in Ids |-> IF i \in batch THEN @[i] + 1
                                                                         ELSE @[i]]]
  BY DEF Claim
<1>2. batch \subseteq Claimable(d)
  BY DEF Batches
<1>3. ASSUME NEW e \in Devices
      PROVE  handed'[e][m] = IF e = d /\ m \in batch THEN handed[e][m] + 1 ELSE handed[e][m]
  BY <1>1 DEF TypeOK
<1>4. CASE m \in batch
  BY <1>1, <1>2, <1>3, <1>4 DEF RowStep, Handed
<1>5. CASE m \notin batch
  BY <1>1, <1>3, <1>5 DEF RowStep, Untouched, Stays
<1> QED
  BY <1>4, <1>5

LEMMA AckRows ==
  ASSUME TypeOK, FailReasonMatches, NEW d \in Devices, NEW S \in SUBSET Ids, Ack(d, S),
         NEW m \in Ids
  PROVE  RowStep(m)
<1>1. messages[m] \in Row
  BY DEF TypeOK
<1>2. handed' = handed
  BY DEF Ack, phoneVars
<1>3. CASE m \in Acked(d, S)
  <2>1. messages'[m] = [messages[m] EXCEPT !.status = "sent", !.lease = "none"]
    BY <1>3 DEF Ack
  <2>2. messages[m].failReason = "none" /\ Present(m)
    BY <1>3 DEF Acked, FailReasonMatches, StatusIn, Present
  <2> QED
    BY <1>1, <1>2, <2>1, <2>2 DEF RowStep, Closes, Stays, Closed, Row
<1>4. CASE m \notin Acked(d, S)
  BY <1>2, <1>4 DEF Ack, RowStep, Untouched, Stays
<1> QED
  BY <1>3, <1>4

LEMMA ReportRows ==
  ASSUME TypeOK, AbsentIsUnowned, NEW d \in Devices, NEW i \in Ids,
         NEW status \in {"delivered", "failed"}, NEW reason \in FailReasons \cup {"none"},
         status = "failed" => reason # "none",
         Report(d, i, status, reason), NEW m \in Ids
  PROVE  RowStep(m)
<1>1. messages[m] \in Row
  BY DEF TypeOK
<1>2. handed' = handed
  BY DEF Report, Rewrite, phoneVars
<1>3. CASE m = i
  <2>1. messages'[m] = Reported(messages[m], status, reason)
    BY <1>3 DEF Report, Rewrite, TypeOK
  <2>2. Present(m)
    BY <1>3, MessageQueueAssumption DEF Report, AbsentIsUnowned, Belongs
  <2> QED
    BY <1>1, <1>2, <2>1, <2>2 DEF RowStep, Closes, Stays, Closed, Row, Reported
<1>4. CASE m # i
  BY <1>2, <1>4 DEF Report, Rewrite, TypeOK, RowStep, Untouched, Stays
<1> QED
  BY <1>3, <1>4

LEMMA ReaperRows ==
  ASSUME TypeOK, LeaseIffSending, FailReasonMatches, Reaper, NEW m \in Ids
  PROVE  RowStep(m)
<1>1. messages[m] \in Row
  BY DEF TypeOK
<1>2. handed' = handed
  BY DEF Reaper, Rewrite, phoneVars
<1>3. CASE Expired(m)
  <2>1. messages'[m] = Requeued(messages[m])
    <3>1. ~Due(m)
      BY <1>3 DEF Due, Expired, StatusIn
    <3> QED
      BY <1>3, <3>1 DEF Reaper, Rewrite
  <2>2. CASE messages[m].attempts >= MaxAttempts
    BY <1>1, <1>2, <1>3, <2>1, <2>2
    DEF RowStep, Closes, Stays, Closed, Row, Requeued, Expired, StatusIn, Present
  <2>3. CASE ~(messages[m].attempts >= MaxAttempts)
    BY <1>1, <1>2, <1>3, <2>1, <2>3, MessageQueueAssumption
    DEF RowStep, Returns, Stays, Row, Requeued, Expired, StatusIn
  <2> QED
    BY <2>2, <2>3
<1>4. CASE Due(m) /\ ~Expired(m)
  <2>1. messages'[m] = [messages[m] EXCEPT !.status = "queued"]
    BY <1>4 DEF Reaper, Rewrite
  <2>2. messages[m].lease = "none" /\ messages[m].failReason = "none"
    BY <1>4 DEF Due, StatusIn, LeaseIffSending, FailReasonMatches
  <2> QED
    BY <1>1, <1>2, <1>4, <2>1, <2>2 DEF RowStep, Returns, Stays, Row, Due
<1>5. CASE ~Due(m) /\ ~Expired(m)
  BY <1>2, <1>5 DEF Reaper, Rewrite, RowStep, Untouched, Stays
<1> QED
  BY <1>3, <1>4, <1>5

LEMMA ClockRows ==
  ASSUME TypeOK, NEW i \in Ids, LeaseExpires(i) \/ DueArrives(i), NEW m \in Ids
  PROVE  RowStep(m)
<1>1. messages[m] \in Row
  BY DEF TypeOK
<1>2. handed' = handed
  BY DEF LeaseExpires, DueArrives, Rewrite, phoneVars
<1>3. CASE LeaseExpires(i)
  BY <1>1, <1>2, <1>3 DEF LeaseExpires, Rewrite, TypeOK, RowStep, Untouched, Stays, Row
<1>4. CASE DueArrives(i)
  BY <1>1, <1>2, <1>4 DEF DueArrives, Rewrite, TypeOK, RowStep, Untouched, Stays, Row
<1> QED
  BY <1>3, <1>4

\* Phones come, go and transmit without touching the ledger.
LEMMA PhoneRows ==
  ASSUME NEW d \in Devices, NEW m \in Ids,
         \/ Transmit(d, m) \/ PhoneStops(d) \/ PhoneReturns(d) \/ DeleteDevice(d)
         \/ \E count \in 0..Transmitted(d) : Heartbeat(d, count), NEW i \in Ids
  PROVE  RowStep(i)
BY DEF Transmit, Heartbeat, PhoneStops, PhoneReturns, DeleteDevice, phoneVars, RowStep, Untouched, Stays

LEMMA NextRows ==
  ASSUME TypeOK, AbsentIsUnowned, LeaseIffSending, FailReasonMatches, Next, NEW m \in Ids
  PROVE  RowStep(m)
<1>1. ASSUME NEW u \in Users, UserStep(u)
      PROVE  RowStep(m)
  <2>1. CASE \E n \in 1..MaxMessages, dev \in Devices \cup {NoDevice}, prio \in Priorities,
                due \in {"none", "future"} : Send(u, n, dev, prio, due)
    BY <2>1, EnqueueRows, MessageQueueAssumption
  <2>2. ASSUME NEW i \in Ids, Resend(u, i)
        PROVE  RowStep(m)
    <3>1. messages[i].device \in Devices \cup {NoDevice} /\ messages[i].priority \in Nat
      BY DEF TypeOK, Row
    <3>2. 1 \in 1..MaxMessages
      BY MessageQueueAssumption
    <3> QED
      BY <2>2, <3>1, <3>2, EnqueueRows DEF Resend
  <2>3. ASSUME NEW S \in SUBSET Ids, CancelRows(u, S)
        PROVE  RowStep(m)
    BY <2>3, CancelRowsRows
  <2>4. ASSUME NEW S \in SUBSET Ids, BulkDelete(u, S)
        PROVE  RowStep(m)
    BY <2>4, BulkDeleteRows
  <2> QED
    BY <1>1, <2>1, <2>2, <2>3, <2>4, BulkSetPriorityRows
    DEF UserStep, Cancel, BulkCancel, ClearAll
<1>2. ASSUME NEW d \in Devices, DeviceStep(d)
      PROVE  RowStep(m)
  <2>1. ASSUME NEW i \in Ids, NEW reason \in FailReasons, Report(d, i, "failed", reason)
        PROVE  RowStep(m)
    BY <2>1, ReportRows DEF FailReasons
  <2>2. ASSUME NEW i \in Ids, Report(d, i, "delivered", "none")
        PROVE  RowStep(m)
    BY <2>2, ReportRows
  <2> QED
    BY <1>2, <2>1, <2>2, ClaimRows, AckRows, PhoneRows DEF DeviceStep
<1> QED
  BY <1>1, <1>2, ReaperRows, ClockRows DEF Next, ClockStep

\* The ids drawn by a step are the rows it inserts.
LEMMA DrawnIsInserted ==
  ASSUME TypeOK, Next, NEW m \in Ids, m >= nextId, m < nextId'
  PROVE  Inserted(m)
<1>1. ASSUME NEW u \in Users, NEW n \in 1..MaxMessages, NEW dev \in Devices \cup {NoDevice},
             NEW prio \in Nat, NEW due \in {"none", "future"}, Send(u, n, dev, prio, due)
      PROVE  Inserted(m)
  <2>1. m \in nextId..(nextId + n - 1)
    BY <1>1, MessageQueueAssumption DEF Send, Enqueue, TypeOK
  <2>2. messages'[m] = NewRow(u, dev, prio, due)
    BY <1>1, <2>1 DEF Send, Enqueue
  <2>3. dev # NoDevice => Owner[dev] = u
    BY <1>1 DEF Send, Addressable
  <2>4. \A d \in Devices : handed'[d][m] = handed[d][m]
    BY <1>1 DEF Send, Enqueue, phoneVars
  <2> QED
    BY <2>2, <2>3, <2>4 DEF Inserted
<1>2. ASSUME NEW u \in Users, NEW i \in Ids, Resend(u, i)
      PROVE  Inserted(m)
  <2>1. messages[i].device \in Devices \cup {NoDevice} /\ messages[i].priority \in Nat
    BY DEF TypeOK, Row
  <2>2. 1 \in 1..MaxMessages
    BY MessageQueueAssumption
  <2> QED
    BY <1>1, <1>2, <2>1, <2>2 DEF Resend
<1>3. nextId' # nextId
  BY MessageQueueAssumption DEF TypeOK
<1>4. CASE \E u \in Users : \E n \in 1..MaxMessages, dev \in Devices \cup {NoDevice},
              prio \in Priorities, due \in {"none", "future"} : Send(u, n, dev, prio, due)
  BY <1>1, <1>4, MessageQueueAssumption
<1> QED
  BY <1>2, <1>3, <1>4
  DEF Next, UserStep, DeviceStep, ClockStep, Cancel, BulkCancel, CancelRows, BulkSetPriority,
      BulkDelete, ClearAll, Claim, Ack, Heartbeat, Report, Reaper, LeaseExpires, DueArrives, Transmit,
      PhoneStops, PhoneReturns, DeleteDevice, Rewrite

-----------------------------------------------------------------------------
(* Row by row, the invariants are preserved.                               *)

LEMMA NextIdGrows ==
  ASSUME TypeOK, Next
  PROVE  nextId' >= nextId
<1>1. ASSUME NEW u \in Users, NEW n \in 1..MaxMessages, NEW dev, NEW prio, NEW due,
             Send(u, n, dev, prio, due)
      PROVE  nextId' >= nextId
  BY <1>1, MessageQueueAssumption DEF Send, Enqueue, TypeOK
<1>2. ASSUME NEW u \in Users, NEW m \in Ids, Resend(u, m)
      PROVE  nextId' >= nextId
  <2>1. 1 \in 1..MaxMessages
    BY MessageQueueAssumption
  <2> QED
    BY <1>1, <1>2, <2>1 DEF Resend
<1>3. nextId' = nextId => nextId' >= nextId
  BY DEF TypeOK
<1> QED
  BY <1>1, <1>2, <1>3
  DEF Next, UserStep, DeviceStep, ClockStep, Cancel, BulkCancel, CancelRows, BulkSetPriority,
      BulkDelete, ClearAll, Claim, Ack, Heartbeat, Report, Reaper, LeaseExpires, DueArrives, Transmit,
      PhoneStops, PhoneReturns, DeleteDevice, Rewrite

\* A phone transmits only a copy it still holds.
LEMMA NextSims ==
  ASSUME TypeOK, Next, NEW d \in Devices, NEW m \in Ids
  PROVE  \/ sims'[d][m] = sims[d][m]
         \/ /\ sims'[d][m] = sims[d][m] + 1
            /\ sims[d][m] < handed[d][m]
            /\ handed' = handed
<1>1. ASSUME NEW e \in Devices, NEW i \in Ids, Transmit(e, i)
      PROVE  \/ sims'[d][m] = sims[d][m]
             \/ /\ sims'[d][m] = sims[d][m] + 1
                /\ sims[d][m] < handed[d][m]
                /\ handed' = handed
  <2>1. sims \in [Devices -> [Ids -> Nat]]
    BY DEF TypeOK
  <2>2. CASE e = d /\ i = m
    BY <1>1, <2>1, <2>2 DEF Transmit
  <2>3. CASE ~(e = d /\ i = m)
    BY <1>1, <2>1, <2>3 DEF Transmit
  <2> QED
    BY <2>2, <2>3
<1>2. ASSUME NEW u \in Users, UserStep(u)
      PROVE  sims' = sims
  BY <1>2
  DEF UserStep, Send, Resend, Enqueue, Cancel, BulkCancel, CancelRows, BulkSetPriority,
      BulkDelete, ClearAll, Rewrite, phoneVars
<1>3. ASSUME NEW e \in Devices, DeviceStep(e)
      PROVE  sims' = sims \/ \E i \in Ids : Transmit(e, i)
  BY <1>3
  DEF DeviceStep, Claim, Ack, Heartbeat, Report, PhoneStops, PhoneReturns, DeleteDevice,
      Rewrite, phoneVars
<1>4. ASSUME Reaper \/ ClockStep
      PROVE  sims' = sims
  BY <1>4 DEF Reaper, ClockStep, LeaseExpires, DueArrives, Rewrite, phoneVars
<1> QED
  BY <1>1, <1>2, <1>3, <1>4 DEF Next

LEMMA HandedType ==
  ASSUME TypeOK, NEW d \in Devices, NEW m \in Ids
  PROVE  handed[d][m] \in Nat /\ sims[d][m] \in Nat
BY DEF TypeOK

LEMMA RowFields ==
  ASSUME TypeOK, NEW m \in Ids
  PROVE  /\ messages[m].attempts \in Nat
         /\ messages[m].user \in Users \cup {NoUser}
         /\ messages[m].device \in Devices \cup {NoDevice}
         /\ messages[m] \in Row
BY DEF TypeOK, Row

\* The fields of a row after a claim.
LEMMA LeasedFields ==
  ASSUME NEW row \in Row, NEW d \in Devices
  PROVE  /\ Leased(row, d).status = "sending"
         /\ Leased(row, d).device = d
         /\ Leased(row, d).lease = "running"
         /\ Leased(row, d).attempts = row.attempts + 1
         /\ Leased(row, d).user = row.user
         /\ Leased(row, d).failReason = row.failReason
BY DEF Leased, Row

LEMMA FreshKept ==
  ASSUME Inv, nextId' >= nextId, TypeOK', \A m \in Ids : RowStep(m)
  PROVE  FreshIds'
<1> SUFFICES ASSUME NEW m \in Ids, m >= nextId'
             PROVE  Present(m)' = FALSE /\ \A d \in Devices : handed'[d][m] = 0
  BY DEF FreshIds
<1>1. m >= nextId /\ ~(m < nextId')
  <2>1. nextId \in Nat /\ nextId' \in Nat /\ m \in Nat
    BY MessageQueueAssumption DEF Inv, TypeOK
  <2> QED
    BY <2>1
<1>2. ~Present(m) /\ \A d \in Devices : handed[d][m] = 0
  BY <1>1 DEF Inv, FreshIds
<1>3. ~Handed(m) /\ ~Closes(m) /\ ~Returns(m) /\ ~Inserted(m)
  BY <1>1, <1>2 DEF Handed, Claimable, StatusIn, Closes, Returns, Inserted, Present
<1> QED
  BY <1>2, <1>3 DEF RowStep, Untouched, Stays, Deleted, NoRow, Present

LEMMA UnownedKept ==
  ASSUME Inv, \A m \in Ids : RowStep(m)
  PROVE  AbsentIsUnowned'
<1> SUFFICES ASSUME NEW m \in Ids
             PROVE  (messages'[m].status = "absent") <=> messages'[m].user = NoUser
  BY DEF AbsentIsUnowned, Present, Belongs
<1>1. (messages[m].status = "absent") <=> messages[m].user = NoUser
  BY DEF Inv, AbsentIsUnowned, Present, Belongs
<1>2. CASE Untouched(m)
  BY <1>1, <1>2 DEF Untouched, Stays
<1>3. CASE Inserted(m)
  BY <1>3, MessageQueueAssumption DEF Inserted, NewRow
<1>4. CASE Deleted(m)
  BY <1>4 DEF Deleted, NoRow
<1>5. CASE Handed(m)
  BY <1>1, <1>5, RowFields, LeasedFields DEF Inv, Handed, Claimable, StatusIn
<1>6. CASE Closes(m)
  BY <1>1, <1>6 DEF Closes, Stays, Closed, Present
<1>7. CASE Returns(m)
  BY <1>1, <1>7 DEF Returns, Stays, StatusIn
<1> QED
  BY <1>2, <1>3, <1>4, <1>5, <1>6, <1>7 DEF RowStep

LEMMA LeaseKept ==
  ASSUME Inv, \A m \in Ids : RowStep(m)
  PROVE  LeaseIffSending'
<1> SUFFICES ASSUME NEW m \in Ids
             PROVE  messages'[m].lease # "none" <=> messages'[m].status = "sending"
  BY DEF LeaseIffSending, StatusIn
<1>1. messages[m].lease # "none" <=> messages[m].status = "sending"
  BY DEF Inv, LeaseIffSending, StatusIn
<1>2. CASE Untouched(m)
  BY <1>1, <1>2 DEF Untouched
<1>3. CASE Inserted(m)
  BY <1>3 DEF Inserted, NewRow
<1>4. CASE Deleted(m)
  BY <1>4 DEF Deleted, NoRow
<1>5. CASE Handed(m)
  BY <1>5, RowFields, LeasedFields DEF Inv, Handed
<1>6. CASE Closes(m)
  BY <1>6 DEF Closes, Closed
<1>7. CASE Returns(m)
  BY <1>7 DEF Returns
<1> QED
  BY <1>2, <1>3, <1>4, <1>5, <1>6, <1>7 DEF RowStep

LEMMA ReasonKept ==
  ASSUME Inv, \A m \in Ids : RowStep(m)
  PROVE  FailReasonMatches'
<1> SUFFICES ASSUME NEW m \in Ids
             PROVE  messages'[m].failReason # "none" <=> messages'[m].status = "failed"
  BY DEF FailReasonMatches, StatusIn
<1>1. messages[m].failReason # "none" <=> messages[m].status = "failed"
  BY DEF Inv, FailReasonMatches, StatusIn
<1>2. CASE Untouched(m)
  BY <1>1, <1>2 DEF Untouched
<1>3. CASE Inserted(m)
  BY <1>3 DEF Inserted, NewRow
<1>4. CASE Deleted(m)
  BY <1>4 DEF Deleted, NoRow
<1>5. CASE Handed(m)
  BY <1>1, <1>5, RowFields, LeasedFields DEF Inv, Handed, Claimable, StatusIn
<1>6. CASE Closes(m)
  BY <1>6 DEF Closes
<1>7. CASE Returns(m)
  BY <1>7 DEF Returns
<1> QED
  BY <1>2, <1>3, <1>4, <1>5, <1>6, <1>7 DEF RowStep

LEMMA BudgetKept ==
  ASSUME Inv, Next, TypeOK', \A m \in Ids : RowStep(m)
  PROVE  AttemptBudget'
<1> SUFFICES ASSUME NEW m \in Ids
             PROVE  /\ messages'[m].attempts <= MaxAttempts
                    /\ messages'[m].status \in {"queued", "scheduled"}
                         => messages'[m].attempts < MaxAttempts
                    /\ \A d \in Devices :
                         /\ sims'[d][m] <= handed'[d][m]
                         /\ handed'[d][m] <= MaxAttempts
                         /\ messages'[m].status # "absent" => handed'[d][m] <= messages'[m].attempts
  BY DEF AttemptBudget, StatusIn, Present
<1>1. /\ messages[m].attempts <= MaxAttempts
      /\ messages[m].status \in {"queued", "scheduled"} => messages[m].attempts < MaxAttempts
      /\ \A d \in Devices :
           /\ sims[d][m] <= handed[d][m]
           /\ handed[d][m] <= MaxAttempts
           /\ messages[m].status # "absent" => handed[d][m] <= messages[m].attempts
  BY DEF Inv, AttemptBudget, StatusIn, Present
<1>2. /\ MaxAttempts \in Nat \ {0}
      /\ messages[m].attempts \in Nat
      /\ \A d \in Devices : handed[d][m] \in Nat /\ sims[d][m] \in Nat
  BY MessageQueueAssumption, RowFields, HandedType DEF Inv
<1>3. ASSUME NEW d \in Devices, handed'[d][m] = handed[d][m] \/ handed'[d][m] = handed[d][m] + 1
      PROVE  sims'[d][m] <= handed'[d][m]
  BY <1>1, <1>2, <1>3, NextSims DEF Inv
<1>4. CASE Untouched(m)
  BY <1>1, <1>2, <1>3, <1>4 DEF Untouched, Stays
<1>5. CASE Inserted(m)
  <2>1. messages'[m].attempts = 0
    BY <1>5 DEF Inserted, NewRow
  <2>2. \A d \in Devices : handed[d][m] = 0 /\ handed'[d][m] = 0
    BY <1>5 DEF Inserted, Inv, FreshIds
  <2> QED
    BY <1>2, <1>3, <2>1, <2>2
<1>6. CASE Deleted(m)
  BY <1>1, <1>2, <1>3, <1>6 DEF Deleted, NoRow
<1>7. CASE Handed(m)
  <2>1. PICK c \in Devices :
          /\ m \in Claimable(c)
          /\ messages'[m] = Leased(messages[m], c)
          /\ \A d \in Devices : handed'[d][m] = IF d = c THEN handed[d][m] + 1 ELSE handed[d][m]
    BY <1>7 DEF Handed
  <2>2. messages'[m].status = "sending" /\ messages'[m].attempts = messages[m].attempts + 1
    BY <2>1, RowFields, LeasedFields DEF Inv
  <2>3. messages[m].status = "queued" /\ messages[m].attempts < MaxAttempts
    BY <1>1, <2>1 DEF Claimable, StatusIn
  <2>4. ASSUME NEW d \in Devices
        PROVE  handed'[d][m] <= messages[m].attempts + 1
    BY <1>1, <1>2, <2>1, <2>3
  <2>5. ASSUME NEW d \in Devices
        PROVE  handed'[d][m] \in Nat
    BY <1>2, <2>1
  <2> QED
    BY <1>2, <1>3, <2>1, <2>2, <2>3, <2>4, <2>5
<1>8. CASE Closes(m)
  BY <1>1, <1>2, <1>3, <1>8 DEF Closes, Stays, Closed, Present
<1>9. CASE Returns(m)
  BY <1>1, <1>2, <1>3, <1>9 DEF Returns, Stays, StatusIn
<1> QED
  BY <1>4, <1>5, <1>6, <1>7, <1>8, <1>9 DEF RowStep

LEMMA OnePhoneKept ==
  ASSUME Inv, TypeOK', \A m \in Ids : RowStep(m)
  PROVE  OnePhonePerMessage'
<1> SUFFICES ASSUME NEW m \in Ids, NEW d \in Devices, handed'[d][m] > 0
             PROVE  /\ messages'[m].status # "absent" => messages'[m].device = d
                    /\ \A e \in Devices : handed'[e][m] > 0 => e = d
  BY DEF OnePhonePerMessage, Present
<1>1. ASSUME NEW e \in Devices, handed[e][m] > 0
      PROVE  /\ messages[m].status # "absent" => messages[m].device = e
             /\ \A f \in Devices : handed[f][m] > 0 => f = e
  BY <1>1 DEF Inv, OnePhonePerMessage, Present
<1>2. \A e \in Devices : handed[e][m] \in Nat
  BY HandedType DEF Inv
<1>3. CASE Untouched(m)
  BY <1>1, <1>3 DEF Untouched, Stays
<1>4. CASE Inserted(m)
  BY <1>4 DEF Inserted, Inv, FreshIds
<1>5. CASE Deleted(m)
  BY <1>1, <1>5 DEF Deleted, NoRow
<1>6. CASE Handed(m)
  <2>1. PICK c \in Devices :
          /\ m \in Claimable(c)
          /\ messages'[m] = Leased(messages[m], c)
          /\ \A e \in Devices : handed'[e][m] = IF e = c THEN handed[e][m] + 1 ELSE handed[e][m]
    BY <1>6 DEF Handed
  <2>2. messages'[m].device = c
    BY <2>1, RowFields, LeasedFields DEF Inv
  <2>3. ASSUME NEW e \in Devices, handed'[e][m] > 0
        PROVE  e = c
    <3>1. messages[m].status = "queued" /\ messages[m].device \in {c, NoDevice}
      BY <2>1 DEF Claimable, StatusIn
    <3>2. CASE handed[e][m] > 0
      BY <1>1, <3>1, <3>2, MessageQueueAssumption
    <3>3. CASE ~(handed[e][m] > 0)
      BY <2>1, <2>3, <3>3
    <3> QED
      BY <3>2, <3>3
  <2> QED
    BY <2>2, <2>3
<1>7. CASE Closes(m)
  BY <1>1, <1>7 DEF Closes, Stays, Present
<1>8. CASE Returns(m)
  BY <1>1, <1>8 DEF Returns, Stays, StatusIn
<1> QED
  BY <1>3, <1>4, <1>5, <1>6, <1>7, <1>8 DEF RowStep

LEMMA TenantsKept ==
  ASSUME Inv, TypeOK', \A m \in Ids : RowStep(m)
  PROVE  TenantIsolation'
<1> SUFFICES ASSUME NEW m \in Ids
             PROVE  /\ messages'[m].device # NoDevice
                         => messages'[m].user = Owner[messages'[m].device]
                    /\ \A d \in Devices :
                         (messages'[m].status # "absent" /\ handed'[d][m] > 0)
                           => messages'[m].user = Owner[d]
  BY DEF TenantIsolation, Present, Belongs
<1>1. /\ messages[m].device # NoDevice => messages[m].user = Owner[messages[m].device]
      /\ \A d \in Devices : (messages[m].status # "absent" /\ handed[d][m] > 0)
                               => messages[m].user = Owner[d]
  BY DEF Inv, TenantIsolation, Present, Belongs
<1>2. CASE Untouched(m)
  BY <1>1, <1>2 DEF Untouched, Stays
<1>3. CASE Inserted(m)
  <2>1. \A d \in Devices : ~(handed'[d][m] > 0)
    BY <1>3 DEF Inserted, Inv, FreshIds
  <2>2. messages'[m].device # NoDevice => messages'[m].user = Owner[messages'[m].device]
    BY <1>3 DEF Inserted, NewRow
  <2> QED
    BY <2>1, <2>2
<1>4. CASE Deleted(m)
  BY <1>4 DEF Deleted, NoRow
<1>5. CASE Handed(m)
  <2>1. PICK c \in Devices :
          /\ m \in Claimable(c)
          /\ messages'[m] = Leased(messages[m], c)
          /\ \A e \in Devices : handed'[e][m] = IF e = c THEN handed[e][m] + 1 ELSE handed[e][m]
    BY <1>5 DEF Handed
  <2>2. messages'[m].device = c /\ messages'[m].user = messages[m].user
    BY <2>1, RowFields, LeasedFields DEF Inv
  <2>3. messages[m].user = Owner[c] /\ messages[m].status = "queued"
    BY <2>1 DEF Claimable, StatusIn, Belongs
  <2> QED
    BY <1>1, <2>1, <2>2, <2>3
<1>6. CASE Closes(m)
  BY <1>1, <1>6 DEF Closes, Stays, Present
<1>7. CASE Returns(m)
  BY <1>1, <1>7 DEF Returns, Stays, StatusIn
<1> QED
  BY <1>2, <1>3, <1>4, <1>5, <1>6, <1>7 DEF RowStep

-----------------------------------------------------------------------------
(* The theorems.                                                           *)

LEMMA InitInv == Init => Inv
<1> SUFFICES ASSUME Init
             PROVE  Inv
  OBVIOUS
<1>1. \A m \in Ids : messages[m] = NoRow
  BY DEF Init
<1>2. \A d \in Devices, m \in Ids : handed[d][m] = 0 /\ sims[d][m] = 0
  BY DEF Init
<1>3. FreshIds /\ AbsentIsUnowned
  BY <1>1, <1>2 DEF FreshIds, AbsentIsUnowned, Present, Belongs, NoRow
<1>4. LeaseIffSending /\ FailReasonMatches
  BY <1>1 DEF LeaseIffSending, FailReasonMatches, StatusIn, NoRow
<1>5. AttemptBudget
  BY <1>1, <1>2, MessageQueueAssumption DEF AttemptBudget, Present, StatusIn, NoRow
<1>6. OnePhonePerMessage /\ TenantIsolation
  BY <1>1, <1>2 DEF OnePhonePerMessage, TenantIsolation, Present, NoRow
<1> QED
  BY InitType, <1>3, <1>4, <1>5, <1>6 DEF Inv

LEMMA NextInv == Inv /\ [Next]_vars => Inv'
<1>1. ASSUME Inv, Next
      PROVE  Inv'
  <2>1. TypeOK'
    BY <1>1, NextType DEF Inv
  <2>2. \A m \in Ids : RowStep(m)
    BY <1>1, NextRows DEF Inv
  <2>3. nextId' >= nextId
    BY <1>1, NextIdGrows DEF Inv
  <2> QED
    BY <1>1, <2>1, <2>2, <2>3, FreshKept, UnownedKept, LeaseKept, ReasonKept, BudgetKept,
       OnePhoneKept, TenantsKept DEF Inv
<1>2. ASSUME Inv, UNCHANGED vars
      PROVE  Inv'
  BY <1>2
  DEF Inv, vars, TypeOK, FreshIds, AbsentIsUnowned, LeaseIffSending, FailReasonMatches,
      AttemptBudget, OnePhonePerMessage, TenantIsolation, Present, Belongs, StatusIn
<1> QED
  BY <1>1, <1>2

LEMMA InvHolds == Spec => []Inv
BY InitInv, NextInv, PTL DEF Spec

\* A row has a lease exactly while it is being sent, so the reaper sees every
\* row that a phone has claimed and not answered.
THEOREM LeaseTheorem == Spec => []LeaseIffSending
BY InvHolds, PTL DEF Inv

\* A failure reason is recorded exactly for failed rows.
THEOREM FailReasonTheorem == Spec => []FailReasonMatches
BY InvHolds, PTL DEF Inv

\* No phone is given or transmits more than MaxAttempts copies of a message.
THEOREM AttemptTheorem == Spec => []AttemptBudget
BY InvHolds, PTL DEF Inv

\* All copies of a message go to one phone.
THEOREM OnePhoneTheorem == Spec => []OnePhonePerMessage
BY InvHolds, PTL DEF Inv

\* No phone is given a message of another account.
THEOREM TenantTheorem == Spec => []TenantIsolation
BY InvHolds, PTL DEF Inv

-----------------------------------------------------------------------------
(* A closed message stays closed.                                          *)

LEMMA RowStepCloses ==
  ASSUME NEW m \in Ids, Inv, RowStep(m), StatusIn(m, Closed)
  PROVE  messages'[m].status \in Closed \cup {"absent"}
<1>1. ~Inserted(m)
  BY DEF Inserted, Inv, TypeOK, FreshIds, Present, StatusIn, Closed
<1>2. ~Handed(m) /\ ~Returns(m)
  BY DEF Handed, Claimable, Returns, StatusIn, Closed
<1> QED
  BY <1>1, <1>2 DEF RowStep, Untouched, Deleted, NoRow, Closes, StatusIn

\* A message that was sent, delivered, failed or canceled never returns to the
\* queue: late acks, reports, the reaper and the promotion included.
THEOREM ClosedTheorem == Spec => ClosedStaysClosed
<1>1. Inv /\ [Next]_vars
        => [\A m \in Ids : StatusIn(m, Closed) => StatusIn(m, Closed \cup {"absent"})']_vars
  BY NextRows, RowStepCloses DEF Inv, StatusIn
<1> QED
  BY <1>1, InvHolds, PTL DEF Spec, ClosedStaysClosed
-----------------------------------------------------------------------------
(* Sums of a function over a finite set, as the community modules define   *)
(* them: by a choice of the order.  A finite set of counterexamples has a  *)
(* smallest one (SmallestSet), which stands in for induction.              *)

\* The element the fold takes first, and the function it recurses with.
Some(s) == CHOOSE x \in s : TRUE
Sums(f, S, g) == g = [s \in SUBSET S |-> IF s = {} THEN 0 ELSE f[Some(s)] + g[s \ {Some(s)}]]

\* Among the subsets of a finite set that have a property, one has no smaller one.
LEMMA SmallestSet ==
  ASSUME NEW S, IsFiniteSet(S), NEW F, F \subseteq SUBSET S, F # {}
  PROVE  \E T \in F : \A U \in F : U \subseteq T => U = T
<1>1. IsWellFoundedOn(StrictSubsetOrdering(S), SUBSET S)
  BY FS_StrictSubsetOrderingWellFounded, FS_FiniteSubsetsOfFinite
<1>2. PICK T \in F : \A U \in F : <<U, T>> \notin StrictSubsetOrdering(S)
  BY <1>1, WFMin
<1> QED
  BY <1>2 DEF StrictSubsetOrdering

LEMMA SumIs ==
  ASSUME NEW f, NEW S
  PROVE  SumFunctionOnSet(f, S) = (CHOOSE g : Sums(f, S, g))[S]
BY DEF SumFunctionOnSet, FoldFunctionOnSet, MapThenFoldSet, Sums, Some

LEMMA SumAt ==
  ASSUME NEW f, NEW S, NEW g, Sums(f, S, g), NEW s \in SUBSET S
  PROVE  /\ s = {} => g[s] = 0
         /\ s # {} => /\ Some(s) \in s
                      /\ g[s] = f[Some(s)] + g[s \ {Some(s)}]
<1>1. s # {} => Some(s) \in s
  BY DEF Some
<1>2. g[s] = IF s = {} THEN 0 ELSE f[Some(s)] + g[s \ {Some(s)}]
  BY DEF Sums
<1> QED
  BY <1>1, <1>2

LEMMA SumUnique ==
  ASSUME NEW f, NEW S, NEW T, NEW g, NEW h, Sums(f, S, g), Sums(f, T, h), 
         IsFiniteSet(S), NEW u, u \subseteq S, u \subseteq T
  PROVE  g[u] = h[u]
<1> DEFINE Bad == {s \in SUBSET S : s \subseteq T /\ g[s] # h[s]}
<1>1. SUFFICES ASSUME Bad # {} PROVE FALSE
  OBVIOUS
<1>2. PICK s \in Bad : \A U \in Bad : U \subseteq s => U = s
  <2>1. Bad \subseteq SUBSET S
    OBVIOUS
  <2> HIDE DEF Bad
  <2> QED BY <1>1, <2>1, SmallestSet
<1>3. s # {}
  BY <1>2, SumAt
<1>4. Some(s) \in s
  BY <1>3 DEF Some
<1>5. s \ {Some(s)} \notin Bad
  BY <1>2, <1>4
<1>6. g[s \ {Some(s)}] = h[s \ {Some(s)}]
  BY <1>5
<1>7. g[s] = f[Some(s)] + g[s \ {Some(s)}] /\ h[s] = f[Some(s)] + h[s \ {Some(s)}]
  BY <1>3, SumAt
<1> QED
  BY <1>6, <1>7

LEMMA SumExists ==
  ASSUME NEW f, NEW S, IsFiniteSet(S)
  PROVE  \E g : Sums(f, S, g)
<1> DEFINE Bad == {T \in SUBSET S : ~ \E g : Sums(f, T, g)}
           Sum(T) == SumFunctionOnSet(f, T)
<1> SUFFICES ASSUME Bad # {} PROVE FALSE
  OBVIOUS
<1>1. PICK T \in Bad : \A U \in Bad : U \subseteq T => U = T
  <2>1. Bad \subseteq SUBSET S
    OBVIOUS
  <2> HIDE DEF Bad
  <2> QED BY <2>1, SmallestSet
<1>2. ASSUME NEW U, U \subseteq T, U # T
      PROVE  Sums(f, U, CHOOSE g : Sums(f, U, g))
  <2>1. \E g : Sums(f, U, g)
    BY <1>1, <1>2
  <2> QED BY <2>1
<1> DEFINE h == [s \in SUBSET T |-> IF s = {} THEN 0 
                   ELSE IF s = T THEN f[Some(T)] + Sum(T \ {Some(T)}) ELSE Sum(s)]
<1>3. ASSUME NEW s \in SUBSET T
      PROVE  h[s] = IF s = {} THEN 0 ELSE f[Some(s)] + h[s \ {Some(s)}]
  <2>1. CASE s = {}
    BY <2>1
  <2>2. ASSUME s # {}, s # T PROVE Sum(s) = f[Some(s)] + Sum(s \ {Some(s)})
    <3> DEFINE r == s \ {Some(s)}
    <3>1. Some(s) \in s /\ r \subseteq s /\ r # T
      BY <2>2 DEF Some
    <3>2. /\ Sums(f, s, CHOOSE g : Sums(f, s, g))
          /\ Sums(f, r, CHOOSE g : Sums(f, r, g))
      BY <2>2, <3>1, <1>2
    <3>3. Sum(s) = (CHOOSE g : Sums(f, s, g))[s]
      BY SumIs
    <3>4. Sum(r) = (CHOOSE g : Sums(f, r, g))[r]
      BY SumIs
    <3>5. IsFiniteSet(s)
      BY FS_Subset
    <3>6. (CHOOSE g : Sums(f, s, g))[r] = (CHOOSE g : Sums(f, r, g))[r]
      BY <3>1, <3>2, <3>5, SumUnique
    <3>7. (CHOOSE g : Sums(f, s, g))[s] = f[Some(s)] + (CHOOSE g : Sums(f, s, g))[r]
      BY <2>2, <3>2, SumAt
    <3> QED
      BY <3>3, <3>4, <3>6, <3>7
  <2>3. ASSUME s # {} PROVE h[s \ {Some(s)}] = Sum(s \ {Some(s)})
    <3>1. Some(s) \in s
      BY <2>3 DEF Some
    <3>2. s \ {Some(s)} \in SUBSET T /\ s \ {Some(s)} # T
      BY <3>1
    <3>3. CASE s \ {Some(s)} = {}
      <4>1. Sum({}) = 0
        <5>1. {} # T
           BY <3>2, <3>3
        <5>2. Sums(f, {}, CHOOSE g : Sums(f, {}, g))
          BY <1>2, <5>1
        <5> QED BY <5>2, SumIs, SumAt
      <4> QED BY <3>2, <3>3, <4>1
    <3> QED BY <3>2, <3>3
  <2>4. CASE s # {} /\ s # T
    BY <2>2, <2>3, <2>4
  <2>5. CASE s # {} /\ s = T
    BY <2>3, <2>5
  <2> QED BY <2>1, <2>4, <2>5
<1>4. Sums(f, T, h)
  <2> HIDE DEF Sum
  <2> QED BY <1>3 DEF Sums
<1> QED
  BY <1>1, <1>4

\* What the sum of the community modules computes.
LEMMA SumStep ==
  ASSUME NEW f, NEW S, IsFiniteSet(S)
  PROVE  /\ SumFunctionOnSet(f, {}) = 0
         /\ S # {} => SumFunctionOnSet(f, S) = f[Some(S)] + SumFunctionOnSet(f, S \ {Some(S)})
<1> DEFINE The(T) == CHOOSE g : Sums(f, T, g)
           R == S \ {Some(S)}
<1>1. IsFiniteSet(R) /\ IsFiniteSet({})
  BY FS_RemoveElement, FS_EmptySet
<1>2. Sums(f, S, The(S)) /\ Sums(f, R, The(R)) /\ Sums(f, {}, The({}))
  BY <1>1, SumExists
<1>3. The({})[{}] = 0
  BY <1>2, SumAt
<1>4. ASSUME S # {} PROVE The(S)[S] = f[Some(S)] + The(S)[R]
  BY <1>2, <1>4, SumAt
<1>5. The(S)[R] = The(R)[R]
  BY <1>2, SumUnique
<1> QED
  BY <1>3, <1>4, <1>5, SumIs

LEMMA SumType ==
  ASSUME NEW f, NEW S, IsFiniteSet(S), \A x \in S : f[x] \in Nat
  PROVE  SumFunctionOnSet(f, S) \in Nat
<1> DEFINE Bad == {T \in SUBSET S : SumFunctionOnSet(f, T) \notin Nat}
<1>1. Bad \subseteq SUBSET S
  OBVIOUS
<1> SUFFICES ASSUME Bad # {} PROVE FALSE
  OBVIOUS
<1>2. PICK T \in Bad : \A U \in Bad : U \subseteq T => U = T
  <2> HIDE DEF Bad
  <2> QED BY <1>1, SmallestSet
<1>3. IsFiniteSet(T) /\ T # {}
  <2>1. T \in SUBSET S /\ SumFunctionOnSet(f, T) \notin Nat
    OBVIOUS
  <2>2. SumFunctionOnSet(f, {}) = 0
    BY SumStep
  <2>3. T # {}
    BY <2>1, <2>2
  <2> QED BY <2>1, <2>3, FS_Subset
<1>4. Some(T) \in T
  BY <1>3 DEF Some
<1>5. SumFunctionOnSet(f, T \ {Some(T)}) \in Nat
  BY <1>2, <1>4
<1> QED
  BY <1>3, <1>4, <1>5, SumStep

\* Whatever order the fold takes, an element adds its value.
LEMMA SumAdd ==
  ASSUME NEW f, NEW S, IsFiniteSet(S), \A x \in S : f[x] \in Nat, NEW y \in S
  PROVE  SumFunctionOnSet(f, S) = f[y] + SumFunctionOnSet(f, S \ {y})
<1> DEFINE Sum(T) == SumFunctionOnSet(f, T)
           Bad == {T \in SUBSET S : \E x \in T : Sum(T) # f[x] + Sum(T \ {x})}
<1>1. Bad \subseteq SUBSET S
  OBVIOUS
<1> SUFFICES ASSUME Bad # {} PROVE FALSE
  OBVIOUS
<1>2. PICK T \in Bad : \A U \in Bad : U \subseteq T => U = T
  <2> HIDE DEF Bad
  <2> QED BY <1>1, SmallestSet
<1>3. PICK x \in T : Sum(T) # f[x] + Sum(T \ {x})
  OBVIOUS
<1> DEFINE z == Some(T)
<1>4. z \in T
  BY DEF Some
<1>5. IsFiniteSet(T) /\ IsFiniteSet(T \ {x, z})
  BY FS_Subset
<1>6. Sum(T) = f[z] + Sum(T \ {z})
  BY <1>4, <1>5, SumStep
<1>7. x # z
  BY <1>3, <1>6
<1>12. ASSUME NEW U \in SUBSET T, U # T, NEW w \in U PROVE Sum(U) = f[w] + Sum(U \ {w})
  BY <1>2, <1>12
<1>8. Sum(T \ {z}) = f[x] + Sum((T \ {z}) \ {x})
  <2>1. T \ {z} \in SUBSET T /\ T \ {z} # T /\ x \in T \ {z}
    BY <1>4, <1>7
  <2> HIDE DEF Sum
  <2> QED BY <2>1, <1>12
<1>9. Sum(T \ {x}) = f[z] + Sum((T \ {x}) \ {z})
  <2>1. T \ {x} \in SUBSET T /\ T \ {x} # T /\ z \in T \ {x}
    BY <1>4, <1>7
  <2> HIDE DEF Sum
  <2> QED BY <2>1, <1>12
<1>10. (T \ {z}) \ {x} = T \ {x, z} /\ (T \ {x}) \ {z} = T \ {x, z}
  OBVIOUS
<1>11. Sum(T \ {x, z}) \in Nat /\ f[x] \in Nat /\ f[z] \in Nat
  BY <1>4, <1>5, SumType
<1> QED
  BY <1>3, <1>6, <1>8, <1>9, <1>10, <1>11

LEMMA SumSame ==
  ASSUME NEW f, NEW g, NEW S, IsFiniteSet(S), \A x \in S : f[x] = g[x]
  PROVE  SumFunctionOnSet(f, S) = SumFunctionOnSet(g, S)
<1> DEFINE Bad == {T \in SUBSET S : SumFunctionOnSet(f, T) # SumFunctionOnSet(g, T)}
<1>1. Bad \subseteq SUBSET S
  OBVIOUS
<1> SUFFICES ASSUME Bad # {} PROVE FALSE
  OBVIOUS
<1>2. PICK T \in Bad : \A U \in Bad : U \subseteq T => U = T
  <2> HIDE DEF Bad
  <2> QED BY <1>1, SmallestSet
<1>3. IsFiniteSet(T) /\ T # {}
  BY FS_Subset, SumStep
<1>4. Some(T) \in T
  BY <1>3 DEF Some
<1>5. SumFunctionOnSet(f, T \ {Some(T)}) = SumFunctionOnSet(g, T \ {Some(T)})
  BY <1>2, <1>4
<1> QED
  BY <1>3, <1>4, <1>5, SumStep

-----------------------------------------------------------------------------
(* The daily counter of a phone.  A sum over the messages needs no           *)
(* arithmetic of their ids.                                                 *)

HIDE DEF Ids

\* Messages phone d has put on its SIM that will never be in sending again.
Spent(d) == {m \in Ids : sims[d][m] > 0 /\ StatusIn(m, Closed \cup {"absent"})}

AckBound ==
  \A d \in Devices : sentToday[d] <= Transmitted(d) + Cardinality(Spent(d))

LEMMA IdsFinite == IsFiniteSet(Ids)
BY FS_Interval, MessageQueueAssumption DEF Ids

LEMMA SpentFinite ==
  ASSUME NEW d \in Devices
  PROVE  /\ IsFiniteSet(Spent(d)) /\ Cardinality(Spent(d)) \in Nat
         /\ IsFiniteSet(Spent(d)') /\ Cardinality(Spent(d)') \in Nat
<1>1. Spent(d) \in SUBSET Ids /\ Spent(d)' \in SUBSET Ids
  BY DEF Spent
<1> QED
  BY <1>1, IdsFinite, FS_Subset, FS_CardinalityType

LEMMA TransmittedType ==
  ASSUME TypeOK, NEW d \in Devices
  PROVE  Transmitted(d) \in Nat
<1>1. DOMAIN sims[d] = Ids /\ \A m \in Ids : sims[d][m] \in Nat
  BY DEF TypeOK
<1> QED
  BY <1>1, IdsFinite, SumType DEF Transmitted, SumFunction

\* A transmission is counted once.
LEMMA TransmittedGrows ==
  ASSUME TypeOK, NEW d \in Devices, NEW m \in Ids, Transmit(d, m)
  PROVE  /\ Transmitted(d)' = Transmitted(d) + 1
         /\ \A e \in Devices : e # d => Transmitted(e)' = Transmitted(e)
<1> DEFINE f == sims[d]
           g == sims'[d]
<1>1. /\ DOMAIN f = Ids /\ DOMAIN g = Ids
      /\ \A i \in Ids : f[i] \in Nat /\ g[i] \in Nat
      /\ g[m] = f[m] + 1
      /\ \A i \in Ids \ {m} : g[i] = f[i]
      /\ \A e \in Devices : e # d => sims'[e] = sims[e]
  BY DEF TypeOK, Transmit
<1>2. IsFiniteSet(Ids \ {m})
  BY IdsFinite, FS_RemoveElement
<1>3. SumFunctionOnSet(f, Ids \ {m}) = SumFunctionOnSet(g, Ids \ {m})
  BY <1>1, <1>2, SumSame
<1>4. SumFunctionOnSet(f, Ids) = f[m] + SumFunctionOnSet(f, Ids \ {m})
  BY <1>1, IdsFinite, SumAdd
<1>5. SumFunctionOnSet(g, Ids) = g[m] + SumFunctionOnSet(g, Ids \ {m})
  BY <1>1, IdsFinite, SumAdd
<1>6. SumFunctionOnSet(f, Ids \ {m}) \in Nat
  BY <1>1, <1>2, SumType
<1>7. SumFunctionOnSet(g, Ids) = SumFunctionOnSet(f, Ids) + 1
  BY <1>1, <1>3, <1>4, <1>5, <1>6
<1> QED
  BY <1>1, <1>7 DEF Transmitted, SumFunction

LEMMA SpentGrows ==
  ASSUME Inv, Next, NEW d \in Devices
  PROVE  Spent(d) \subseteq Spent(d)'
<1> SUFFICES ASSUME NEW m \in Ids, sims[d][m] > 0, StatusIn(m, Closed \cup {"absent"})
             PROVE  sims'[d][m] > 0 /\ messages'[m].status \in Closed \cup {"absent"}
  BY DEF Spent, StatusIn
<1>1. sims[d][m] \in Nat /\ handed[d][m] \in Nat /\ sims[d][m] <= handed[d][m]
  BY HandedType DEF Inv, AttemptBudget
<1>2. sims'[d][m] > 0
  BY <1>1, NextSims DEF Inv
<1>3. RowStep(m)
  BY NextRows DEF Inv
<1>4. CASE StatusIn(m, Closed)
  BY <1>2, <1>3, <1>4, RowStepCloses
<1>5. CASE ~Present(m)
  <2>1. ~Inserted(m)
    BY <1>1 DEF Inserted, Inv, FreshIds
  <2>2. ~Handed(m) /\ ~Returns(m) /\ ~Closes(m) /\ ~Deleted(m)
    BY <1>5 DEF Handed, Claimable, Returns, Closes, Deleted, StatusIn, Present
  <2>3. Untouched(m)
    BY <1>3, <2>1, <2>2 DEF RowStep
  <2> QED
    BY <1>2, <1>5, <2>3 DEF Untouched, Present
<1> QED
  BY <1>4, <1>5 DEF StatusIn, Present

\* An ack spends the messages it counts.
LEMMA AckSpends ==
  ASSUME Inv, NEW d \in Devices, NEW S \in SUBSET Ids, Ack(d, S)
  PROVE  Cardinality(Spent(d)) + Cardinality(Acked(d, S)) <= Cardinality(Spent(d)')
<1> DEFINE A == Acked(d, S)
<1>1. A \in SUBSET Ids /\ \A m \in A : sims[d][m] > 0 /\ StatusIn(m, {"sending"})
  BY DEF Acked, Ack
<1>2. A \cap Spent(d) = {}
  BY <1>1 DEF Spent, StatusIn, Closed
<1>3. A \subseteq Spent(d)'
  <2>1. ASSUME NEW m \in A PROVE messages'[m].status = "sent"
    <3>1. messages[m] \in Row
      BY <1>1 DEF Inv, TypeOK
    <3> QED BY <1>1, <3>1 DEF Ack, Row
  <2>2. sims' = sims
    BY DEF Ack, phoneVars
  <2> QED
    BY <1>1, <2>1, <2>2 DEF Spent, StatusIn, Closed
<1>4. Next
  BY DEF Next, DeviceStep
<1>5. A \cup Spent(d) \in SUBSET (Spent(d)')
  BY <1>3, <1>4, SpentGrows
<1>6. IsFiniteSet(A) /\ Cardinality(A) \in Nat
  BY <1>1, IdsFinite, FS_Subset, FS_CardinalityType
<1>7. Cardinality(A \cup Spent(d)) = Cardinality(A) + Cardinality(Spent(d))
  <2>1. Cardinality(A \cap Spent(d)) = 0
    BY <1>2, FS_EmptySet
  <2>2. Cardinality(A \cup Spent(d)) =
          Cardinality(A) + Cardinality(Spent(d)) - Cardinality(A \cap Spent(d))
    BY <1>6, SpentFinite, FS_Union
  <2> QED BY <1>6, <2>1, <2>2, SpentFinite
<1>8. Cardinality(A \cup Spent(d)) <= Cardinality(Spent(d)')
  BY <1>5, SpentFinite, FS_Subset
<1> QED
  BY <1>6, <1>7, <1>8, SpentFinite

\* What a step other than an ack or a heartbeat does to the counters.
LEMMA CountersKept ==
  ASSUME TypeOK, Next, NEW d \in Devices
  PROVE  /\ Transmitted(d)' = Transmitted(d) \/ Transmitted(d)' = Transmitted(d) + 1
         /\ \/ sentToday'[d] = sentToday[d]
            \/ sentToday'[d] \in 0..Transmitted(d) /\ Transmitted(d)' = Transmitted(d)
            \/ \E S \in SUBSET Ids : Ack(d, S)
<1>1. ASSUME NEW e \in Devices, NEW m \in Ids, Transmit(e, m)
      PROVE  /\ Transmitted(d)' = Transmitted(d) \/ Transmitted(d)' = Transmitted(d) + 1
             /\ sentToday'[d] = sentToday[d]
  BY <1>1, TransmittedGrows DEF Transmit
<1>2. ASSUME NEW e \in Devices, NEW S \in SUBSET Ids, Ack(e, S)
      PROVE  /\ Transmitted(d)' = Transmitted(d)
             /\ sentToday'[d] = sentToday[d] \/ Ack(d, S)
  BY <1>2 DEF Ack, phoneVars, Transmitted, TypeOK
<1>3. ASSUME NEW e \in Devices, NEW count \in 0..Transmitted(e), Heartbeat(e, count)
      PROVE  /\ Transmitted(d)' = Transmitted(d)
             /\ sentToday'[d] = sentToday[d] \/ sentToday'[d] \in 0..Transmitted(d)
  BY <1>3 DEF Heartbeat, phoneVars, Transmitted, TypeOK
<1>4. ASSUME UNCHANGED <<sims, sentToday>>
      PROVE  Transmitted(d)' = Transmitted(d) /\ sentToday'[d] = sentToday[d]
  BY <1>4 DEF Transmitted
<1>5. ASSUME NEW u \in Users, UserStep(u)
      PROVE  UNCHANGED <<sims, sentToday>>
  BY <1>5
  DEF UserStep, Send, Resend, Enqueue, Cancel, BulkCancel, CancelRows, BulkSetPriority,
      BulkDelete, ClearAll, Rewrite, phoneVars
<1>6. ASSUME Reaper \/ ClockStep
      PROVE  UNCHANGED <<sims, sentToday>>
  BY <1>6 DEF Reaper, ClockStep, LeaseExpires, DueArrives, Rewrite, phoneVars
<1>7. ASSUME NEW e \in Devices, DeviceStep(e)
      PROVE  \/ UNCHANGED <<sims, sentToday>>
             \/ \E m \in Ids : Transmit(e, m)
             \/ \E S \in SUBSET Ids : Ack(e, S)
             \/ \E count \in 0..Transmitted(e) : Heartbeat(e, count)
  BY <1>7
  DEF DeviceStep, Claim, Report, PhoneStops, PhoneReturns, DeleteDevice, Rewrite, phoneVars
<1> QED
  BY <1>1, <1>2, <1>3, <1>4, <1>5, <1>6, <1>7 DEF Next

LEMMA AckBoundKept ==
  ASSUME Inv, AckBound, Next
  PROVE  AckBound'
<1> SUFFICES ASSUME NEW d \in Devices
             PROVE  sentToday'[d] <= Transmitted(d)' + Cardinality(Spent(d)')
  BY DEF AckBound
<1>1. sentToday[d] <= Transmitted(d) + Cardinality(Spent(d))
  BY DEF AckBound
<1>2. Transmitted(d) \in Nat /\ sentToday[d] \in Nat
  BY TransmittedType DEF Inv, TypeOK
<1>3. Cardinality(Spent(d)) <= Cardinality(Spent(d)')
  BY SpentGrows, SpentFinite, FS_Subset
<1>4. ASSUME NEW S \in SUBSET Ids, Ack(d, S)
      PROVE  sentToday'[d] <= Transmitted(d)' + Cardinality(Spent(d)')
  <2>1. sentToday'[d] = sentToday[d] + Cardinality(Acked(d, S)) /\ Transmitted(d)' = Transmitted(d)
    BY <1>4 DEF Ack, Inv, TypeOK, phoneVars, Transmitted
  <2>2. Cardinality(Acked(d, S)) \in Nat
    <3>1. Acked(d, S) \in SUBSET Ids
      BY DEF Acked
    <3> QED BY <3>1, IdsFinite, FS_Subset, FS_CardinalityType
  <2> QED
    BY <1>1, <1>2, <1>4, <2>1, <2>2, AckSpends, SpentFinite
<1> QED
  BY <1>1, <1>2, <1>3, <1>4, CountersKept, SpentFinite DEF Inv

\* The daily counter of a phone never exceeds what it transmitted plus one ack
\* per message it transmitted: no ack is counted twice, requeued copies included.
THEOREM AckTheorem == Spec => []AckCountedOnce
<1>1. Init => AckBound
  <2> SUFFICES ASSUME Init, NEW d \in Devices PROVE sentToday[d] <= Transmitted(d) + Cardinality(Spent(d))
    BY DEF AckBound
  <2>1. sentToday[d] = 0 /\ Transmitted(d) \in Nat
    BY InitType, TransmittedType DEF Init
  <2> QED BY <2>1, SpentFinite
<1>2. Inv /\ AckBound /\ [Next]_vars => AckBound'
  <2>1. ASSUME AckBound, UNCHANGED vars PROVE AckBound'
    BY <2>1 DEF AckBound, vars, Spent, Transmitted, StatusIn
  <2> QED BY <2>1, AckBoundKept
<1>3. Inv /\ AckBound => AckCountedOnce
  <2> SUFFICES ASSUME Inv, AckBound, NEW d \in Devices
               PROVE  sentToday[d] <= Transmitted(d) + Cardinality({m \in Ids : sims[d][m] > 0})
    BY DEF AckCountedOnce
  <2> DEFINE T == {m \in Ids : sims[d][m] > 0}
  <2>1. T \in SUBSET Ids /\ Spent(d) \in SUBSET T
    BY DEF Spent
  <2>2. Cardinality(Spent(d)) <= Cardinality(T) /\ Cardinality(T) \in Nat
    BY <2>1, IdsFinite, FS_Subset, FS_CardinalityType
  <2>3. sentToday[d] \in Nat /\ Transmitted(d) \in Nat
    BY TransmittedType DEF Inv, TypeOK
  <2> HIDE DEF T
  <2> QED BY <2>2, <2>3, SpentFinite DEF AckBound, T
<1> QED
  BY <1>1, <1>2, <1>3, InvHolds, PTL DEF Spec

-----------------------------------------------------------------------------
(* A ledger of messages is the lives of its messages.                       *)

USE DEF Ids

\* The holders of a message change only when it is handed over.
LEMMA HoldersKept ==
  ASSUME NEW m \in Ids, \A d \in Devices : handed'[d][m] = handed[d][m]
  PROVE  Holders(m)' = Holders(m)
BY DEF Holders

LEMMA StepIsLifeStep ==
  ASSUME Inv, TypeOK', nextId' >= nextId, NEW m \in Ids, RowStep(m),
         (m >= nextId /\ m < nextId') => Inserted(m)
  PROVE  Lifecycle!LifeStep(m)
<1> USE DEF Lifecycle!LifeStep
<1>1. nextId \in Nat /\ nextId' \in Nat /\ m \in Nat
  BY MessageQueueAssumption DEF Inv, TypeOK
<1>2. m >= nextId => ~Present(m) /\ \A d \in Devices : handed[d][m] = 0
  BY DEF Inv, FreshIds
<1>3. CASE Untouched(m)
  <2>1. CASE Inserted(m)
    <3>1. messages'[m].status # "absent" /\ messages[m].status = "absent"
      BY <1>2, <2>1 DEF Inserted, NewRow, Present
    <3> QED
      BY <3>1, <1>3 DEF Untouched
  <2>2. CASE ~Inserted(m)
    <3>1. m >= nextId <=> m >= nextId'
      BY <1>1, <2>2
    <3>2. Stage(m)' = Stage(m)
      BY <1>3, <3>1 DEF Untouched, Stage, Present, StatusIn
    <3>3. Holders(m)' = Holders(m)
      BY <1>3, HoldersKept DEF Untouched, Stays
    <3> QED
      BY <1>3, <3>2, <3>3 DEF Lifecycle!Rests, Lifecycle!Becomes, Untouched, Stays
  <2> QED
    BY <2>1, <2>2
<1>4. CASE Inserted(m)
  <2>1. Stage(m) = "new" /\ Stage(m)' = "waiting"
    BY <1>1, <1>4 DEF Inserted, NewRow, Stage, Present, StatusIn
  <2>2. messages'[m].attempts = 0 /\ messages'[m].device \in Devices \cup {NoDevice}
    BY <1>4 DEF Inserted, NewRow
  <2>3. Holders(m)' = {}
    BY <1>1, <1>2, <1>4 DEF Inserted, Holders
  <2> QED
    BY <2>1, <2>2, <2>3 DEF Lifecycle!Submit, Lifecycle!Becomes
<1>5. CASE Deleted(m)
  <2>1. ~(m >= nextId) /\ ~(m >= nextId')
    BY <1>1, <1>2, <1>5 DEF Deleted
  <2>2. Stage(m) \in {"waiting", "leased", "closed"} /\ Stage(m)' = "gone"
    BY <2>1, <1>5 DEF Deleted, NoRow, Stage, Present
  <2>3. messages'[m].attempts = 0 /\ messages'[m].device = NoDevice
    BY <1>5 DEF Deleted, NoRow
  <2>4. Holders(m)' = Holders(m)
    BY <1>5, HoldersKept DEF Deleted
  <2> QED
    BY <2>2, <2>3, <2>4 DEF Lifecycle!Forget, Lifecycle!Becomes
<1>6. CASE Handed(m)
  <2>1. PICK d \in Devices :
          /\ m \in Claimable(d)
          /\ messages'[m] = Leased(messages[m], d)
          /\ \A e \in Devices : handed'[e][m] = IF e = d THEN handed[e][m] + 1 ELSE handed[e][m]
    BY <1>6 DEF Handed
  <2>2. messages[m].status = "queued" /\ messages[m].device \in {d, NoDevice}
    BY <2>1 DEF Claimable, StatusIn
  <2>3. ~(m >= nextId) /\ ~(m >= nextId')
    BY <1>1, <1>2, <2>2 DEF Present
  <2>4. /\ messages'[m].status = "sending"
        /\ messages'[m].device = d
        /\ messages'[m].attempts = messages[m].attempts + 1
    BY <2>1, RowFields, LeasedFields DEF Inv
  <2>5. Stage(m) = "waiting" /\ Stage(m)' = "leased"
    BY <2>2, <2>3, <2>4 DEF Stage, Present, StatusIn
  <2>6. messages[m].attempts < MaxAttempts
    BY <2>2 DEF Inv, AttemptBudget, StatusIn
  <2>7. Holders(m) \subseteq {d}
    BY <2>2, MessageQueueAssumption DEF Inv, OnePhonePerMessage, Present, Holders
  <2>8. \A e \in Devices : handed[e][m] \in Nat
    BY HandedType DEF Inv
  <2>9. Holders(m)' = {d}
    BY <2>1, <2>7, <2>8 DEF Holders
  <2> QED
    BY <2>2, <2>4, <2>5, <2>6, <2>7, <2>9 DEF Lifecycle!Hand, Lifecycle!Becomes
<1>7. CASE Closes(m)
  <2>1. ~(m >= nextId) /\ ~(m >= nextId')
    BY <1>1, <1>2, <1>7 DEF Closes
  <2>2. Stage(m) \in {"waiting", "leased", "closed"} /\ Stage(m)' = "closed"
    BY <2>1, <1>7 DEF Closes, Closed, Stage, Present, StatusIn
  <2>3. Holders(m)' = Holders(m)
    BY <1>7, HoldersKept DEF Closes, Stays
  <2> QED
    BY <1>7, <2>2, <2>3
    DEF Lifecycle!Close, Lifecycle!Rests, Lifecycle!Becomes, Closes, Stays
<1>8. CASE Returns(m)
  <2>1. ~(m >= nextId) /\ ~(m >= nextId')
    BY <1>1, <1>2, <1>8 DEF Returns, StatusIn, Present
  <2>2. Stage(m)' = "waiting"
    BY <2>1, <1>8 DEF Returns, Stage, Present, StatusIn
  <2>3. \/ Stage(m) = "waiting"
        \/ Stage(m) = "leased" /\ messages[m].attempts < MaxAttempts
    BY <2>1, <1>8 DEF Returns, Stage, Present, StatusIn
  <2>4. Holders(m)' = Holders(m)
    BY <1>8, HoldersKept DEF Returns, Stays
  <2> QED
    BY <1>8, <2>2, <2>3, <2>4
    DEF Lifecycle!Return, Lifecycle!Rests, Lifecycle!Becomes, Returns, Stays
<1> QED
  BY <1>3, <1>4, <1>5, <1>6, <1>7, <1>8 DEF RowStep

LEMMA InitIsLifeInit == Init => Lifecycle!LifeInit
<1> SUFFICES ASSUME Init
             PROVE  Lifecycle!LifeInit
  OBVIOUS
<1>1. ASSUME NEW m \in Ids
      PROVE  /\ Stage(m) = "new"
             /\ messages[m].attempts = 0
             /\ messages[m].device = NoDevice
             /\ Holders(m) = {}
  <2>1. m >= 1
    BY MessageQueueAssumption
  <2> QED
    BY <2>1 DEF Init, Stage, NoRow, Holders
<1> QED
  BY <1>1 DEF Lifecycle!LifeInit

LEMMA NextIsLifeNext ==
  ASSUME Inv, [Next]_vars
  PROVE  [Lifecycle!LifeNext]_(Lifecycle!lifeVars)
<1>1. CASE Next
  <2>1. TypeOK' /\ nextId' >= nextId
    BY <1>1, NextType, NextIdGrows DEF Inv
  <2>2. ASSUME NEW m \in Ids
        PROVE  Lifecycle!LifeStep(m)
    BY <1>1, <2>1, NextRows, DrawnIsInserted, StepIsLifeStep DEF Inv
  <2> QED
    BY <2>2 DEF Lifecycle!LifeNext
<1>2. CASE UNCHANGED vars
  BY <1>2 DEF vars, Lifecycle!lifeVars, Stage, Present, StatusIn, Holders
<1> QED
  BY <1>1, <1>2

\* Every behaviour of the ledger and its phones is a life of its messages.
THEOREM LifecycleTheorem == Spec => ImplementsLifecycle
<1>1. Inv /\ [Next]_vars => [Lifecycle!LifeNext]_(Lifecycle!lifeVars)
  BY NextIsLifeNext
<1> QED
  BY <1>1, InitIsLifeInit, InvHolds, PTL DEF Spec, Lifecycle!LifeSpec, ImplementsLifecycle
=============================================================================
