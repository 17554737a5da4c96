---------------------------- MODULE MessageQueue ----------------------------
(***************************************************************************)
(* The messages ledger of Xabarchi and the claim -> ack -> report protocol *)
(* between the API and the phones that put the messages on a SIM.          *)
(*                                                                         *)
(* A row of the ledger is a record; an id whose row was never inserted, or *)
(* was deleted, holds NoRow.  Every API request is one transaction and one *)
(* action; row locks between transactions are the subject of               *)
(* QueueTransactions and appear here only as the rows a claim skips.       *)
(*                                                                         *)
(* Time is abstract: a lease is running until LeaseExpires, a future send  *)
(* is due after DueArrives.  The network may lose, delay, repeat and       *)
(* reorder the calls of a phone: a lost claim response is a copy that is   *)
(* never transmitted, and an ack or a report may arrive, any number of     *)
(* times, at any moment after the phone had reason to send it.             *)
(***************************************************************************)
EXTENDS Naturals, FiniteSets, Functions

CONSTANTS
  Users,        (* accounts                                                *)
  Devices,      (* gateway phones                                          *)
  Owner,        (* the account of each phone, Device.user_id               *)
  Priorities,   (* PRIORITY_RANK: lower ranks are sent first               *)
  MaxAttempts,  (* Message.max_attempts                                    *)
  SmsPerMonth,  (* the plan's sms_per_month, for each account              *)
  MaxMessages,  (* bound of the model: how many rows are ever inserted     *)
  NoUser,       (* user of an id without a row                             *)
  NoDevice      (* NULL in Message.device_id                               *)

ASSUME MessageQueueAssumption ==
  /\ Owner \in [Devices -> Users]
  /\ Priorities \subseteq Nat
  /\ MaxAttempts \in Nat \ {0}
  /\ SmsPerMonth \in [Users -> Nat]
  /\ MaxMessages \in Nat
  /\ NoUser \notin Users
  /\ NoDevice \notin Devices

VARIABLES
  messages,     (* the ledger: id -> row                                   *)
  nextId,       (* the identity sequence of the ledger                     *)
  smsSent,      (* User.sms_sent_this_month                                *)
  sentToday,    (* Device.sent_today                                       *)
  paired,       (* devices whose row is live (deleted_at is NULL)          *)
  online,       (* phones that keep polling (outside the server)           *)
  handed,       (* copies of each message a claim gave to each phone       *)
  sims          (* copies each phone put on its SIM                        *)

phoneVars == <<online, handed, sims>>
vars == <<messages, nextId, smsSent, sentToday, paired, online, handed, sims>>

Ids == 1..MaxMessages

Statuses == {"scheduled", "queued", "sending", "sent", "delivered", "failed", "canceled"}
\* invalid_number is reported and stored like no_signal.
FailReasons == {"no_signal", "device_offline"}

\* A row.  created stands for created_at: the rows of one request share it.
\* due abstracts scheduled_at against the clock: NULL, still ahead, or past.
Row == [user: Users \cup {NoUser}, device: Devices \cup {NoDevice},
        status: Statuses \cup {"absent"}, priority: Nat, created: Nat,
        attempts: Nat, lease: {"none", "running", "expired"},
        due: {"none", "future", "past"}, failReason: FailReasons \cup {"none"}]

NoRow == [user |-> NoUser, device |-> NoDevice, status |-> "absent", priority |-> 0,
          created |-> 0, attempts |-> 0, lease |-> "none", due |-> "none",
          failReason |-> "none"]

Present(m) == messages[m].status # "absent"
Belongs(m, u) == messages[m].user = u
StatusIn(m, S) == messages[m].status \in S

-----------------------------------------------------------------------------
(* The account holder's requests.                                          *)

\* Mutant: the row is parked as scheduled but its time is not stored.
NewRowForgetsTime(u, dev, prio, due) ==
  [user |-> u, device |-> dev, status |-> IF due = "future" THEN "scheduled" ELSE "queued",
   priority |-> prio, created |-> nextId, attempts |-> 0, lease |-> "none",
   due |-> "none", failReason |-> "none"]

NewRow(u, dev, prio, due) ==
  [user |-> u, device |-> dev, status |-> IF due = "future" THEN "scheduled" ELSE "queued",
   priority |-> prio, created |-> nextId, attempts |-> 0, lease |-> "none",
   due |-> due, failReason |-> "none"]

\* The monthly quota is checked before the rows are inserted.
WithinQuota(u, n) == smsSent[u] + n <= SmsPerMonth[u]

\* A message may be addressed only to a live device of the same account.
Addressable(u, dev) == dev = NoDevice \/ (dev \in paired /\ Owner[dev] = u)

\* Insert n rows, one per recipient, and meter them.
Enqueue(u, n, dev, prio, due) ==
  /\ messages' = [m \in Ids |-> IF m \in nextId..(nextId + n - 1)
                                  THEN NewRow(u, dev, prio, due) ELSE messages[m]]
  /\ nextId' = nextId + n
  /\ smsSent' = [smsSent EXCEPT ![u] = @ + n]
  /\ UNCHANGED <<sentToday, paired, phoneVars>>

Send(u, n, dev, prio, due) ==
  /\ nextId + n - 1 <= MaxMessages
  /\ WithinQuota(u, n)
  /\ Addressable(u, dev)
  /\ Enqueue(u, n, dev, prio, due)

\* A fresh copy of an existing row, through the normal send path.
Resend(u, m) ==
  /\ Belongs(m, u)
  /\ Send(u, 1, messages[m].device, messages[m].priority, "none")

\* A request of the account holder that touches only the ledger.
Rewrite(newMessages) ==
  /\ messages' = newMessages
  /\ UNCHANGED <<nextId, smsSent, sentToday, paired, phoneVars>>

Cancelable == {"queued", "scheduled"}

\* Only the rows of S that have not been claimed, or are back in the queue.
CancelRows(u, S) ==
  LET hit == {m \in S : Belongs(m, u) /\ StatusIn(m, Cancelable)}
  IN  /\ hit # {}
      /\ Rewrite([m \in Ids |-> IF m \in hit
                    THEN [messages[m] EXCEPT !.status = "canceled", !.lease = "none"]
                    ELSE messages[m]])

Cancel(u, m) == CancelRows(u, {m})

BulkCancel(u, S) == CancelRows(u, S)

BulkSetPriority(u, S, rank) ==
  LET hit == {m \in S : Belongs(m, u) /\ StatusIn(m, {"queued"})}
  IN  /\ hit # {}
      /\ Rewrite([m \in Ids |-> IF m \in hit
                    THEN [messages[m] EXCEPT !.priority = rank] ELSE messages[m]])

BulkDelete(u, S) ==
  LET hit == {m \in S : Belongs(m, u)}
  IN  /\ hit # {}
      /\ Rewrite([m \in Ids |-> IF m \in hit THEN NoRow ELSE messages[m]])

\* clear_all: every row of the account, or every row in one status.
ClearAll(u, S) == BulkDelete(u, {m \in Ids : StatusIn(m, S)})

-----------------------------------------------------------------------------
(* The gateway protocol.                                                   *)

\* Mutants of the claim's WHERE clause: any device of the account, only
\* messages without a device.
ClaimableByAny(d) ==
  {m \in Ids : Belongs(m, Owner[d]) /\ StatusIn(m, {"queued"})}
ClaimableUnassigned(d) ==
  {m \in Ids : /\ Belongs(m, Owner[d])
               /\ messages[m].device = NoDevice
               /\ StatusIn(m, {"queued"})}

Claimable(d) ==
  {m \in Ids : /\ Belongs(m, Owner[d])
               /\ messages[m].device \in {d, NoDevice}
               /\ StatusIn(m, {"queued"})}

Before(m, n) ==
  \/ messages[m].priority < messages[n].priority
  \/ /\ messages[m].priority = messages[n].priority
     /\ messages[m].created < messages[n].created

\* What a claim may pick: the first rows, in claim order, that nobody locks.
Batches(d, limit, locked) ==
  LET free == Claimable(d) \ locked
  IN  {batch \in SUBSET free :
         /\ Cardinality(batch) = IF Cardinality(free) < limit THEN Cardinality(free) ELSE limit
         /\ \A m \in batch, n \in free \ batch : ~Before(n, m)}

\* Mutant: the claim stores no lease.
LeasedWithoutLease(row, d) ==
  [row EXCEPT !.status = "sending", !.device = d, !.attempts = @ + 1]

Leased(row, d) ==
  [row EXCEPT !.status = "sending", !.device = d, !.lease = "running", !.attempts = @ + 1]

Claim(d, limit, locked) ==
  /\ d \in paired \cap online
  /\ \E batch \in Batches(d, limit, locked) :
       /\ batch # {}
       /\ messages' = [m \in Ids |-> IF m \in batch THEN Leased(messages[m], d)
                                                    ELSE messages[m]]
       /\ handed' = [handed EXCEPT ![d] = [m \in Ids |-> IF m \in batch THEN @[m] + 1
                                                                        ELSE @[m]]]
  /\ UNCHANGED <<nextId, smsSent, sentToday, paired, online, sims>>

\* Mutant: the ack does not ask for status sending.
AckedAnyStatus(d, S) == {m \in S : Belongs(m, Owner[d])}

\* The rows an ack moves from sending to sent.
Acked(d, S) == {m \in S : Belongs(m, Owner[d]) /\ StatusIn(m, {"sending"})}

Ack(d, S) ==
  /\ d \in paired
  /\ \A m \in S : sims[d][m] > 0
  /\ Acked(d, S) # {}
  /\ messages' = [m \in Ids |-> IF m \in Acked(d, S)
                    THEN [messages[m] EXCEPT !.status = "sent", !.lease = "none"]
                    ELSE messages[m]]
  /\ sentToday' = [sentToday EXCEPT ![d] = @ + Cardinality(Acked(d, S))]
  /\ UNCHANGED <<nextId, smsSent, paired, phoneVars>>

\* Copies phone d put on its SIM.
Transmitted(d) == SumFunction(sims[d])

\* A heartbeat may replace sent_today by the phone's own count; the count of a
\* new day starts at zero again.
Heartbeat(d, count) ==
  /\ d \in paired \cap online
  /\ sentToday' = [sentToday EXCEPT ![d] = count]
  /\ UNCHANGED <<messages, nextId, smsSent, paired, phoneVars>>

\* A report is accepted whatever the row's status.
Reported(row, status, reason) ==
  [row EXCEPT !.status = status, !.lease = "none",
              !.failReason = IF status = "delivered" THEN "none" ELSE reason]

Report(d, m, status, reason) ==
  /\ d \in paired
  /\ handed[d][m] > 0
  /\ status = "delivered" => sims[d][m] > 0
  /\ Belongs(m, Owner[d])
  /\ Rewrite([messages EXCEPT ![m] = Reported(@, status, reason)])

-----------------------------------------------------------------------------
(* The reaper, the clock and the phones.                                   *)

Expired(m) == StatusIn(m, {"sending"}) /\ messages[m].lease = "expired"
\* Mutant: the promotion does not ask for status scheduled.
DueAnyStatus(m) == messages[m].due = "past" /\ Present(m)
Due(m) == StatusIn(m, {"scheduled"}) /\ messages[m].due = "past"

\* Mutant: one attempt too many.
RequeuedOnceMore(row) ==
  IF row.attempts > MaxAttempts
  THEN [row EXCEPT !.status = "failed", !.lease = "none", !.failReason = "device_offline"]
  ELSE [row EXCEPT !.status = "queued", !.lease = "none", !.failReason = "none"]

\* Out of attempts: failed out.  Otherwise back to the queue, still addressed
\* to the device of the claim.
Requeued(row) ==
  IF row.attempts >= MaxAttempts
  THEN [row EXCEPT !.status = "failed", !.lease = "none", !.failReason = "device_offline"]
  ELSE [row EXCEPT !.status = "queued", !.lease = "none", !.failReason = "none"]

\* One iteration: requeue, promote and commit as one transaction.
Reaper ==
  /\ \E m \in Ids : Expired(m) \/ Due(m)
  /\ Rewrite([m \in Ids |-> CASE Expired(m) -> Requeued(messages[m])
                              [] Due(m) -> [messages[m] EXCEPT !.status = "queued"]
                              [] OTHER -> messages[m]])

LeaseExpires(m) ==
  /\ messages[m].lease = "running"
  /\ Rewrite([messages EXCEPT ![m].lease = "expired"])

DueArrives(m) ==
  /\ messages[m].due = "future"
  /\ Rewrite([messages EXCEPT ![m].due = "past"])

\* The phone puts one of the copies it holds on its SIM.
Transmit(d, m) ==
  /\ sims[d][m] < handed[d][m]
  /\ sims' = [sims EXCEPT ![d][m] = @ + 1]
  /\ UNCHANGED <<messages, nextId, smsSent, sentToday, paired, online, handed>>

PhoneStops(d) ==
  /\ d \in online
  /\ online' = online \ {d}
  /\ UNCHANGED <<messages, nextId, smsSent, sentToday, paired, handed, sims>>

PhoneReturns(d) ==
  /\ d \in Devices \ online
  /\ online' = online \cup {d}
  /\ UNCHANGED <<messages, nextId, smsSent, sentToday, paired, handed, sims>>

\* The account holder unlinks the device: its token stops working and its
\* messages are left as they are.
DeleteDevice(d) ==
  /\ d \in paired
  /\ paired' = paired \ {d}
  /\ UNCHANGED <<messages, nextId, smsSent, sentToday, phoneVars>>

-----------------------------------------------------------------------------
Init ==
  /\ messages = [m \in Ids |-> NoRow]
  /\ nextId = 1
  /\ smsSent = [u \in Users |-> 0]
  /\ sentToday = [d \in Devices |-> 0]
  /\ paired = Devices
  /\ online = Devices
  /\ handed = [d \in Devices |-> [m \in Ids |-> 0]]
  /\ sims = [d \in Devices |-> [m \in Ids |-> 0]]

UserStep(u) ==
  \/ \E n \in 1..MaxMessages, dev \in Devices \cup {NoDevice}, prio \in Priorities,
        due \in {"none", "future"} : Send(u, n, dev, prio, due)
  \/ \E m \in Ids : Resend(u, m)
  \/ \E m \in Ids : Cancel(u, m)
  \/ \E S \in SUBSET Ids : BulkCancel(u, S)
  \/ \E S \in SUBSET Ids, rank \in Priorities : BulkSetPriority(u, S, rank)
  \/ \E S \in SUBSET Ids : BulkDelete(u, S)
  \/ ClearAll(u, Statuses)
  \/ \E s \in Statuses : ClearAll(u, {s})

DeviceStep(d) ==
  \/ \E limit \in 1..MaxMessages, locked \in SUBSET Ids : Claim(d, limit, locked)
  \/ \E S \in SUBSET Ids : Ack(d, S)
  \/ \E count \in 0..Transmitted(d) : Heartbeat(d, count)
  \/ \E m \in Ids : Report(d, m, "delivered", "none")
  \/ \E m \in Ids, reason \in FailReasons : Report(d, m, "failed", reason)
  \/ \E m \in Ids : Transmit(d, m)
  \/ PhoneStops(d)
  \/ PhoneReturns(d)
  \/ DeleteDevice(d)

ClockStep == \E m \in Ids : LeaseExpires(m) \/ DueArrives(m)

Next ==
  \/ \E u \in Users : UserStep(u)
  \/ \E d \in Devices : DeviceStep(d)
  \/ Reaper
  \/ ClockStep

Spec == Init /\ [][Next]_vars

\* The reaper's loop never ends and survives every error; a clock runs on; an
\* online phone keeps polling, and the rows it could claim are not locked for
\* ever.  Nothing is assumed of acks, reports, transmissions or users.
Fairness ==
  /\ WF_vars(Reaper)
  /\ \A m \in Ids : WF_vars(LeaseExpires(m)) /\ WF_vars(DueArrives(m))
  /\ \A d \in Devices : WF_vars(\E limit \in 1..MaxMessages : Claim(d, limit, {}))

FairSpec == Spec /\ Fairness

-----------------------------------------------------------------------------
(* What the ledger and the protocol promise.                               *)

\* Every variable keeps its shape.
TypeOK ==
  /\ messages \in [Ids -> Row]
  /\ nextId \in 1..(MaxMessages + 1)
  /\ smsSent \in [Users -> Nat]
  /\ sentToday \in [Devices -> Nat]
  /\ paired \in SUBSET Devices
  /\ online \in SUBSET Devices
  /\ handed \in [Devices -> [Ids -> Nat]]
  /\ sims \in [Devices -> [Ids -> Nat]]

\* A row carries a lease exactly while a device is sending it: ack, report,
\* cancel and the reaper all drop it.  A row without a lease in "sending" would
\* be invisible to the reaper for ever.
LeaseIffSending ==
  \A m \in Ids : messages[m].lease # "none" <=> StatusIn(m, {"sending"})

\* The claim does not look at attempts; it is the reaper that keeps the queue
\* free of exhausted rows.  So no phone is ever given more than MaxAttempts
\* copies of a message, and it transmits no copy it was not given.
AttemptBudget ==
  \A m \in Ids :
    /\ messages[m].attempts <= MaxAttempts
    /\ StatusIn(m, {"queued", "scheduled"}) => messages[m].attempts < MaxAttempts
    /\ \A d \in Devices :
         /\ sims[d][m] <= handed[d][m]
         /\ handed[d][m] <= MaxAttempts
         /\ Present(m) => handed[d][m] <= messages[m].attempts

\* Devices in parallel never send the same message: whatever is requeued,
\* canceled or deleted in between, all its copies go to one phone.
OnePhonePerMessage ==
  \A m \in Ids, d \in Devices :
    handed[d][m] > 0 =>
      /\ Present(m) => messages[m].device = d
      /\ \A e \in Devices : handed[e][m] > 0 => e = d

\* A phone is given the messages of its own account only, and a row is never
\* addressed to a phone of another account.
TenantIsolation ==
  \A m \in Ids :
    /\ messages[m].device # NoDevice => Belongs(m, Owner[messages[m].device])
    /\ \A d \in Devices : (Present(m) /\ handed[d][m] > 0) => Belongs(m, Owner[d])

\* A reason is recorded exactly for failed rows, in whatever order claims,
\* expiries, late acks and late reports hit the row.
FailReasonMatches ==
  \A m \in Ids : messages[m].failReason # "none" <=> StatusIn(m, {"failed"})

\* However often an ack is repeated, it counts a message once: sent_today holds
\* at most what the last heartbeat counted, and one more for each message that
\* the phone has put on its SIM.
AckCountedOnce ==
  \A d \in Devices :
    sentToday[d] <= Transmitted(d) + Cardinality({m \in Ids : sims[d][m] > 0})

\* A message that was sent, delivered, failed or canceled never comes back to
\* the queue by itself, so no device can be given it again.
Closed == {"sent", "delivered", "failed", "canceled"}

ClosedStaysClosed ==
  [][\A m \in Ids : StatusIn(m, Closed) => StatusIn(m, Closed \cup {"absent"})']_vars

\* A message scheduled for later is queued, canceled or deleted in the end.
ScheduledIsPromoted ==
  \A m \in Ids : StatusIn(m, {"scheduled"}) ~> ~StatusIn(m, {"scheduled"})

\* A device that dies while sending does not keep its messages: each one is
\* sent, reported, requeued, failed out or deleted.
SendingEnds ==
  \A m \in Ids : StatusIn(m, {"sending"}) ~> ~StatusIn(m, {"sending"})

\* A queued message addressed to a phone that keeps polling does not starve:
\* it leaves the queue unless that phone stops or is unlinked.
AddressedIsServed ==
  \A m \in Ids, d \in Devices :
    (StatusIn(m, {"queued"}) /\ messages[m].device = d)
      ~> (~StatusIn(m, {"queued"}) \/ d \notin paired \cap online)

-----------------------------------------------------------------------------
(* What the documentation says and the code does not do.                   *)

\* At least once: a message that was queued without choosing a device is put on
\* a SIM, closed or deleted in the end, unless every phone of the account stops
\* polling or is unlinked.
AtLeastOnce ==
  \A m \in Ids, d \in Devices :
    (StatusIn(m, {"queued"}) /\ messages[m].device = NoDevice /\ Belongs(m, Owner[d]))
      ~> \/ StatusIn(m, Closed \cup {"absent"})
         \/ \E e \in Devices : sims[e][m] > 0
         \/ d \notin paired \cap online
=============================================================================
