---------------------------- MODULE PlanBilling ----------------------------
(***************************************************************************)
(* How the plan of an account follows the payments that Polar reports, and  *)
(* what an administrator writes beside them.                               *)
(*                                                                         *)
(* Polar (outside the server) sells periods and reports each one with      *)
(* order.paid and subscription.active, and the end of the subscription     *)
(* with subscription.revoked.  It repeats a report until one is answered   *)
(* with success, and may repeat, reorder and overlap them at any time.     *)
(*                                                                         *)
(* A delivery, and an administrator's edit of the account, is a READ       *)
(* COMMITTED transaction.  It loads the user row once and its flushes write *)
(* only the columns that differ from what was loaded, under the row's lock. *)
(* The unique index on Invoice.external_id makes the second insert for an   *)
(* order wait for the first, and then fail.                                 *)
(***************************************************************************)
EXTENDS Naturals, FiniteSets

CONSTANTS
  Deliveries,   (* deliveries the server can run at the same time           *)
  Edits,        (* edits of the account it can run at the same time         *)
  Ends,         (* the ends that administrators choose for a plan, 0 for none *)
  Plans,        (* paid plans                                              *)
  MaxPurchases, (* bound of the model: the periods that are ever sold      *)
  Offer,        (* the plan each purchase's events name                    *)
  Dated,        (* purchases whose events name the end of the period       *)
  MaxTime,      (* bound of the model: the clock counts periods            *)
  Start,        (* the free plan                                           *)
  NoPlan,       (* an event that names no plan                             *)
  NoEvent, NoWorker

Workers == Deliveries \cup Edits
Purchases == 1..MaxPurchases
Kinds == {"paid", "active", "revoked"}
Events == [kind : Kinds, purchase : Purchases]

ASSUME PlanBillingAssumption ==
  /\ MaxPurchases \in Nat /\ MaxTime \in Nat
  /\ Offer \in [Purchases -> Plans \cup {NoPlan}] /\ Dated \subseteq Purchases
  /\ Start \notin Plans /\ NoPlan \notin Plans \cup {Start}
  /\ Deliveries \cap Edits = {} /\ Ends \subseteq 0..(MaxTime + 1)
  /\ NoWorker \notin Workers /\ NoEvent \notin Events

VARIABLES
  now,        (* the clock                                                 *)
  sold,       (* Polar: the period end of each purchase, or 0             *)
  emitted,    (* Polar: the events that happened                           *)
  acked,      (* orders whose order.paid was answered with success         *)
  gone,       (* the account is deleted                                    *)
  user,       (* plan_id, plan_expires_at, polar_customer_id: committed    *)
  invoice,    (* the number of each order's committed invoice, or 0        *)
  rowLock,    (* the delivery whose transaction locks the user row         *)
  phase,      (* where each delivery, or edit, is                          *)
  event,      (* what a delivery delivers                                  *)
  seen,       (* the user row it loaded                                    *)
  number,     (* the invoice number it computed                            *)
  wanted,     (* the user row it wants                                     *)
  crowded,    (* running transactions that overlapped another one          *)
  applied,    (* activations committed for each order                      *)
  missed,     (* orders whose order.paid found the account deleted         *)
  granted,    (* an administrator was the last to write the plan's end     *)
  settled     (* the newest event was the last one applied, and ran alone  *)

polar == <<now, sold, emitted>>
delivery == <<phase, event, seen, number, wanted, crowded>>
history == <<applied, missed, granted, settled>>
vars == <<polar, acked, gone, user, invoice, rowLock, delivery, history>>

UserRow == [plan : Plans \cup {Start}, expires : 0..(MaxTime + 1), customer : BOOLEAN]

FreshRow == [plan |-> Start, expires |-> 0, customer |-> FALSE]

Sold(p) == sold[p] # 0
Running == {w \in Workers : phase[w] # "idle"}

-----------------------------------------------------------------------------
(* Polar and the clock.                                                    *)

\* A purchase or a renewal.
Sell(p) ==
  /\ ~Sold(p) /\ \A q \in 1..(p - 1) : Sold(q)
  /\ sold' = [sold EXCEPT ![p] = now + 1]
  /\ emitted' = emitted \cup [kind : {"paid", "active"}, purchase : {p}]
  /\ settled' = FALSE
  /\ UNCHANGED <<now, acked, gone, user, invoice, rowLock, delivery, applied, missed, granted>>

Newest(p) == Sold(p) /\ \A q \in Purchases : Sold(q) => q <= p
Revoked(p) == [kind |-> "revoked", purchase |-> p]

Revoke(p) ==
  /\ Newest(p) /\ Revoked(p) \notin emitted
  /\ emitted' = emitted \cup {Revoked(p)}
  /\ settled' = FALSE
  /\ UNCHANGED <<now, sold, acked, gone, user, invoice, rowLock, delivery, applied, missed, granted>>

Tick ==
  /\ now < MaxTime
  /\ now' = now + 1
  /\ UNCHANGED <<sold, emitted, acked, gone, user, invoice, rowLock, delivery, history>>

\* An administrator deletes the account, or restores it.
DeleteOrRestore ==
  /\ gone' = ~gone
  /\ UNCHANGED <<polar, acked, user, invoice, rowLock, delivery, history>>

-----------------------------------------------------------------------------
(* A delivery.                                                             *)

\* Polar is done with the report of an order.
Order(e) == {p \in Purchases : e = [kind |-> "paid", purchase |-> p]}

AlreadyRecorded(e) == e.kind = "paid" /\ invoice[e.purchase] # 0

\* Replayed: answered without effect.
Replay(e) ==
  /\ e \in emitted /\ AlreadyRecorded(e)
  /\ acked' = acked \cup Order(e)
  /\ UNCHANGED <<polar, gone, user, invoice, rowLock, delivery, history>>

\* No matching user: answered without effect, too.
Unknown(e) ==
  /\ e \in emitted /\ ~AlreadyRecorded(e) /\ gone
  /\ acked' = acked \cup Order(e)
  /\ missed' = missed \cup Order(e)
  /\ UNCHANGED <<polar, gone, user, invoice, rowLock, delivery, applied, granted, settled>>

Begin(w, e) ==
  /\ phase[w] = "idle"
  /\ e \in emitted /\ ~AlreadyRecorded(e) /\ ~gone
  /\ phase' = [phase EXCEPT ![w] = "loaded"]
  /\ event' = [event EXCEPT ![w] = e]
  /\ seen' = [seen EXCEPT ![w] = user]
  /\ crowded' = IF Running = {} THEN crowded ELSE crowded \cup Running \cup {w}
  /\ UNCHANGED <<polar, acked, gone, user, invoice, rowLock, number, wanted, history>>

RowFree(w) == rowLock \in {w, NoWorker}

\* The customer id is learned from the first event that carries it.
Remember(w) ==
  /\ phase[w] = "loaded" /\ event[w].kind # "revoked" /\ ~seen[w].customer
  /\ RowFree(w)
  /\ rowLock' = w
  /\ phase' = [phase EXCEPT ![w] = "remembered"]
  /\ UNCHANGED <<polar, acked, gone, user, invoice, event, seen, number, wanted, crowded, history>>

Prepared(w) ==
  \/ phase[w] = "remembered"
  \/ phase[w] = "loaded" /\ (seen[w].customer \/ event[w].kind = "revoked")

Sequence == Cardinality({p \in Purchases : invoice[p] # 0}) + 1

Number(w) ==
  /\ Prepared(w) /\ event[w].kind = "paid"
  /\ number' = [number EXCEPT ![w] = Sequence]
  /\ phase' = [phase EXCEPT ![w] = "numbered"]
  /\ UNCHANGED <<polar, acked, gone, user, invoice, rowLock, event, seen, wanted, crowded, history>>

\* Mutant: no unique index, only the check at the beginning.
NeverTaken(w) == FALSE

\* The order has an invoice by now, or a running insert of one.
Recorded(w) == invoice[event[w].purchase] # 0
Inserting(w) ==
  \E v \in Workers \ {w} : phase[v] \in {"recorded", "flushed"} /\ event[v] = event[w]
Taken(w) == Recorded(w) \/ Inserting(w)

Insert(w) ==
  /\ phase[w] = "numbered" /\ ~Taken(w)
  /\ phase' = [phase EXCEPT ![w] = "recorded"]
  /\ UNCHANGED <<polar, acked, gone, user, invoice, rowLock, event, seen, number, wanted, crowded, history>>

\* Mutant: the period is always counted from the delivery.
AlwaysFromNow(p) == now + 1
\* An event without a period end entitles for a period from now.
PeriodEnd(p) == IF p \in Dated THEN sold[p] ELSE now + 1

\* Mutant: an upgrade is ignored.
AsKeepsPlan(w) ==
  LET e == event[w] IN
  IF e.kind = "revoked" THEN [seen[w] EXCEPT !.plan = Start, !.expires = 0]
  ELSE [plan |-> IF seen[w].plan # Start THEN seen[w].plan
                 ELSE IF Offer[e.purchase] = NoPlan THEN Start ELSE Offer[e.purchase],
        expires |-> PeriodEnd(e.purchase), customer |-> TRUE]

\* The row the handler wants: an event that names no plan leaves the plan.
Wanted(w) ==
  LET e == event[w] IN
  IF e.kind = "revoked" THEN [seen[w] EXCEPT !.plan = Start, !.expires = 0]
  ELSE [plan |-> IF Offer[e.purchase] = NoPlan THEN seen[w].plan ELSE Offer[e.purchase],
        expires |-> PeriodEnd(e.purchase), customer |-> TRUE]

Flush(w) ==
  /\ phase[w] = "recorded" \/ (Prepared(w) /\ event[w].kind # "paid")
  /\ Wanted(w) # seen[w] => RowFree(w)
  /\ rowLock' = IF Wanted(w) # seen[w] THEN w ELSE rowLock
  /\ wanted' = [wanted EXCEPT ![w] = Wanted(w)]
  /\ phase' = [phase EXCEPT ![w] = "flushed"]
  /\ UNCHANGED <<polar, acked, gone, user, invoice, event, seen, number, crowded, history>>

\* Only the columns that differ from the loaded ones are written.
Merged(w, row) == [c \in DOMAIN user |-> IF row[c] = seen[w][c] THEN user[c] ELSE row[c]]

Finish(w) ==
  /\ phase' = [phase EXCEPT ![w] = "idle"]
  /\ event' = [event EXCEPT ![w] = NoEvent]
  /\ seen' = [seen EXCEPT ![w] = FreshRow]
  /\ number' = [number EXCEPT ![w] = 0]
  /\ wanted' = [wanted EXCEPT ![w] = FreshRow]
  /\ crowded' = crowded \ {w}
  /\ rowLock' = IF rowLock = w THEN NoWorker ELSE rowLock

IsNewest(e) ==
  /\ Newest(e.purchase)
  /\ Revoked(e.purchase) \in emitted => e.kind = "revoked"

Commit(w) ==
  LET e == event[w]
      p == e.purchase
  IN
  /\ phase[w] = "flushed"
  /\ user' = Merged(w, wanted[w])
  /\ acked' = acked \cup Order(e)
  /\ invoice' = IF e.kind = "paid" THEN [invoice EXCEPT ![p] = number[w]] ELSE invoice
  /\ applied' = IF e.kind = "paid" THEN [applied EXCEPT ![p] = @ + 1] ELSE applied
  /\ granted' = (granted /\ wanted[w].expires = seen[w].expires)
  /\ settled' = (IsNewest(e) /\ w \notin crowded)
  /\ Finish(w)
  /\ UNCHANGED <<polar, gone, missed>>

\* Mutant: the handler swallows the error and Polar is told all is well.
FailSilently(w) ==
  /\ phase[w] # "idle"
  /\ acked' = acked \cup Order(event[w])
  /\ Finish(w)
  /\ UNCHANGED <<polar, gone, user, invoice, history>>

\* The insert found the order taken, an error, a lost connection or a crash:
\* everything is undone and the delivery is not answered with success.
Fail(w) ==
  /\ phase[w] # "idle"
  /\ Finish(w)
  /\ UNCHANGED <<polar, acked, gone, user, invoice, history>>

-----------------------------------------------------------------------------
(* An administrator's edit of the account, deleted or not.                 *)

Open(w) ==
  /\ phase[w] = "idle"
  /\ phase' = [phase EXCEPT ![w] = "opened"]
  /\ seen' = [seen EXCEPT ![w] = user]
  /\ crowded' = IF Running = {} THEN crowded ELSE crowded \cup Running \cup {w}
  /\ UNCHANGED <<polar, acked, gone, user, invoice, rowLock, event, number, wanted, history>>

\* Another plan, another end, or both.  The update waits for the row's lock,
\* and shows at the commit that follows it.
Amend(w, plan, end) ==
  LET row == [seen[w] EXCEPT !.plan = plan, !.expires = end] IN
  /\ phase[w] = "opened" /\ row # seen[w] /\ RowFree(w)
  /\ user' = Merged(w, row)
  /\ granted' = (granted \/ end # seen[w].expires)
  /\ settled' = FALSE
  /\ Finish(w)
  /\ UNCHANGED <<polar, acked, gone, invoice, applied, missed>>

-----------------------------------------------------------------------------
Init ==
  /\ now = 0
  /\ sold = [p \in Purchases |-> 0]
  /\ emitted = {} /\ acked = {}
  /\ gone = FALSE
  /\ user = FreshRow
  /\ invoice = [p \in Purchases |-> 0]
  /\ rowLock = NoWorker
  /\ phase = [w \in Workers |-> "idle"]
  /\ event = [w \in Workers |-> NoEvent]
  /\ seen = [w \in Workers |-> FreshRow]
  /\ number = [w \in Workers |-> 0]
  /\ wanted = [w \in Workers |-> FreshRow]
  /\ crowded = {}
  /\ applied = [p \in Purchases |-> 0]
  /\ missed = {} /\ granted = FALSE /\ settled = FALSE

Next ==
  \/ \E p \in Purchases : Sell(p) \/ Revoke(p)
  \/ Tick
  \/ DeleteOrRestore
  \/ \E e \in Events : Replay(e) \/ Unknown(e) \/ \E w \in Deliveries : Begin(w, e)
  \/ \E w \in Deliveries : Remember(w) \/ Number(w) \/ Insert(w) \/ Flush(w) \/ Commit(w)
  \/ \E w \in Edits :
       Open(w) \/ \E plan \in Plans \cup {Start}, end \in Ends \cup {seen[w].expires} : Amend(w, plan, end)
  \/ \E w \in Workers : Fail(w)

Spec == Init /\ [][Next]_vars

-----------------------------------------------------------------------------
(* What billing promises.                                                  *)

\* Every variable keeps its shape.
TypeOK ==
  /\ now \in 0..MaxTime
  /\ sold \in [Purchases -> 0..(MaxTime + 1)]
  /\ emitted \subseteq Events /\ acked \subseteq Purchases /\ missed \subseteq acked
  /\ gone \in BOOLEAN
  /\ user \in UserRow
  /\ invoice \in [Purchases -> Nat]
  /\ rowLock \in Workers \cup {NoWorker}
  /\ phase \in [Workers -> {"idle", "loaded", "remembered", "numbered", "recorded", "flushed", "opened"}]
  /\ event \in [Workers -> Events \cup {NoEvent}]
  /\ seen \in [Workers -> UserRow]
  /\ number \in [Workers -> Nat]
  /\ wanted \in [Workers -> UserRow]
  /\ crowded \subseteq Workers
  /\ applied \in [Purchases -> Nat]
  /\ granted \in BOOLEAN /\ settled \in BOOLEAN

\* However often, and however overlapped, an order.paid is delivered, the order
\* gets one invoice and activates the plan once, both or neither.
OrderAppliedOnce ==
  \A p \in Purchases : applied[p] = IF invoice[p] = 0 THEN 0 ELSE 1

\* A payment that Polar was told to be done with is in the books, unless the
\* account was deleted when the report came.
AckedIsRecorded ==
  \A p \in acked \ missed : invoice[p] # 0

\* A paid plan is live only within a period that was paid for, however late or
\* often its report comes, unless a report left the end of its period out or an
\* administrator wrote the end that the account has.
EntitledOnlyWhilePaid ==
  user.plan # Start /\ user.expires > now /\ ~granted =>
    \E p \in Purchases : sold[p] > now \/ (Sold(p) /\ p \notin Dated)

\* When the newest report is applied last, by a delivery that no other one and no
\* administrator's edit overlapped, the account is as that report says, whatever
\* came before, until an administrator edits it.
LoneDeliverySettles ==
  settled =>
    \A p \in Purchases : Newest(p) =>
      IF Revoked(p) \in emitted THEN user.plan = Start /\ user.expires = 0
      ELSE /\ p \in Dated => user.expires = sold[p]
           /\ Offer[p] # NoPlan => user.plan = Offer[p]
=============================================================================
