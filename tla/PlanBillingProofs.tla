------------------------- MODULE PlanBillingProofs -------------------------
(***************************************************************************)
(* What billing promises, for every number of deliveries, edits, purchases *)
(* and periods.                                                            *)
(*                                                                         *)
(* The books rest on the running inserts: an order is in one running insert *)
(* at most, and in none once it has an invoice.  The plan rests on where    *)
(* the end of a period comes from and who wrote it last, and on a delivery *)
(* that runs alone: the row it loaded is still the row of the account when *)
(* it commits.                                                             *)
(***************************************************************************)
EXTENDS PlanBilling, FiniteSetTheorems, TLAPS

\* What Polar has reported, it has sold.
Honest == \A e \in emitted : Sold(e.purchase)

\* What a running delivery is about.
Delivers(w) == phase[w] \notin {"idle", "opened"}
Delivering ==
  \A w \in Workers :
    /\ Delivers(w) => event[w] \in emitted
    /\ phase[w] \in {"numbered", "recorded"} => event[w].kind = "paid"
    /\ Delivers(w) /\ event[w].kind = "paid" /\ phase[w] \notin {"loaded", "remembered"} =>
         number[w] # 0

Inserts(w) == phase[w] \in {"recorded", "flushed"} /\ event[w].kind = "paid"

\* A running insert is of an order without invoice, and no other insert is.
InsertsApart ==
  \A w \in Workers : Inserts(w) =>
    /\ invoice[event[w].purchase] = 0
    /\ \A v \in Workers : Inserts(v) /\ event[v] = event[w] => v = w

\* The end of a period comes from a purchase, or from a report without one.
Earned(t) == t = 0 \/ \E p \in Purchases : Sold(p) /\ (sold[p] = t \/ p \notin Dated)
PeriodsEarned ==
  /\ ~granted => Earned(user.expires)
  /\ \A w \in Workers : phase[w] = "flushed" => Earned(wanted[w].expires)

\* A transaction that knows of no other one runs alone, on the row as it is.
Alone ==
  \A w \in Running \ crowded : seen[w] = user /\ \A v \in Running : v = w

\* A row as a report of a purchase wants it.
AsReported(row, e) ==
  IF e.kind = "revoked" THEN row.plan = Start /\ row.expires = 0
  ELSE /\ e.purchase \in Dated => row.expires = sold[e.purchase]
       /\ Offer[e.purchase] # NoPlan => row.plan = Offer[e.purchase]
Wanting == \A w \in Workers : phase[w] = "flushed" => AsReported(wanted[w], event[w])

Inv ==
  /\ TypeOK /\ Honest /\ Delivering
  /\ InsertsApart /\ OrderAppliedOnce /\ AckedIsRecorded
  /\ PeriodsEarned
  /\ Alone /\ Wanting /\ LoneDeliverySettles

-----------------------------------------------------------------------------

LEMMA InitInv == Init => Inv
<1> SUFFICES ASSUME Init PROVE Inv
  OBVIOUS
<1> USE PlanBillingAssumption DEF Init
<1>1. FreshRow \in UserRow /\ FreshRow.expires = 0
  BY DEF FreshRow, UserRow
<1>2. TypeOK
  <2>1. now \in 0..MaxTime /\ sold \in [Purchases -> 0..(MaxTime + 1)]
    OBVIOUS
  <2>2. user \in UserRow /\ seen \in [Workers -> UserRow] /\ wanted \in [Workers -> UserRow]
    BY <1>1
  <2>3. /\ emitted \subseteq Events /\ acked \subseteq Purchases /\ missed \subseteq acked
        /\ gone \in BOOLEAN /\ granted \in BOOLEAN /\ settled \in BOOLEAN /\ crowded \subseteq Workers
    OBVIOUS
  <2>4. /\ invoice \in [Purchases -> Nat] /\ applied \in [Purchases -> Nat] /\ number \in [Workers -> Nat]
        /\ rowLock \in Workers \cup {NoWorker} /\ event \in [Workers -> Events \cup {NoEvent}]
    OBVIOUS
  <2>5. phase \in [Workers -> {"idle", "loaded", "remembered", "numbered", "recorded", "flushed", "opened"}]
    OBVIOUS
  <2> QED BY <2>1, <2>2, <2>3, <2>4, <2>5 DEF TypeOK
<1>3. Honest /\ Delivering /\ InsertsApart /\ OrderAppliedOnce /\ AckedIsRecorded
  BY DEF Honest, Delivering, Delivers, InsertsApart, Inserts, OrderAppliedOnce, AckedIsRecorded
<1>4. PeriodsEarned
  BY <1>1 DEF PeriodsEarned, Earned
<1>5. Alone /\ Wanting /\ LoneDeliverySettles
  BY DEF Alone, Running, Wanting, LoneDeliverySettles
<1> QED BY <1>2, <1>3, <1>4, <1>5 DEF Inv

\* The next number is a number.
LEMMA SequenceType == Sequence \in Nat \ {0}
<1> DEFINE Numbered == {p \in Purchases : invoice[p] # 0}
<1>1. IsFiniteSet(Purchases)
  BY PlanBillingAssumption, FS_Interval DEF Purchases
<1>2. Numbered \in SUBSET Purchases
  OBVIOUS
<1> HIDE DEF Numbered
<1>3. Cardinality(Numbered) \in Nat
  BY <1>1, <1>2, FS_Subset, FS_CardinalityType
<1> QED BY <1>3 DEF Sequence, Numbered

\* The row a delivery wants, and the row its commit leaves, column by column.
LEMMA WantedRow ==
  ASSUME TypeOK, Delivering, NEW w \in Workers, Delivers(w)
  PROVE  /\ Wanted(w) \in UserRow
         /\ AsReported(Wanted(w), event[w])
         /\ Wanted(w).expires \in {0, PeriodEnd(event[w].purchase)}
<1>1. /\ event[w] \in Events /\ seen[w] \in UserRow
      /\ sold \in [Purchases -> 0..(MaxTime + 1)] /\ now + 1 \in 0..(MaxTime + 1)
  BY PlanBillingAssumption DEF TypeOK, Delivering
<1>2. event[w].purchase \in Purchases /\ PeriodEnd(event[w].purchase) \in 0..(MaxTime + 1)
  BY <1>1 DEF Events, PeriodEnd
<1>3. CASE event[w].kind = "revoked"
  <2>1. Wanted(w) = [plan |-> Start, expires |-> 0, customer |-> seen[w].customer]
    BY <1>1, <1>3 DEF Wanted, UserRow
  <2>2. Wanted(w) \in UserRow /\ Wanted(w).expires = 0
    <3>1. seen[w].customer \in BOOLEAN /\ Start \in Plans \cup {Start} /\ 0 \in 0..(MaxTime + 1)
      BY <1>1, PlanBillingAssumption DEF UserRow
    <3>2. [plan |-> Start, expires |-> 0, customer |-> seen[w].customer] \in UserRow
      BY <3>1, Zenon DEF UserRow
    <3>3. Wanted(w) \in UserRow
      BY <2>1, <3>2
    <3> QED BY <2>1, <3>3
  <2>3. AsReported(Wanted(w), event[w])
    BY <1>3, <2>1 DEF AsReported
  <2> QED BY <2>2, <2>3
<1>4. CASE event[w].kind # "revoked"
  <2> DEFINE plan == IF Offer[event[w].purchase] = NoPlan THEN seen[w].plan ELSE Offer[event[w].purchase]
  <2>1. plan \in Plans \cup {Start}
    BY <1>1, <1>2, PlanBillingAssumption DEF UserRow
  <2>2. Wanted(w) = [plan |-> plan, expires |-> PeriodEnd(event[w].purchase), customer |-> TRUE]
    BY <1>4 DEF Wanted
  <2>3. event[w].purchase \in Dated => PeriodEnd(event[w].purchase) = sold[event[w].purchase]
    BY DEF PeriodEnd
  <2>4. Offer[event[w].purchase] # NoPlan => plan = Offer[event[w].purchase]
    OBVIOUS
  <2> HIDE DEF plan
  <2>5. Wanted(w) \in UserRow /\ Wanted(w).expires = PeriodEnd(event[w].purchase)
    BY <1>2, <2>1, <2>2 DEF UserRow
  <2>6. AsReported(Wanted(w), event[w])
    BY <1>4, <2>2, <2>3, <2>4 DEF AsReported
  <2> QED BY <2>5, <2>6
<1> QED BY <1>3, <1>4

LEMMA MergedRow ==
  ASSUME TypeOK, NEW w \in Workers, NEW row \in UserRow
  PROVE  /\ Merged(w, row) \in UserRow
         /\ Merged(w, row).expires = IF row.expires = seen[w].expires THEN user.expires ELSE row.expires
         /\ seen[w] = user => Merged(w, row) = row
<1>1. user \in UserRow /\ seen[w] \in UserRow
  BY DEF TypeOK
<1>2. Merged(w, row) =
        [plan |-> IF row.plan = seen[w].plan THEN user.plan ELSE row.plan,
         expires |-> IF row.expires = seen[w].expires THEN user.expires ELSE row.expires,
         customer |-> IF row.customer = seen[w].customer THEN user.customer ELSE row.customer]
  BY <1>1 DEF Merged, UserRow
<1> QED BY <1>1, <1>2 DEF UserRow

\* An order that Polar is done with.
LEMMA OrderOf ==
  ASSUME NEW e \in Events
  PROVE  Order(e) = IF e.kind = "paid" THEN {e.purchase} ELSE {}
<1>1. e = [kind |-> e.kind, purchase |-> e.purchase] /\ e.purchase \in Purchases
  BY DEF Events
<1>2. ASSUME NEW p \in Purchases PROVE e = [kind |-> "paid", purchase |-> p] <=> e.kind = "paid" /\ e.purchase = p
  BY <1>1
<1> QED BY <1>1, <1>2 DEF Order

\* The row that an administrator's edit leaves.
LEMMA AmendedRow ==
  ASSUME TypeOK, NEW w \in Workers, NEW plan \in Plans \cup {Start}, NEW end \in Ends \cup {seen[w].expires},
         Amend(w, plan, end)
  PROVE  /\ user' \in UserRow
         /\ user'.expires = IF end = seen[w].expires THEN user.expires ELSE end
<1> DEFINE row == [seen[w] EXCEPT !.plan = plan, !.expires = end]
<1>1. row \in UserRow /\ row.expires = end
  BY PlanBillingAssumption DEF TypeOK, UserRow
<1>2. user' = Merged(w, row)
  BY DEF Amend
<1> HIDE DEF row
<1>3. Merged(w, row) \in UserRow
  BY <1>1, MergedRow
<1>4. Merged(w, row).expires = IF row.expires = seen[w].expires THEN user.expires ELSE row.expires
  BY <1>1, MergedRow
<1> QED BY <1>1, <1>2, <1>3, <1>4

LEMMA TypeStep ==
  ASSUME TypeOK, Delivering, [Next]_vars
  PROVE  TypeOK'
<1> USE PlanBillingAssumption DEF TypeOK, polar, delivery, history
<1>1. ASSUME NEW p \in Purchases, Sell(p) PROVE TypeOK'
  <2>1. [kind : {"paid", "active"}, purchase : {p}] \subseteq Events
    BY DEF Events, Kinds
  <2>2. sold' \in [Purchases -> 0..(MaxTime + 1)] /\ emitted' \subseteq Events
    BY <1>1, <2>1 DEF Sell
  <2> QED BY <1>1, <2>2 DEF Sell
<1>2. ASSUME NEW p \in Purchases, Revoke(p) PROVE TypeOK'
  <2>1. Revoked(p) \in Events
    BY DEF Revoked, Events, Kinds
  <2> QED BY <1>2, <2>1 DEF Revoke
<1>3. CASE Tick
  BY <1>3 DEF Tick
<1>4. CASE DeleteOrRestore
  BY <1>4 DEF DeleteOrRestore
<1>5. ASSUME NEW e \in Events, Replay(e) PROVE TypeOK'
  BY <1>5 DEF Replay, Order, Events
<1>6. ASSUME NEW e \in Events, Unknown(e) PROVE TypeOK'
  BY <1>6 DEF Unknown, Order, Events
<1>7. ASSUME NEW e \in Events, NEW w \in Workers, Begin(w, e) PROVE TypeOK'
  BY <1>7 DEF Begin, Running
<1>8. ASSUME NEW w \in Workers, Remember(w) PROVE TypeOK'
  BY <1>8 DEF Remember
<1>9. ASSUME NEW w \in Workers, Number(w) PROVE TypeOK'
  BY <1>9, SequenceType DEF Number
<1>10. ASSUME NEW w \in Workers, Insert(w) PROVE TypeOK'
  BY <1>10 DEF Insert
<1>11. ASSUME NEW w \in Workers, Flush(w) PROVE TypeOK'
  <2>1. Wanted(w) \in UserRow
    BY <1>11, WantedRow DEF Flush, Prepared, Delivers
  <2> QED BY <1>11, <2>1 DEF Flush
<1>12. ASSUME NEW w \in Workers, Commit(w) PROVE TypeOK'
  <2>1. /\ Merged(w, wanted[w]) \in UserRow /\ FreshRow \in UserRow
        /\ event[w].kind = "paid" => event[w].purchase \in Purchases
    BY <1>12, MergedRow DEF Delivering, Delivers, Commit, Events, FreshRow, UserRow
  <2> QED BY <1>12, <2>1 DEF Commit, Finish, Order
<1>13. ASSUME NEW w \in Workers, Fail(w) PROVE TypeOK'
  <2>1. FreshRow \in UserRow
    BY DEF FreshRow, UserRow
  <2> QED BY <1>13, <2>1 DEF Fail, Finish
<1>14. ASSUME NEW w \in Workers, Open(w) PROVE TypeOK'
  BY <1>14 DEF Open, Running
<1>15. ASSUME NEW w \in Workers, NEW plan \in Plans \cup {Start}, NEW end \in Ends \cup {seen[w].expires},
              Amend(w, plan, end)
       PROVE  TypeOK'
  <2>1. user' \in UserRow /\ FreshRow \in UserRow
    BY <1>15, AmendedRow DEF FreshRow, UserRow
  <2> QED BY <1>15, <2>1 DEF Amend, Finish
<1>16. CASE UNCHANGED vars
  BY <1>16 DEF vars
<1> QED BY <1>1, <1>2, <1>3, <1>4, <1>5, <1>6, <1>7, <1>8, <1>9, <1>10, <1>11, <1>12, <1>13, <1>14, <1>15, <1>16
    DEF Next, Workers

\* What is sold stays sold, and what is reported was sold.
LEMMA PolarStep ==
  ASSUME TypeOK, Honest, [Next]_vars
  PROVE  /\ emitted \subseteq emitted' /\ Honest'
         /\ \A p \in Purchases : Sold(p) => sold'[p] = sold[p]
<1> USE DEF Honest, Sold, polar
<1>1. ASSUME NEW p \in Purchases, Sell(p)
      PROVE  /\ emitted \subseteq emitted' /\ Honest'
             /\ \A q \in Purchases : Sold(q) => sold'[q] = sold[q]
  <2>1. /\ sold[p] = 0 /\ sold' = [sold EXCEPT ![p] = now + 1]
        /\ emitted' = emitted \cup [kind : {"paid", "active"}, purchase : {p}]
    BY <1>1 DEF Sell
  <2>2. sold'[p] # 0 /\ \A q \in Purchases : q # p => sold'[q] = sold[q]
    BY <2>1, PlanBillingAssumption DEF TypeOK
  <2>3. \A e \in [kind : {"paid", "active"}, purchase : {p}] : e.purchase = p
    OBVIOUS
  <2>4. \A e \in emitted : e.purchase \in Purchases
    BY DEF TypeOK, Events
  <2> QED BY <2>1, <2>2, <2>3, <2>4
<1>2. ASSUME NEW p \in Purchases, Revoke(p)
      PROVE  /\ emitted \subseteq emitted' /\ Honest'
             /\ \A q \in Purchases : Sold(q) => sold'[q] = sold[q]
  BY <1>2 DEF Revoke, Revoked, Newest
<1>3. UNCHANGED <<sold, emitted>> \/ \E p \in Purchases : Sell(p) \/ Revoke(p)
  BY DEF Next, vars, Tick, DeleteOrRestore, Replay, Unknown, Begin, Remember, Number, Insert, Flush,
         Commit, Fail, Open, Amend
<1> QED BY <1>1, <1>2, <1>3

\* A step of a delivery.
Turn(w) ==
  \/ \E e \in Events : Begin(w, e)
  \/ Remember(w) \/ Number(w) \/ Insert(w) \/ Flush(w) \/ Commit(w) \/ Fail(w)
  \/ Open(w) \/ \E plan \in Plans \cup {Start}, end \in Ends \cup {seen[w].expires} : Amend(w, plan, end)

\* A step of nobody's: what deliveries know, and the row, stay.
LEMMA NoTurn ==
  ASSUME [Next]_vars, ~ \E w \in Workers : Turn(w)
  PROVE  UNCHANGED <<phase, event, seen, number, wanted, crowded, user, invoice, applied, granted>>
BY DEF Next, Workers, vars, Turn, delivery, history, Sell, Revoke, Tick, DeleteOrRestore, Replay, Unknown

\* A step of one delivery leaves what the others know.
LEMMA OtherTurns ==
  ASSUME TypeOK, NEW w \in Workers, Turn(w), NEW v \in Workers, v # w
  PROVE  /\ phase'[v] = phase[v] /\ event'[v] = event[v] /\ seen'[v] = seen[v]
         /\ number'[v] = number[v] /\ wanted'[v] = wanted[v]
BY DEF Turn, TypeOK, Begin, Remember, Number, Insert, Flush, Commit, Fail, Open, Amend, Finish

LEMMA DeliveringStep ==
  ASSUME TypeOK, Honest, Delivering, [Next]_vars
  PROVE  Delivering'
<1>0. emitted \subseteq emitted'
  BY PolarStep
<1>1. ASSUME NEW w \in Workers, Turn(w) PROVE Delivering'
  <2> DEFINE Itself ==
        /\ Delivers(w)' => event'[w] \in emitted'
        /\ phase'[w] \in {"numbered", "recorded"} => event'[w].kind = "paid"
        /\ Delivers(w)' /\ event'[w].kind = "paid" /\ phase'[w] \notin {"loaded", "remembered"} =>
             number'[w] # 0
  <2>1. Itself
    <3> USE <1>0 DEF TypeOK, Delivering, Delivers
    <3>1. ASSUME NEW e \in Events, Begin(w, e) PROVE Itself
      BY <3>1 DEF Begin
    <3>2. CASE Remember(w)
      BY <3>2 DEF Remember
    <3>3. CASE Number(w)
      BY <3>3, SequenceType DEF Number, Prepared
    <3>4. CASE Insert(w)
      BY <3>4 DEF Insert
    <3>5. CASE Flush(w)
      BY <3>5 DEF Flush, Prepared
    <3>6. CASE Commit(w) \/ Fail(w)
      BY <3>6 DEF Commit, Fail, Finish
    <3>7. CASE Open(w)
      BY <3>7 DEF Open
    <3>8. ASSUME NEW plan, NEW end, Amend(w, plan, end) PROVE Itself
      BY <3>8 DEF Amend, Finish
    <3> QED BY <1>1, <3>1, <3>2, <3>3, <3>4, <3>5, <3>6, <3>7, <3>8 DEF Turn
  <2> QED BY <1>0, <1>1, <2>1, OtherTurns DEF Delivering, Delivers
<1>2. CASE ~ \E w \in Workers : Turn(w)
  BY <1>0, <1>2, NoTurn DEF Delivering, Delivers
<1> QED BY <1>1, <1>2

\* However often an order is reported, it is applied once.
LEMMA BooksStep ==
  ASSUME TypeOK, Delivering, InsertsApart, OrderAppliedOnce, [Next]_vars
  PROVE  InsertsApart' /\ OrderAppliedOnce'
<1> USE DEF InsertsApart, Inserts, OrderAppliedOnce
<1>1. ASSUME NEW w \in Workers, Turn(w), ~Insert(w), ~Commit(w)
      PROVE  InsertsApart' /\ OrderAppliedOnce'
  <2>1. UNCHANGED <<invoice, applied>>
    BY <1>1 DEF Turn, history, Begin, Remember, Number, Flush, Fail, Open, Amend
  <2>2. Inserts(w)' => Inserts(w) /\ event'[w] = event[w]
    BY <1>1 DEF TypeOK, Delivering, Delivers, Turn, Begin, Remember, Number, Flush, Prepared, Fail, Open, Amend, Finish
  <2> QED BY <1>1, <2>1, <2>2, OtherTurns
<1>2. ASSUME NEW w \in Workers, Insert(w) PROVE InsertsApart' /\ OrderAppliedOnce'
  <2>1. UNCHANGED <<invoice, applied, event>> /\ event[w].kind = "paid" /\ phase'[w] = "recorded"
    BY <1>2 DEF Insert, history, TypeOK, Delivering
  <2>2. /\ invoice[event[w].purchase] = 0
        /\ \A v \in Workers \ {w} : phase'[v] = phase[v] /\ (Inserts(v) => event[v] # event[w])
    BY <1>2 DEF Insert, Taken, Recorded, Inserting, TypeOK
  <2> QED BY <2>1, <2>2
<1>3. ASSUME NEW w \in Workers, Commit(w) PROVE InsertsApart' /\ OrderAppliedOnce'
  <2>1. phase[w] = "flushed" /\ phase'[w] = "idle" /\ Turn(w)
    BY <1>3 DEF Commit, Finish, TypeOK, Turn
  <2>2. CASE event[w].kind # "paid"
    <3>1. UNCHANGED <<invoice, applied>>
      BY <1>3, <2>2 DEF Commit
    <3> QED BY <2>1, <3>1, OtherTurns
  <2>3. CASE event[w].kind = "paid"
    <3> DEFINE p == event[w].purchase
    <3>1. p \in Purchases /\ event[w] \in Events
      BY <2>1 DEF TypeOK, Delivering, Delivers, Events
    <3>2. invoice[p] = 0 /\ number[w] # 0 /\ applied[p] = 0
      BY <2>1, <2>3, <3>1 DEF Delivering, Delivers
    <3>3. invoice' = [invoice EXCEPT ![p] = number[w]] /\ applied' = [applied EXCEPT ![p] = @ + 1]
      BY <1>3, <2>3 DEF Commit
    <3>4. OrderAppliedOnce'
      BY <3>1, <3>2, <3>3 DEF TypeOK
    <3>5. ASSUME NEW v \in Workers, Inserts(v), v # w PROVE event[v].purchase # p
      <4>1. event[v] # event[w]
        BY <2>1, <2>3, <3>5
      <4>2. event[v] \in Events
        BY <3>5 DEF TypeOK, Delivering, Delivers
      <4> QED BY <2>3, <3>1, <3>5, <4>1, <4>2 DEF Events
    <3> HIDE DEF p
    <3>6. ASSUME NEW v \in Workers, Inserts(v)' PROVE invoice'[event'[v].purchase] = 0
      <4>1. v # w /\ Inserts(v) /\ event'[v] = event[v]
        BY <2>1, <3>6, OtherTurns
      <4> QED BY <3>3, <3>5, <4>1 DEF TypeOK
    <3>7. ASSUME NEW v \in Workers, Inserts(v)', NEW u \in Workers, Inserts(u)', event'[u] = event'[v]
          PROVE  u = v
      BY <2>1, <3>7, OtherTurns
    <3> QED BY <3>4, <3>6, <3>7
  <2> QED BY <2>2, <2>3
<1>4. CASE ~ \E w \in Workers : Turn(w)
  BY <1>4, NoTurn
<1> QED BY <1>1, <1>2, <1>3, <1>4

\* What Polar was told to be done with is in the books.
LEMMA AckedStep ==
  ASSUME TypeOK, Delivering, InsertsApart, AckedIsRecorded, [Next]_vars
  PROVE  AckedIsRecorded'
<1> USE DEF AckedIsRecorded
<1>1. ASSUME NEW e \in Events, Replay(e) PROVE AckedIsRecorded'
  BY <1>1, OrderOf DEF Replay, AlreadyRecorded, history
<1>2. ASSUME NEW e \in Events, Unknown(e) PROVE AckedIsRecorded'
  BY <1>2 DEF Unknown
<1>3. ASSUME NEW w \in Workers, Commit(w) PROVE AckedIsRecorded'
  <2>0. event[w] \in Events
    BY <1>3 DEF Commit, Delivering, Delivers, TypeOK
  <2>1. CASE event[w].kind # "paid"
    BY <1>3, <2>0, <2>1, OrderOf DEF Commit
  <2>2. CASE event[w].kind = "paid"
    <3>1. number[w] # 0 /\ event[w].purchase \in Purchases
      BY <1>3, <2>0, <2>2 DEF Commit, Delivering, Delivers, Events
    <3> QED BY <1>3, <2>0, <2>2, <3>1, OrderOf DEF Commit, TypeOK
  <2> QED BY <2>1, <2>2
<1>4. \/ \E e \in Events : Replay(e) \/ Unknown(e)
      \/ \E w \in Workers : Commit(w)
      \/ UNCHANGED <<acked, missed, invoice>>
  BY DEF Next, Workers, vars, history, Sell, Revoke, Tick, DeleteOrRestore, Begin, Remember, Number, Insert, Flush, Fail, Open, Amend
<1> QED BY <1>1, <1>2, <1>3, <1>4

LEMMA PeriodsStep ==
  ASSUME TypeOK, Honest, Delivering, PeriodsEarned, [Next]_vars
  PROVE  PeriodsEarned'
<1>0. ASSUME NEW t, Earned(t) PROVE Earned(t)'
  BY <1>0, PolarStep DEF Earned, Sold
<1>1. ASSUME NEW w \in Workers, Turn(w) PROVE PeriodsEarned'
  <2> DEFINE Kept ==
        /\ ~granted' => Earned(user'.expires)
        /\ phase'[w] = "flushed" => Earned(wanted'[w].expires)
  <2>1. Kept
    <3> USE DEF PeriodsEarned, TypeOK
    <3>1. ASSUME NEW e \in Events, Begin(w, e) PROVE Kept
      BY <3>1 DEF Begin, history
    <3>2. CASE Remember(w) \/ Number(w) \/ Insert(w)
      BY <3>2 DEF Remember, Number, Insert, history
    <3>3. CASE Flush(w)
      <4>1. Wanted(w).expires \in {0, PeriodEnd(event[w].purchase)} /\ event[w] \in emitted
        BY <3>3, WantedRow DEF Flush, Prepared, Delivering, Delivers
      <4>2. event[w].purchase \in Purchases /\ Sold(event[w].purchase)
        BY <4>1 DEF Events, Honest
      <4>3. Earned(Wanted(w).expires)
        BY <4>1, <4>2 DEF Earned, PeriodEnd
      <4> QED BY <3>3, <4>3 DEF Flush, history
    <3>4. CASE Commit(w)
      <4>1. user'.expires = IF wanted[w].expires = seen[w].expires THEN user.expires ELSE wanted[w].expires
        BY <3>4, MergedRow DEF Commit
      <4>2. Earned(wanted[w].expires) /\ phase'[w] = "idle"
        BY <3>4 DEF Commit, Finish
      <4>3. granted' = (granted /\ wanted[w].expires = seen[w].expires)
        BY <3>4 DEF Commit
      <4> QED BY <4>1, <4>2, <4>3
    <3>5. CASE Fail(w)
      BY <3>5 DEF Fail, Finish, history
    <3>6. CASE Open(w)
      BY <3>6 DEF Open, history
    <3>7. ASSUME NEW plan \in Plans \cup {Start}, NEW end \in Ends \cup {seen[w].expires}, Amend(w, plan, end)
          PROVE  Kept
      <4>1. ~granted' => ~granted /\ end = seen[w].expires
        BY <3>7 DEF Amend
      <4>2. user'.expires = IF end = seen[w].expires THEN user.expires ELSE end
        BY <3>7, AmendedRow
      <4>3. phase'[w] = "idle"
        BY <3>7 DEF Amend, Finish
      <4> QED BY <4>1, <4>2, <4>3
    <3> QED BY <1>1, <3>1, <3>2, <3>3, <3>4, <3>5, <3>6, <3>7 DEF Turn
  <2>2. \A v \in Workers : phase'[v] = "flushed" => Earned(wanted'[v].expires)
    BY <1>1, <2>1, OtherTurns DEF PeriodsEarned
  <2> QED BY <1>0, <2>1, <2>2 DEF PeriodsEarned
<1>2. CASE ~ \E w \in Workers : Turn(w)
  <2>1. UNCHANGED <<user, granted, phase, wanted>>
    BY <1>2, NoTurn
  <2> QED BY <1>0, <2>1 DEF PeriodsEarned
<1> QED BY <1>1, <1>2

\* Nobody changes the row under a transaction that runs alone.
LEMMA AloneStep ==
  ASSUME TypeOK, Alone, [Next]_vars
  PROVE  Alone'
<1> USE DEF Alone, Running
<1>1. ASSUME NEW w \in Workers, NEW e \in Events, Begin(w, e) PROVE Alone'
  BY <1>1 DEF Begin, TypeOK
<1>2. ASSUME NEW w \in Workers, Remember(w) \/ Number(w) \/ Insert(w) \/ Flush(w) PROVE Alone'
  <2>1. phase[w] # "idle" /\ UNCHANGED <<user, seen, crowded>>
    BY <1>2 DEF Remember, Number, Insert, Flush, Prepared
  <2>2. Turn(w)
    BY <1>2 DEF Turn
  <2> QED BY <2>1, <2>2, OtherTurns
<1>3. ASSUME NEW w \in Workers, Turn(w), Finish(w), phase[w] # "idle" PROVE Alone'
  <2>1. phase[w] # "idle" /\ phase'[w] = "idle" /\ crowded' = crowded \ {w} /\ Turn(w)
    BY <1>3 DEF Finish, TypeOK
  <2>2. ASSUME NEW v \in Running' \ crowded' PROVE FALSE \/ (user' = user /\ v \in Running \ crowded /\ v # w)
    <3>1. v \in Running \ crowded /\ v # w
      BY <2>1, <2>2, OtherTurns
    <3> QED BY <2>1, <3>1
  <2> QED BY <2>1, <2>2, OtherTurns
<1>4. CASE ~ \E w \in Workers : Turn(w)
  BY <1>4, NoTurn
<1>5. ASSUME NEW w \in Workers, Open(w) PROVE Alone'
  BY <1>5 DEF Open, TypeOK
<1>6. ASSUME NEW w \in Workers, Turn(w)
      PROVE  \/ \E e \in Events : Begin(w, e)
             \/ Remember(w) \/ Number(w) \/ Insert(w) \/ Flush(w) \/ Open(w)
             \/ Finish(w) /\ phase[w] # "idle"
  BY <1>6 DEF Turn, Commit, Fail, Amend
<1> QED BY <1>1, <1>2, <1>3, <1>4, <1>5, <1>6

\* A delivery wants what its event reports, whatever is sold meanwhile.
LEMMA WantingStep ==
  ASSUME TypeOK, Honest, Delivering, Wanting, [Next]_vars
  PROVE  Wanting'
<1>1. ASSUME NEW e \in emitted, NEW row, AsReported(row, e) PROVE AsReported(row, e)'
  <2>1. sold'[e.purchase] = sold[e.purchase]
    BY PolarStep DEF Honest, TypeOK, Events
  <2> QED BY <1>1, <2>1 DEF AsReported
<1>2. ASSUME NEW v \in Workers, phase[v] = "flushed", UNCHANGED <<phase[v], event[v], wanted[v]>>
      PROVE  AsReported(wanted[v], event[v])'
  <2>1. AsReported(wanted[v], event[v]) /\ event[v] \in emitted
    BY <1>2 DEF Wanting, Delivering, Delivers
  <2>2. \A e \in emitted : \A row : AsReported(row, e) => AsReported(row, e)'
    BY <1>1
  <2> QED BY <1>2, <2>1, <2>2 DEF AsReported
<1>3. ASSUME NEW w \in Workers, Turn(w) PROVE Wanting'
  <2>1. ASSUME phase'[w] = "flushed" PROVE AsReported(wanted[w], event[w])'
    <3>1. CASE Flush(w)
      <4>1. Delivers(w)
        BY <3>1 DEF Flush, Prepared, Delivers
      <4>2. AsReported(Wanted(w), event[w])
        BY <4>1, WantedRow
      <4> QED BY <3>1, <4>2 DEF Flush, TypeOK, polar, AsReported
    <3>2. CASE ~Flush(w)
      BY <1>3, <2>1, <3>2 DEF Turn, TypeOK, Begin, Remember, Number, Insert, Commit, Fail, Open, Amend, Finish
    <3> QED BY <3>1, <3>2
  <2>2. ASSUME NEW v \in Workers, v # w, phase'[v] = "flushed" PROVE AsReported(wanted[v], event[v])'
    <3>1. phase[v] = "flushed" /\ UNCHANGED <<phase[v], event[v], wanted[v]>>
      BY <1>3, <2>2, OtherTurns
    <3> QED BY <1>2, <3>1
  <2> QED BY <2>1, <2>2 DEF Wanting
<1>4. CASE ~ \E w \in Workers : Turn(w)
  BY <1>2, <1>4, NoTurn DEF Wanting
<1> QED BY <1>3, <1>4

\* The row follows the newest report once a lone delivery has committed it.
LEMMA SettlesStep ==
  ASSUME TypeOK, Honest, Delivering, Alone, Wanting, LoneDeliverySettles, [Next]_vars
  PROVE  LoneDeliverySettles'
<1>1. ASSUME NEW w \in Workers, Commit(w), settled' PROVE LoneDeliverySettles'
  <2> DEFINE e == event[w]
  <2>1. /\ phase[w] = "flushed" /\ user' = Merged(w, wanted[w]) /\ IsNewest(e) /\ w \notin crowded
        /\ UNCHANGED <<sold, emitted>> /\ e \in emitted /\ e \in Events /\ wanted[w] \in UserRow
    BY <1>1 DEF Commit, polar, Delivering, Delivers, TypeOK
  <2>2. user' = wanted[w]
    BY <2>1, MergedRow DEF Alone, Running
  <2>3. AsReported(wanted[w], e)
    BY <2>1 DEF Wanting
  <2>4. ASSUME NEW p \in Purchases, Newest(p) PROVE p = e.purchase
    BY <2>1, <2>4, PlanBillingAssumption DEF IsNewest, Newest, Purchases, Events
  <2>5. e.kind = "revoked" <=> Revoked(e.purchase) \in emitted
    <3>1. e.kind = "revoked" => e = Revoked(e.purchase)
      BY <2>1 DEF Events, Revoked
    <3> QED BY <2>1, <3>1 DEF IsNewest
  <2>6. ASSUME NEW p \in Purchases, Newest(p)'
        PROVE  IF Revoked(p) \in emitted' THEN user'.plan = Start /\ user'.expires = 0
               ELSE /\ p \in Dated => user'.expires = sold'[p]
                    /\ Offer[p] # NoPlan => user'.plan = Offer[p]
    <3>1. Newest(p)
      BY <2>1, <2>6 DEF Newest, Sold
    <3>2. p = e.purchase
      BY <2>4, <3>1
    <3> QED BY <2>1, <2>2, <2>3, <2>5, <3>2 DEF AsReported
  <2> QED BY <2>6 DEF LoneDeliverySettles, Revoked
<1>2. settled' => UNCHANGED <<settled, user, sold, emitted>> \/ \E w \in Workers : Commit(w)
  BY DEF Next, Workers, vars, polar, history, Sell, Revoke, Tick, DeleteOrRestore, Replay, Unknown,
         Begin, Remember, Number, Insert, Flush, Fail, Open, Amend
<1>3. CASE UNCHANGED <<settled, user, sold, emitted>>
  BY <1>3 DEF LoneDeliverySettles, Newest, Sold, Revoked
<1>4. CASE ~settled'
  BY <1>4 DEF LoneDeliverySettles
<1> QED BY <1>1, <1>2, <1>3, <1>4

-----------------------------------------------------------------------------

THEOREM InvTheorem == Spec => []Inv
<1>1. Inv /\ [Next]_vars => Inv'
  BY TypeStep, PolarStep, DeliveringStep, BooksStep, AckedStep, PeriodsStep, AloneStep, WantingStep,
     SettlesStep DEF Inv
<1> QED BY <1>1, InitInv, PTL DEF Spec

\* Every variable keeps its shape.
THEOREM TypeCorrect == Spec => []TypeOK
<1>1. Inv => TypeOK
  BY DEF Inv
<1> QED BY <1>1, InvTheorem, PTL

\* However often and however overlapped it is delivered, an order.paid applies
\* once (webhook_service: the check, and the unique index on external_id).
THEOREM OrderTheorem == Spec => []OrderAppliedOnce
<1>1. Inv => OrderAppliedOnce
  BY DEF Inv
<1> QED BY <1>1, InvTheorem, PTL

\* An order that Polar was told to be done with has its invoice, unless the
\* account was deleted.
THEOREM AckedTheorem == Spec => []AckedIsRecorded
<1>1. Inv => AckedIsRecorded
  BY DEF Inv
<1> QED BY <1>1, InvTheorem, PTL

\* A plan is live within a period that was paid for, or up to the end that an
\* administrator wrote (polar_service._period_end, admin_service.update_user).
THEOREM EntitledTheorem == Spec => []EntitledOnlyWhilePaid
<1>1. ASSUME Inv PROVE EntitledOnlyWhilePaid
  <2>1. (~granted => Earned(user.expires)) /\ user.expires \in 0..(MaxTime + 1) /\ now \in 0..MaxTime
    BY <1>1 DEF Inv, PeriodsEarned, TypeOK, UserRow
  <2> QED BY <2>1, PlanBillingAssumption DEF Earned, EntitledOnlyWhilePaid
<1> QED BY <1>1, InvTheorem, PTL

\* When the newest report is applied last and alone, the account is as it says,
\* until an administrator edits it (polar_service._activate).
THEOREM SettlesTheorem == Spec => []LoneDeliverySettles
<1>1. Inv => LoneDeliverySettles
  BY DEF Inv
<1> QED BY <1>1, InvTheorem, PTL
=============================================================================
