------------------------ MODULE SendAdmissionProofs ------------------------
(***************************************************************************)
(* What the counter and the window keep, for any number of requests of any *)
(* size, any plans, quotas and limit, whatever calls to Redis fail.        *)
(*                                                                         *)
(* The two parts share the requests and no state: a send's way through the *)
(* limiter leaves the metering alone and the other way round, so that      *)
(* every behaviour of SendAdmission is one of SendMetering and one of      *)
(* RateLimiter, and each part's invariants are proved about it alone.      *)
(***************************************************************************)
EXTENDS SendAdmission, FiniteSetTheorems, TLAPS

-----------------------------------------------------------------------------
(* The counter.                                                            *)

\* A send was checked against the quota granted to it, and flushes what was
\* checked.
Vouched ==
  \A s \in Sends :
    /\ phase[s] \in {"admitted", "flushed"} => seen[s] + Size[s] <= granted[s]
    /\ phase[s] = "flushed" => pending[s] = seen[s] + Size[s]

\* A send since whose start no plan and no quota changed has the plan and the
\* quota of its account.
Current ==
  \A s \in Sends \ unsettled :
    /\ phase[s] = "loaded" => seenPlan[s] = plan
    /\ phase[s] \in {"admitted", "flushed"} => granted[s] = quota[plan]

\* Whoever has flushed holds the row, and a reset writes a zero or nothing.
Holding ==
  /\ \A r \in Requests : phase[r] = "flushed" => rowLock = r
  /\ \A r \in Resets : phase[r] = "flushed" => pending[r] \in {0, smsSent}

\* Two requests that run together know that they do.
TogetherOverlap ==
  \A q, r \in Running : q # r => r \in overlapped

\* What a running request loaded counts every send that ran alone: none of
\* them commits while it runs.
SeenCountsLone == \A r \in Running : lone <= seen[r]

MeteringInv ==
  /\ TypeOK
  /\ CounterWithinQuota /\ Vouched /\ Current /\ Holding
  /\ LoneSendsCount /\ TogetherOverlap /\ SeenCountsLone

LEMMA MeteringInit == Init => MeteringInv
<1> SUFFICES ASSUME Init PROVE MeteringInv
  OBVIOUS
<1> USE SendMeteringAssumption DEF Init
<1>1. Running = {}
  BY DEF Running
<1>2. quota[plan] \in Nat
  OBVIOUS
<1>3. TypeOK
  BY <1>1 DEF TypeOK, Phases
<1>4. CounterWithinQuota /\ Vouched /\ Current /\ Holding /\ LoneSendsCount
  BY <1>2 DEF CounterWithinQuota, Vouched, Current, Holding, LoneSendsCount, Requests
<1>5. TogetherOverlap /\ SeenCountsLone
  BY <1>1 DEF TogetherOverlap, SeenCountsLone
<1> QED
  BY <1>3, <1>4, <1>5 DEF MeteringInv

\* A request that loads the row sees the committed counter and plan, and tells
\* the running ones that it is there.
LEMMA LoadKeeps ==
  ASSUME MeteringInv, NEW r \in Requests, Load(r)
  PROVE  MeteringInv'
<1> USE SendMeteringAssumption DEF MeteringInv, Load, TypeOK, Phases, plans, history
<1>1. Running' = Running \cup {r} /\ r \notin Running
  BY DEF Running
<1>2. TypeOK'
  BY <1>1 DEF Requests
<1>3. CounterWithinQuota' /\ Vouched' /\ Holding' /\ LoneSendsCount'
  BY DEF CounterWithinQuota, Vouched, Holding, LoneSendsCount, Requests
<1>4. Current'
  BY DEF Current, Requests
<1>5. TogetherOverlap'
  BY <1>1 DEF TogetherOverlap
<1>6. SeenCountsLone'
  BY <1>1 DEF SeenCountsLone, LoneSendsCount, Running
<1> QED
  BY <1>2, <1>3, <1>4, <1>5, <1>6

\* The check grants the quota of the plan that it looks at.
LEMMA AdmitKeeps ==
  ASSUME MeteringInv, NEW s \in Sends, Admit(s)
  PROVE  MeteringInv'
<1> USE SendMeteringAssumption
    DEF MeteringInv, Admit, WithinQuota, TypeOK, Phases, Requests, plans, history
<1>1. Running' = Running
  BY DEF Running
<1>2. quota[seenPlan[s]] \in Nat
  OBVIOUS
<1>3. TypeOK'
  BY <1>1, <1>2
<1>4. CounterWithinQuota' /\ Vouched' /\ Current' /\ Holding' /\ LoneSendsCount'
  BY DEF CounterWithinQuota, Vouched, Current, Holding, LoneSendsCount
<1>5. TogetherOverlap' /\ SeenCountsLone'
  BY <1>1 DEF TogetherOverlap, SeenCountsLone
<1> QED
  BY <1>3, <1>4, <1>5

\* A flush takes the free row for a value that a commit may leave.
LEMMA FlushKeeps ==
  ASSUME MeteringInv, NEW r \in Requests, NEW value \in Nat, Flush(r, value), r \in Running,
         r \in Sends => value = seen[r] + Size[r] /\ phase[r] = "admitted",
         r \in Resets => value \in {0, smsSent}
  PROVE  MeteringInv'
<1> USE SendMeteringAssumption DEF MeteringInv, Flush, TypeOK, Phases, plans, history
<1>1. Running' = Running
  BY DEF Running
<1>2. TypeOK' /\ CounterWithinQuota' /\ LoneSendsCount'
  BY <1>1 DEF CounterWithinQuota, LoneSendsCount
<1>3. Vouched' /\ Current'
  BY DEF Vouched, Current, Requests
<1>4. Holding'
  BY DEF Holding, Requests
<1>5. TogetherOverlap' /\ SeenCountsLone'
  BY <1>1 DEF TogetherOverlap, SeenCountsLone
<1> QED
  BY <1>2, <1>3, <1>4, <1>5

\* The end of a request: the others keep what they have.
LEMMA Ends ==
  ASSUME TypeOK, Holding, NEW r \in Requests, End(r), r \in Running
  PROVE  /\ Running' = Running \ {r}
         /\ phase' \in [Requests -> Phases] /\ phase'[r] = "done"
         /\ seen' \in [Requests -> Nat] /\ pending' \in [Requests -> Nat]
         /\ seenPlan' \in [Sends -> PlanIds] /\ granted' \in [Sends -> Nat]
         /\ rowLock' \in Requests \cup {NoRequest}
         /\ overlapped' = overlapped \ {r}
         /\ \A q \in Requests \ {r} :
              phase'[q] = phase[q] /\ seen'[q] = seen[q] /\ pending'[q] = pending[q]
         /\ \A s \in Sends \ {r} : seenPlan'[s] = seenPlan[s] /\ granted'[s] = granted[s]
         /\ \A q \in Requests : phase'[q] = "flushed" => rowLock' = q
<1> USE SendMeteringAssumption DEF TypeOK, End, Phases
<1>1. Running' = Running \ {r}
  BY DEF Running
<1>2. \A q \in Requests : phase'[q] = "flushed" => rowLock' = q
  BY DEF Holding
<1> QED
  BY <1>1, <1>2 DEF Requests

\* What the requests that go on have is kept, when nothing that they rest on
\* moves.
LEMMA OthersKeep ==
  ASSUME MeteringInv, NEW r \in Requests, End(r), r \in Running,
         \A s \in Sends \ unsettled' : s # r => s \notin unsettled /\ UNCHANGED plans
  PROVE  Vouched' /\ Current' /\ TogetherOverlap'
<1> USE SendMeteringAssumption, Ends DEF MeteringInv, Requests
<1>1. Vouched'
  BY DEF Vouched
<1>2. Current'
  BY DEF Current, plans
<1>3. TogetherOverlap'
  BY DEF TogetherOverlap
<1> QED
  BY <1>1, <1>2, <1>3

\* A send leaves what it was granted; alone, it counts itself over what it
\* loaded, and overlapped, it still counts the lone ones before it.
LEMMA CommitSendKeeps ==
  ASSUME MeteringInv, NEW s \in Sends, CommitSend(s)
  PROVE  MeteringInv'
<1> USE SendMeteringAssumption DEF MeteringInv
<1>1. s \in Requests /\ s \in Running /\ phase[s] = "flushed" /\ End(s)
  BY DEF CommitSend, Running, Requests
<1>2. /\ pending[s] = seen[s] + Size[s] /\ pending[s] <= granted[s] /\ lone <= seen[s]
      /\ s \notin unsettled => granted[s] = quota[plan]
      /\ Size[s] \in Nat /\ seen[s] \in Nat /\ lone \in Nat /\ month \in Nat
  BY <1>1 DEF Vouched, SeenCountsLone, Current, TypeOK
<1>3. UNCHANGED plans /\ unsettled' = unsettled \ {s}
  BY DEF CommitSend
<1>4. TypeOK'
  BY <1>1, <1>2, <1>3, Ends DEF CommitSend, TypeOK, plans
<1>5. CounterWithinQuota' /\ LoneSendsCount'
  <2>1. smsSent' <= allowed' /\ LoneSendsCount'
    BY <1>2 DEF CommitSend, LoneSendsCount
  <2>2. s \in unsettled => moved'
    BY DEF CommitSend
  <2>3. s \notin unsettled => smsSent' <= quota'[plan']
    BY <1>2 DEF CommitSend, plans
  <2> QED
    BY <2>1, <2>2, <2>3 DEF CounterWithinQuota
<1>6. Vouched' /\ Current' /\ TogetherOverlap'
  BY <1>1, <1>3, OthersKeep
<1>7. Holding'
  <2>1. \A r \in Resets : phase'[r] # "flushed"
    BY <1>1, Ends DEF Holding, Requests
  <2> QED
    BY <1>1, <2>1, Ends DEF Holding
<1>8. SeenCountsLone'
  <2>1. lone' = lone \/ Running = {s}
    BY <1>1 DEF CommitSend, TogetherOverlap
  <2> QED
    BY <1>1, <2>1, Ends DEF SeenCountsLone, Running
<1> QED
  BY <1>4, <1>5, <1>6, <1>7, <1>8

\* A reset starts both counts from nothing, or finds that its write was none.
LEMMA CommitResetKeeps ==
  ASSUME MeteringInv, NEW r \in Resets, CommitReset(r)
  PROVE  MeteringInv'
<1> USE SendMeteringAssumption DEF MeteringInv
<1>1. /\ r \in Requests /\ r \in Running /\ r \notin Sends /\ phase[r] = "flushed" /\ End(r)
      /\ pending[r] \in {0, smsSent} /\ pending[r] \in Nat
  BY DEF CommitReset, Running, Requests, Holding, TypeOK
<1>2. \/ UNCHANGED <<plans, moved, unsettled>>
      \/ plan' \in PlanIds /\ quota' = quota /\ moved' = TRUE /\ unsettled' = Running \cap Sends
  BY DEF CommitReset, plans
<1>3. TypeOK'
  <2>1. plan' \in PlanIds /\ quota' \in [PlanIds -> Quotas] /\ moved' \in BOOLEAN
    BY <1>2 DEF TypeOK, plans
  <2>2. unsettled' \subseteq Running' \cap Sends
    <3>1. unsettled \subseteq Sends \cap Running
      BY DEF TypeOK
    <3>2. unsettled' \subseteq Sends \cap Running
      BY <1>2, <3>1
    <3> QED
      BY <1>1, <3>2, Ends
  <2>3. smsSent' \in Nat /\ month' = 0 /\ lone' = 0 /\ allowed' \in Nat
    BY <1>1 DEF CommitReset, TypeOK
  <2>4. overlapped' \subseteq Running'
    BY <1>1, Ends DEF TypeOK
  <2> QED
    BY <1>1, <2>1, <2>2, <2>3, <2>4, Ends DEF TypeOK
<1>4. CounterWithinQuota' /\ LoneSendsCount'
  <2>1. smsSent' = pending[r] /\ lone' = 0 /\ allowed' = allowed /\ allowed \in Nat
    BY DEF CommitReset, TypeOK
  <2>2. CASE UNCHANGED <<plans, moved, unsettled>>
    <3>1. quota[plan] \in Nat
      BY DEF TypeOK
    <3> QED
      BY <1>1, <2>1, <2>2, <3>1 DEF CounterWithinQuota, LoneSendsCount, plans
  <2>3. CASE moved' = TRUE
    BY <1>1, <2>1, <2>3 DEF CounterWithinQuota, LoneSendsCount
  <2> QED
    BY <1>2, <2>2, <2>3
<1>5. Vouched' /\ TogetherOverlap' /\ Current'
  <2>1. CASE UNCHANGED <<plans, moved, unsettled>>
    BY <1>1, <2>1, OthersKeep
  <2>2. CASE unsettled' = Running \cap Sends
    <3>1. Vouched' /\ TogetherOverlap'
      BY <1>1, Ends DEF Vouched, TogetherOverlap, Requests
    <3>2. Current'
      BY <1>1, <2>2, Ends DEF Current, Running, Requests
    <3> QED
      BY <3>1, <3>2
  <2> QED
    BY <1>2, <2>1, <2>2
<1>6. Holding'
  <2>1. \A q \in Requests : phase'[q] # "flushed"
    BY <1>1, Ends DEF Holding
  <2> QED
    BY <2>1 DEF Holding, Requests
<1>7. SeenCountsLone'
  BY <1>1, Ends DEF CommitReset, SeenCountsLone, TypeOK, Running
<1> QED
  BY <1>3, <1>4, <1>5, <1>6, <1>7

\* A request that ends without a commit leaves the counter as it is.
LEMMA LeaveKeeps ==
  ASSUME MeteringInv, NEW r \in Requests, Rollback(r) \/ (r \in Sends /\ Refuse(r))
  PROVE  MeteringInv'
<1> USE SendMeteringAssumption DEF MeteringInv
<1>1. /\ r \in Running /\ End(r)
      /\ unsettled' = unsettled \ {r} /\ UNCHANGED <<smsSent, plans, history>>
  BY DEF Rollback, Refuse, Running
<1>2. TypeOK'
  BY <1>1, Ends DEF TypeOK, plans, history
<1>3. CounterWithinQuota' /\ LoneSendsCount'
  BY <1>1 DEF CounterWithinQuota, LoneSendsCount, plans, history
<1>4. Vouched' /\ Current' /\ TogetherOverlap'
  BY <1>1, OthersKeep
<1>5. Holding'
  BY <1>1, Ends DEF Holding, Requests
<1>6. SeenCountsLone'
  BY <1>1, Ends DEF SeenCountsLone, history, Running
<1> QED
  BY <1>2, <1>3, <1>4, <1>5, <1>6

\* When a plan or a quota changes, the counter may be above it, and whoever runs
\* may have the one of before.
LEMMA PlansKeep ==
  ASSUME MeteringInv, Plans
  PROVE  MeteringInv'
<1> USE SendMeteringAssumption DEF MeteringInv
<1>1. /\ PlanMoves /\ plan' \in PlanIds /\ quota' \in [PlanIds -> Quotas]
      /\ seenPlan' \in [Sends -> PlanIds]
  BY DEF Plans, ChangePlan, Lapse, ChangeQuota, TypeOK
<1>2. Running' = Running
  BY <1>1 DEF PlanMoves, Running
<1>3. TypeOK'
  BY <1>1, <1>2 DEF PlanMoves, TypeOK
<1>4. CounterWithinQuota' /\ LoneSendsCount' /\ Vouched' /\ Holding'
  BY <1>1 DEF PlanMoves, CounterWithinQuota, LoneSendsCount, Vouched, Holding
<1>5. Current'
  BY <1>1 DEF PlanMoves, Current, Running, Requests
<1>6. TogetherOverlap' /\ SeenCountsLone'
  BY <1>1, <1>2 DEF PlanMoves, TogetherOverlap, SeenCountsLone
<1> QED
  BY <1>3, <1>4, <1>5, <1>6

LEMMA MeteringStep == MeteringInv /\ [Next]_vars => MeteringInv'
<1> SUFFICES ASSUME MeteringInv, [Next]_vars PROVE MeteringInv'
  OBVIOUS
<1>1. ASSUME NEW s \in Sends, FlushSend(s) PROVE MeteringInv'
  <2>1. /\ s \in Requests /\ s \notin Resets /\ s \in Running /\ phase[s] = "admitted"
        /\ Metered(s) \in Nat /\ Metered(s) = seen[s] + Size[s]
    BY <1>1, SendMeteringAssumption
    DEF FlushSend, Metered, Requests, MeteringInv, TypeOK, Running
  <2> QED
    BY <1>1, <2>1, FlushKeeps DEF FlushSend
<1>2. ASSUME NEW r \in Resets, FlushReset(r) PROVE MeteringInv'
  <2> DEFINE value == IF seen[r] = 0 THEN smsSent ELSE 0
  <2>1. /\ r \in Requests /\ r \notin Sends /\ r \in Running
        /\ value \in Nat /\ value \in {0, smsSent}
    BY <1>2, SendMeteringAssumption DEF FlushReset, Requests, MeteringInv, TypeOK, Running
  <2>2. Flush(r, value)
    BY <1>2 DEF FlushReset
  <2> QED
    BY <2>1, <2>2, FlushKeeps
<1>3. CASE UNCHANGED vars
  BY <1>3
  DEF vars, plans, request, history, MeteringInv, TypeOK, CounterWithinQuota, LoneSendsCount,
      Vouched, Current, Holding, TogetherOverlap, SeenCountsLone, Running
<1>4. ASSUME NEW r \in Requests, Load(r) PROVE MeteringInv'
  BY <1>4, LoadKeeps
<1>5. ASSUME NEW s \in Sends, Refuse(s) PROVE MeteringInv'
  BY <1>5, LeaveKeeps DEF Requests
<1>6. ASSUME NEW r \in Requests, Rollback(r) PROVE MeteringInv'
  BY <1>6, LeaveKeeps
<1>7. ASSUME NEW s \in Sends, Admit(s) \/ CommitSend(s) PROVE MeteringInv'
  BY <1>7, AdmitKeeps, CommitSendKeeps
<1>8. ASSUME NEW r \in Resets, CommitReset(r) PROVE MeteringInv'
  BY <1>8, CommitResetKeeps
<1>9. CASE Plans
  BY <1>9, PlansKeep
<1> QED
  BY <1>1, <1>2, <1>3, <1>4, <1>5, <1>6, <1>7, <1>8, <1>9 DEF Next, Rest

LEMMA MeteringHolds == Spec => []MeteringInv
BY MeteringInit, MeteringStep, PTL DEF Spec

-----------------------------------------------------------------------------
(* The window.                                                             *)

\* The hits of the window that were let pass by its count.
Passers == {s \in counted \ open : gate[s] \in {"first", "passed"}}

\* The key counts every one of them.
PassersAreCounted ==
  /\ IsFiniteSet(counted)
  /\ Cardinality(Passers) <= count

WindowInv ==
  /\ Limiter!LimiterTypeOK
  /\ PassersAreCounted
  /\ Limiter!AtMostLimit
  /\ Limiter!NoEndlessWindow

\* The instance counts with the same cardinality.
LEMMA AtMostLimitIs ==
  /\ Limiter!AtMostLimit <=> Cardinality(Passers) <= Limit
  /\ Limiter!AtMostLimit' <=> Cardinality(Passers') <= Limit
BY DEF Limiter!AtMostLimit, Limiter!Cardinality, Cardinality, Passers

LEMMA PassersFinite ==
  ASSUME IsFiniteSet(counted)
  PROVE  IsFiniteSet(Passers) /\ Cardinality(Passers) \in Nat
<1>1. Passers \subseteq counted
  BY DEF Passers
<1> QED
  BY <1>1, FS_Subset, FS_CardinalityType

LEMMA WindowInit == Limiter!LimiterInit => WindowInv
<1> SUFFICES ASSUME Limiter!LimiterInit PROVE WindowInv
  OBVIOUS
<1>1. Limiter!LimiterTypeOK
  BY DEF Limiter!LimiterInit, Limiter!LimiterTypeOK, Limiter!Gates
<1>4. Limiter!NoEndlessWindow
  BY DEF Limiter!LimiterInit, Limiter!NoEndlessWindow
<1>2. Passers = {} /\ counted = {} /\ count = 0
  BY DEF Limiter!LimiterInit, Passers
<1>3. Cardinality(Passers) = 0 /\ IsFiniteSet(counted)
  BY <1>2, FS_EmptySet
<1> QED
  BY <1>1, <1>2, <1>3, <1>4, LimitAssumption, AtMostLimitIs
  DEF WindowInv, PassersAreCounted, Limiter!LimitAssumption

\* Unless a hit is counted and let pass, the passers become fewer or stay.
LEMMA NoNewPasser ==
  ASSUME PassersAreCounted, Limiter!AtMostLimit, Passers' \subseteq Passers,
         IsFiniteSet(counted'), count \in Nat, count' \in Nat, count <= count'
  PROVE  PassersAreCounted' /\ Limiter!AtMostLimit'
<1>1. IsFiniteSet(Passers) /\ Cardinality(Passers) \in Nat
  BY PassersFinite DEF PassersAreCounted
<1>2. Cardinality(Passers') <= Cardinality(Passers) /\ Cardinality(Passers') \in Nat
  BY <1>1, FS_Subset, FS_CardinalityType
<1>3. Cardinality(Passers) <= Limit /\ Limit \in Nat
  BY LimitAssumption, AtMostLimitIs DEF Limiter!LimitAssumption
<1>4. Cardinality(Passers') <= Limit
  BY <1>1, <1>2, <1>3
<1> QED
  BY <1>1, <1>2, <1>4, AtMostLimitIs DEF PassersAreCounted

\* A hit that the count lets pass is one more passer and one more hit; the
\* first one is on its way to EXPIRE, a later one finds the window as it is.
LEMMA HitKeeps ==
  ASSUME WindowInv, NEW s \in Sends, Limiter!Hit(s)
  PROVE  WindowInv'
<1> USE DEF WindowInv, Limiter!Hit, Limiter!Pass, Limiter!LimiterTypeOK, Limiter!Gates
<1>1. Limiter!LimiterTypeOK'
  OBVIOUS
<1>2. Limiter!NoEndlessWindow'
  <2>1. CASE count = 0
    BY <2>1 DEF Limiter!NoEndlessWindow, Limiter!Starts
  <2>2. CASE count # 0
    BY <2>2 DEF Limiter!NoEndlessWindow, Limiter!Starts
  <2> QED
    BY <2>1, <2>2
<1>3. IsFiniteSet(counted')
  BY FS_AddElement DEF PassersAreCounted
<1>4. CASE gate'[s] = "limited"
  <2>1. Passers' \subseteq Passers
    BY <1>4 DEF Passers
  <2> QED
    BY <1>1, <1>2, <1>3, <2>1, NoNewPasser
<1>5. CASE gate'[s] # "limited"
  <2>1. Passers' \subseteq Passers \cup {s}
    BY DEF Passers
  <2>2. IsFiniteSet(Passers) /\ Cardinality(Passers) \in Nat
    BY PassersFinite DEF PassersAreCounted
  <2>3. /\ IsFiniteSet(Passers \cup {s})
        /\ Cardinality(Passers \cup {s}) \in Nat
        /\ Cardinality(Passers \cup {s}) <= Cardinality(Passers) + 1
    <3>1. s \notin Passers
      BY DEF Passers
    <3> QED
      BY <2>2, <3>1, FS_AddElement
  <2>4. Cardinality(Passers') <= Cardinality(Passers) + 1 /\ Cardinality(Passers') \in Nat
    BY <2>1, <2>2, <2>3, FS_Subset, FS_CardinalityType
  <2>5. Cardinality(Passers') <= count'
    BY <2>2, <2>4 DEF PassersAreCounted
  <2>6. count' <= Limit /\ Limit \in Nat
    BY <1>5, LimitAssumption DEF Limiter!Starts, Limiter!Within, Limiter!LimitAssumption
  <2>7. Cardinality(Passers') <= Limit
    BY <1>1, <2>4, <2>5, <2>6
  <2> QED
    BY <1>1, <1>2, <1>3, <2>5, <2>7, AtMostLimitIs DEF PassersAreCounted
<1> QED
  BY <1>4, <1>5

\* A hit whose answer is lost is lost with its EXPIRE.
LEMMA LostHitKeeps ==
  ASSUME WindowInv, NEW s \in Sends, Limiter!HitFails(s)
  PROVE  WindowInv'
<1> USE DEF WindowInv, Limiter!LimiterTypeOK, Limiter!Gates
<1>1. /\ gate' = [gate EXCEPT ![s] = "passed"]
      /\ open' = open \cup {s} /\ timed' = timed /\ gate[s] = "before"
  BY DEF Limiter!HitFails, Limiter!Pass
<1>2. CASE UNCHANGED <<count, counted, untimed>>
  <2>1. Limiter!LimiterTypeOK' /\ Limiter!NoEndlessWindow'
    BY <1>1, <1>2 DEF Limiter!NoEndlessWindow
  <2>2. Passers' \subseteq Passers
    BY <1>1, <1>2 DEF Passers
  <2> QED
    BY <1>2, <2>1, <2>2, NoNewPasser DEF PassersAreCounted
<1>3. CASE /\ count' = count + 1 /\ counted' = counted \cup {s}
           /\ untimed' = (untimed \/ Limiter!Starts(count + 1))
  <2>1. Passers' \subseteq Passers /\ IsFiniteSet(counted')
    BY <1>1, <1>3, FS_AddElement DEF Passers, PassersAreCounted
  <2>2. Limiter!LimiterTypeOK' /\ Limiter!NoEndlessWindow'
    <3>1. CASE count = 0
      <4>1. Limiter!Starts(count + 1)
        BY <3>1 DEF Limiter!Starts
      <4>2. untimed' = TRUE
        BY <1>3, <4>1, Zenon
      <4> QED
        BY <1>1, <1>3, <3>1, <4>2 DEF Limiter!NoEndlessWindow
    <3>2. CASE count # 0
      <4>1. untimed' = untimed
        BY <1>3, <3>2 DEF Limiter!Starts
      <4> QED
        BY <1>1, <1>3, <3>2, <4>1 DEF Limiter!NoEndlessWindow
    <3> QED
      BY <3>1, <3>2
  <2> QED
    BY <1>3, <2>1, <2>2, NoNewPasser
<1> QED
  BY <1>2, <1>3 DEF Limiter!HitFails

\* After its hit a request lets the window alone, but for its end: it gives it
\* one, or it loses the call.
LEMMA ExpireKeeps ==
  ASSUME WindowInv, NEW s \in Sends,
         Limiter!SetExpire(s) \/ Limiter!ExpireFails(s) \/ Limiter!Abandon(s)
  PROVE  WindowInv'
<1> USE DEF WindowInv, Limiter!LimiterTypeOK, Limiter!Gates
<1>1. /\ UNCHANGED <<count, counted>>
      /\ gate' \in [Sends -> Limiter!Gates]
      /\ \A q \in Sends : q # s => gate'[q] = gate[q]
      /\ gate'[s] # "gone" => gate'[s] = "passed" /\ gate[s] = "first"
      /\ open' = open \/ open' = open \cup {s}
  <2>1. CASE Limiter!SetExpire(s)
    BY <2>1 DEF Limiter!SetExpire, Limiter!Pass
  <2>2. CASE Limiter!ExpireFails(s)
    BY <2>2 DEF Limiter!ExpireFails, Limiter!Pass
  <2>3. CASE Limiter!Abandon(s)
    BY <2>3 DEF Limiter!Abandon, Limiter!Pass
  <2> QED
    BY <2>1, <2>2, <2>3
<1>2. timed' \in BOOLEAN /\ untimed' \in BOOLEAN
  BY DEF Limiter!SetExpire, Limiter!ExpireFails, Limiter!Abandon
<1>3. Passers' \subseteq Passers
  BY <1>1 DEF Passers
<1>4. Limiter!LimiterTypeOK'
  BY <1>1, <1>2
<1>5. Limiter!NoEndlessWindow'
  <2>1. \/ timed' = TRUE
        \/ untimed' = TRUE
        \/ timed' = timed /\ untimed' = untimed /\ gate[s] # "first"
    BY DEF Limiter!SetExpire, Limiter!ExpireFails, Limiter!Abandon
  <2> QED
    BY <1>1, <2>1 DEF Limiter!NoEndlessWindow
<1> QED
  BY <1>1, <1>3, <1>4, <1>5, NoNewPasser DEF PassersAreCounted

\* The next window starts from nothing.
LEMMA ElapseKeeps ==
  ASSUME WindowInv, Limiter!Elapse
  PROVE  WindowInv'
<1> USE DEF WindowInv, Limiter!Elapse, Limiter!LimiterTypeOK
<1>1. Limiter!LimiterTypeOK'
  OBVIOUS
<1>4. Limiter!NoEndlessWindow'
  BY DEF Limiter!NoEndlessWindow
<1>2. Passers' = {} /\ counted' = {} /\ count' = 0
  BY DEF Passers
<1>3. Cardinality(Passers') = 0 /\ IsFiniteSet(counted')
  BY <1>2, FS_EmptySet
<1> QED
  BY <1>1, <1>2, <1>3, <1>4, LimitAssumption, AtMostLimitIs
  DEF PassersAreCounted, Limiter!LimitAssumption

LEMMA WindowStep == WindowInv /\ [Limiter!LimiterNext]_limiterVars => WindowInv'
<1> SUFFICES ASSUME WindowInv, [Limiter!LimiterNext]_limiterVars PROVE WindowInv'
  OBVIOUS
<1>1. CASE UNCHANGED limiterVars
  BY <1>1
  DEF limiterVars, WindowInv, Limiter!LimiterTypeOK, PassersAreCounted, Passers,
      Limiter!AtMostLimit, Limiter!NoEndlessWindow
<1> QED
  BY <1>1, HitKeeps, LostHitKeeps, ExpireKeeps, ElapseKeeps
  DEF Limiter!LimiterNext, Limiter!Check

LEMMA WindowHolds == Limiter!LimiterSpec => []WindowInv
BY WindowInit, WindowStep, PTL DEF Limiter!LimiterSpec, limiterVars, Limiter!limiterVars

-----------------------------------------------------------------------------
(* The two together.                                                       *)

\* A send that goes through the limiter moves nothing of the metering, and one
\* that the limiter turns away rolls back.
LEMMA AdmissionMeters == AdmissionSpec => Spec
<1>1. [AdmissionNext]_<<vars, limiterVars>> => [Next]_vars
  BY DEF AdmissionNext, Limiting, Meter, TurnAway, Rest, Next, Requests
<1> QED
  BY <1>1, PTL DEF AdmissionSpec, AdmissionInit, Spec

LEMMA AdmissionLimits == AdmissionSpec => Limiter!LimiterSpec
<1>1. [AdmissionNext]_<<vars, limiterVars>> => [Limiter!LimiterNext]_(Limiter!limiterVars)
  BY DEF AdmissionNext, Limiting, Limiter!LimiterNext, limiterVars, Limiter!limiterVars
<1> QED
  BY <1>1, PTL DEF AdmissionSpec, AdmissionInit, Limiter!LimiterSpec

\* Every variable of the metering keeps its shape.
THEOREM MeteringTypeCorrect == AdmissionSpec => []TypeOK
BY AdmissionMeters, MeteringHolds, PTL DEF MeteringInv

\* However sends and resets overlap and fail, each with the counter and the plan
\* it loaded when it authenticated, the committed counter is within the quota that
\* the send that wrote it was checked against, and within that of the account's
\* plan unless a plan or a quota has changed since that send began.
THEOREM CounterTheorem == AdmissionSpec => []CounterWithinQuota
BY AdmissionMeters, MeteringHolds, PTL DEF MeteringInv

\* Sends that no other request overlaps are never lost from the counter, be it
\* by requests that overlap each other before or after them.
THEOREM LoneSendsTheorem == AdmissionSpec => []LoneSendsCount
BY AdmissionMeters, MeteringHolds, PTL DEF MeteringInv

\* However hits interleave and fail, a window's count lets at most Limit of
\* them pass.
THEOREM LimitTheorem == AdmissionSpec => []AtMostLimit
BY AdmissionLimits, WindowHolds, PTL DEF WindowInv, AtMostLimit

\* A key without a time to live has a request on its way to give it one, unless
\* that call was lost.
THEOREM WindowTheorem == AdmissionSpec => []NoEndlessWindow
BY AdmissionLimits, WindowHolds, PTL DEF WindowInv, NoEndlessWindow
=============================================================================
