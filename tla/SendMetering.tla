---------------------------- MODULE SendMetering ----------------------------
(***************************************************************************)
(* How the sends of one account are metered against the monthly quota of   *)
(* its plan when requests overlap and the plan changes.                    *)
(*                                                                         *)
(* A request loads the user row once, when it authenticates, and works on  *)
(* that object: the quota check and the new counter value come from the     *)
(* loaded value.  The check reads the quota of the effective plan, that is  *)
(* of the loaded plan, or of the free one once its end has passed.  The    *)
(* flush writes the columns whose value differs from the loaded one, takes *)
(* the row's lock and keeps it until the commit.  A send inserts its        *)
(* messages in the same transaction.  An activation of the paid plan, or    *)
(* an administrator, sets the counter to zero; a lapse, a revocation and    *)
(* other edits of the plan, or of its quota, leave the counter alone.       *)
(***************************************************************************)
EXTENDS Naturals, FiniteSets

CONSTANTS
  Sends,      (* send requests                                             *)
  Resets,     (* requests that reset the quota                             *)
  Size,       (* recipients of each send                                   *)
  PlanIds,
  Start,      (* the free plan                                             *)
  Quotas,     (* the quotas that plans may ever have                      *)
  NoRequest

Requests == Sends \cup Resets

ASSUME SendMeteringAssumption ==
  /\ Sends \cap Resets = {}
  /\ IsFiniteSet(Requests)
  /\ Size \in [Sends -> Nat \ {0}]
  /\ Start \in PlanIds /\ Quotas \subseteq Nat
  /\ NoRequest \notin Requests

VARIABLES
  smsSent,    (* User.sms_sent_this_month, as committed                    *)
  plan,       (* the effective plan of the account, as committed           *)
  quota,      (* Plan.sms_per_month, as committed                          *)
  month,      (* history: messages committed since the last reset          *)
  lone,       (* history: those of sends that no other request overlapped  *)
  allowed,    (* history: the quota that the last send to write the counter *)
              (* was checked against                                       *)
  moved,      (* history: a plan or a quota changed since that send began  *)
  phase,      (* where each request is                                     *)
  seen,       (* the counter each request loaded                           *)
  seenPlan,   (* the effective plan of the row each send loaded            *)
  granted,    (* the quota that each send was checked against              *)
  pending,    (* the counter value each request has flushed                *)
  rowLock,    (* the request whose transaction locks the user row          *)
  overlapped, (* requests that ran at the same time as another one         *)
  unsettled   (* running sends since whose start a plan or a quota changed *)

plans == <<plan, quota>>
request == <<seen, seenPlan, granted, pending>>
history == <<month, lone, allowed, moved>>
vars == <<smsSent, plans, phase, request, rowLock, history, overlapped, unsettled>>

Phases == {"waiting", "loaded", "admitted", "flushed", "done"}
Running == {r \in Requests : phase[r] \in {"loaded", "admitted", "flushed"}}

\* Authentication loads the user row.
Load(r) ==
  /\ phase[r] = "waiting"
  /\ phase' = [phase EXCEPT ![r] = "loaded"]
  /\ seen' = [seen EXCEPT ![r] = smsSent]
  /\ seenPlan' = IF r \in Sends THEN [seenPlan EXCEPT ![r] = plan] ELSE seenPlan
  /\ overlapped' = IF Running = {} THEN overlapped ELSE overlapped \cup Running \cup {r}
  /\ UNCHANGED <<smsSent, plans, granted, pending, rowLock, history, unsettled>>

\* The answer, and the end of the session with what it has loaded.
End(r) ==
  /\ phase' = [phase EXCEPT ![r] = "done"]
  /\ seen' = [seen EXCEPT ![r] = 0]
  /\ seenPlan' = IF r \in Sends THEN [seenPlan EXCEPT ![r] = Start] ELSE seenPlan
  /\ granted' = IF r \in Sends THEN [granted EXCEPT ![r] = 0] ELSE granted
  /\ pending' = [pending EXCEPT ![r] = 0]
  /\ rowLock' = IF rowLock = r THEN NoRequest ELSE rowLock
  /\ overlapped' = overlapped \ {r}

\* Mutant: the check forgets what is about to be sent.
WithinQuotaBefore(s) == seen[s] <= quota[seenPlan[s]]
WithinQuota(s) == seen[s] + Size[s] <= quota[seenPlan[s]]

Refuse(s) ==
  /\ phase[s] = "loaded" /\ ~WithinQuota(s)
  /\ End(s)
  /\ unsettled' = unsettled \ {s}
  /\ UNCHANGED <<smsSent, plans, history>>

Admit(s) ==
  /\ phase[s] = "loaded" /\ WithinQuota(s)
  /\ phase' = [phase EXCEPT ![s] = "admitted"]
  /\ granted' = [granted EXCEPT ![s] = quota[seenPlan[s]]]
  /\ UNCHANGED <<smsSent, plans, seen, seenPlan, pending, rowLock, history, overlapped, unsettled>>

\* Mutant: one message is metered, whatever the number of recipients.
MeteredOnce(s) == seen[s] + 1
Metered(s) == seen[s] + Size[s]

Flush(r, value) ==
  /\ rowLock = NoRequest
  /\ rowLock' = r
  /\ pending' = [pending EXCEPT ![r] = value]
  /\ phase' = [phase EXCEPT ![r] = "flushed"]
  /\ UNCHANGED <<smsSent, plans, seen, seenPlan, granted, history, overlapped, unsettled>>

FlushSend(s) == phase[s] = "admitted" /\ Flush(s, Metered(s))

\* A loaded zero that is set to zero is no change: the column is not written.
FlushReset(r) == phase[r] = "loaded" /\ Flush(r, IF seen[r] = 0 THEN smsSent ELSE 0)

CommitSend(s) ==
  /\ phase[s] = "flushed"
  /\ smsSent' = pending[s]
  /\ month' = month + Size[s]
  /\ lone' = IF s \in overlapped THEN lone ELSE lone + Size[s]
  /\ allowed' = granted[s]
  /\ moved' = (s \in unsettled)
  /\ End(s)
  /\ unsettled' = unsettled \ {s}
  /\ UNCHANGED plans

\* An activation sets the plan together with the counter.
CommitReset(r) ==
  /\ phase[r] = "flushed"
  /\ smsSent' = pending[r]
  /\ month' = 0 /\ lone' = 0
  /\ \/ UNCHANGED <<plan, moved, unsettled>>
     \/ plan' \in PlanIds \ {plan} /\ moved' = TRUE /\ unsettled' = Running \cap Sends
  /\ End(r)
  /\ UNCHANGED <<quota, allowed>>

\* An error in the request, a client that hangs up, or a crash.
Rollback(r) ==
  /\ r \in Running
  /\ End(r)
  /\ unsettled' = unsettled \ {r}
  /\ UNCHANGED <<smsSent, plans, history>>

-----------------------------------------------------------------------------
(* The plan, beside the requests.                                          *)

PlanMoves ==
  /\ unsettled' = Running \cap Sends
  /\ moved' = TRUE
  /\ UNCHANGED <<smsSent, phase, seen, granted, pending, rowLock, overlapped, month, lone, allowed>>

\* A revocation, or an administrator's edit of the account, is committed.
ChangePlan(p) ==
  /\ rowLock = NoRequest /\ p # plan
  /\ plan' = p
  /\ PlanMoves /\ UNCHANGED <<quota, seenPlan>>

\* Time passes the end of the plan, in the committed row, in rows that sends
\* have loaded, or in both: a renewal in between gives them different ends.
Lapse ==
  /\ plan' \in {plan, Start}
  /\ \E S \in SUBSET {s \in Sends : phase[s] = "loaded" /\ seenPlan[s] # Start} :
       /\ seenPlan' = [s \in Sends |-> IF s \in S THEN Start ELSE seenPlan[s]]
       /\ plan' # plan \/ S # {}
  /\ PlanMoves /\ UNCHANGED quota

\* An administrator's edit of a plan is committed.
ChangeQuota(p, q) ==
  /\ q # quota[p]
  /\ quota' = [quota EXCEPT ![p] = q]
  /\ PlanMoves /\ UNCHANGED <<plan, seenPlan>>

Plans ==
  \/ \E p \in PlanIds : ChangePlan(p) \/ \E q \in Quotas : ChangeQuota(p, q)
  \/ Lapse

Init ==
  /\ smsSent = 0
  /\ plan = Start /\ quota \in [PlanIds -> Quotas]
  /\ month = 0 /\ lone = 0 /\ allowed = 0 /\ moved = FALSE
  /\ phase = [r \in Requests |-> "waiting"]
  /\ seen = [r \in Requests |-> 0]
  /\ seenPlan = [s \in Sends |-> Start]
  /\ granted = [s \in Sends |-> 0]
  /\ pending = [r \in Requests |-> 0]
  /\ rowLock = NoRequest
  /\ overlapped = {} /\ unsettled = {}

\* All requests are answered.
Rest ==
  /\ \A r \in Requests : phase[r] = "done"
  /\ UNCHANGED vars

Next ==
  \/ \E r \in Requests : Load(r) \/ Rollback(r)
  \/ \E s \in Sends : Refuse(s) \/ Admit(s) \/ FlushSend(s) \/ CommitSend(s)
  \/ \E r \in Resets : FlushReset(r) \/ CommitReset(r)
  \/ Plans
  \/ Rest

Spec == Init /\ [][Next]_vars

-----------------------------------------------------------------------------
(* What the counter promises.                                              *)

\* Every variable keeps its shape.
TypeOK ==
  /\ smsSent \in Nat
  /\ plan \in PlanIds /\ quota \in [PlanIds -> Quotas]
  /\ month \in Nat /\ lone \in Nat /\ allowed \in Nat /\ moved \in BOOLEAN
  /\ phase \in [Requests -> Phases]
  /\ seen \in [Requests -> Nat] /\ pending \in [Requests -> Nat]
  /\ seenPlan \in [Sends -> PlanIds] /\ granted \in [Sends -> Nat]
  /\ rowLock \in Requests \cup {NoRequest}
  /\ overlapped \subseteq Running /\ unsettled \subseteq Running \cap Sends

\* Stale values or not, the counter is within the quota that the send that
\* wrote it last was checked against.  It is above the quota of the account's
\* plan only if a plan or a quota has changed since that send began: requests
\* that merely overlap never bring it there.
CounterWithinQuota ==
  /\ smsSent <= allowed
  /\ moved \/ smsSent <= quota[plan]

\* A send that ran alone is never lost from the counter, whatever overlapping
\* requests overwrite before or after it: updates are lost only among requests
\* that overlap.
LoneSendsCount == lone <= smsSent

-----------------------------------------------------------------------------
(* What the quota is said to be and is not, once requests overlap.         *)

\* Between two resets an account sends at most the largest quota that any plan
\* ever has.
QuotaIsEnforced == \E q \in Quotas : month <= q
=============================================================================
