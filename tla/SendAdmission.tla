--------------------------- MODULE SendAdmission ---------------------------
(***************************************************************************)
(* A send from its authentication to its commit: the limiter first, then   *)
(* the quota, in a transaction that keeps the user row it loaded before    *)
(* either of them.                                                         *)
(***************************************************************************)
EXTENDS SendMetering

CONSTANT Limit

VARIABLES count, timed, gate, counted, open, untimed

Limiter == INSTANCE RateLimiter WITH Requests <- Sends

ASSUME LimitAssumption == Limiter!LimitAssumption

limiterVars == <<count, timed, gate, counted, open, untimed>>

\* Whatever the limiter says, the user row is in the session by then.
Limiting(s) ==
  /\ phase[s] = "loaded"
  /\ Limiter!Check(s)
  /\ UNCHANGED vars

Admitted(s) == gate[s] = "passed"

\* A send that is over the limit, or was abandoned, rolls back.
TurnAway(s) ==
  /\ gate[s] \in {"limited", "gone"}
  /\ Rollback(s)

Meter(r) ==
  \/ Load(r)
  \/ /\ r \in Sends /\ Admitted(r)
     /\ Refuse(r) \/ Admit(r) \/ FlushSend(r) \/ CommitSend(r) \/ Rollback(r)
  \/ r \in Sends /\ TurnAway(r)
  \/ r \in Resets /\ (FlushReset(r) \/ CommitReset(r) \/ Rollback(r))

AdmissionInit == Init /\ Limiter!LimiterInit

AdmissionNext ==
  \/ \E s \in Sends : Limiting(s)
  \/ Limiter!Elapse /\ UNCHANGED vars
  \/ Plans /\ UNCHANGED limiterVars
  \/ \E r \in Requests : Meter(r) /\ UNCHANGED limiterVars
  \/ Rest /\ UNCHANGED limiterVars

AdmissionSpec == AdmissionInit /\ [][AdmissionNext]_<<vars, limiterVars>>

-----------------------------------------------------------------------------

\* A window lets at most Limit sends of the account pass (RateLimiter).
AtMostLimit == Limiter!AtMostLimit

\* A key that would refuse the account for ever is one whose EXPIRE was lost
\* (RateLimiter).
NoEndlessWindow == Limiter!NoEndlessWindow
=============================================================================
