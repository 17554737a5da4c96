---------------------------- MODULE RateLimiter ----------------------------
(***************************************************************************)
(* The fixed window that counts one account's sends in Redis.              *)
(*                                                                         *)
(* A request increments the key; the request that made it one then gives   *)
(* the key a time to live, in a call of its own, and the key vanishes when *)
(* that is over.  An error of Redis lets the request pass.                 *)
(***************************************************************************)
EXTENDS Naturals, FiniteSets

CONSTANTS
  Requests,
  Limit          (* hits a window lets pass                                *)

LimitAssumption == Limit \in Nat \ {0}

VARIABLES
  count,         (* the key's value, 0 when there is no key                *)
  timed,         (* the key has a time to live                             *)
  gate,          (* where each request is in check_rate_limit              *)
  counted,       (* history: requests whose hit this window has            *)
  open,          (* history: requests an error of Redis let pass           *)
  untimed        (* history: the EXPIRE of this window was lost            *)

limiterVars == <<count, timed, gate, counted, open, untimed>>

Gates == {"before", "first", "passed", "limited", "gone"}
Pass(r, g) == gate' = [gate EXCEPT ![r] = g]

\* Mutant: one hit more.
OneMore(n) == n <= Limit + 1
Within(n) == n <= Limit

\* Mutant: the count of the key is compared as it was before the hit.
StartsFromZero(n) == n = 0
Starts(n) == n = 1

\* INCR.
Hit(r) ==
  /\ gate[r] = "before"
  /\ count' = count + 1
  /\ counted' = counted \cup {r}
  /\ Pass(r, IF Starts(count + 1) THEN "first"
             ELSE IF Within(count + 1) THEN "passed" ELSE "limited")
  /\ UNCHANGED <<timed, open, untimed>>

\* Redis cannot be reached, or counts the hit and the answer is lost.
HitFails(r) ==
  /\ gate[r] = "before"
  /\ \/ UNCHANGED <<count, counted, untimed>>
     \/ /\ count' = count + 1
        /\ counted' = counted \cup {r}
        /\ untimed' = (untimed \/ Starts(count + 1))
  /\ open' = open \cup {r}
  /\ Pass(r, "passed")
  /\ UNCHANGED timed

\* EXPIRE.
SetExpire(r) ==
  /\ gate[r] = "first"
  /\ timed' = TRUE
  /\ Pass(r, "passed")
  /\ UNCHANGED <<count, counted, open, untimed>>

ExpireFails(r) ==
  /\ gate[r] = "first"
  /\ timed' \in {timed, TRUE}
  /\ untimed' = ~timed'
  /\ open' = open \cup {r}
  /\ Pass(r, "passed")
  /\ UNCHANGED <<count, counted>>

\* The client hangs up, or the process dies, between the two calls.
Abandon(r) ==
  /\ gate[r] \in {"before", "first"}
  /\ untimed' = (untimed \/ gate[r] = "first")
  /\ Pass(r, "gone")
  /\ UNCHANGED <<count, timed, counted, open>>

\* The time is over, or Redis loses its data.
Elapse ==
  /\ timed
  /\ count' = 0 /\ timed' = FALSE /\ counted' = {}
  /\ UNCHANGED <<gate, open, untimed>>

LimiterInit ==
  /\ count = 0 /\ timed = FALSE /\ counted = {} /\ open = {} /\ untimed = FALSE
  /\ gate = [r \in Requests |-> "before"]

Check(r) == Hit(r) \/ HitFails(r) \/ SetExpire(r) \/ ExpireFails(r) \/ Abandon(r)

LimiterNext == Elapse \/ \E r \in Requests : Check(r)

LimiterSpec == LimiterInit /\ [][LimiterNext]_limiterVars

-----------------------------------------------------------------------------

\* Every variable keeps its shape.
LimiterTypeOK ==
  /\ count \in Nat
  /\ timed \in BOOLEAN /\ untimed \in BOOLEAN
  /\ gate \in [Requests -> Gates]
  /\ counted \subseteq Requests /\ open \subseteq Requests

\* However hits interleave, a window lets at most Limit of its hits pass, not
\* counting those that pass because Redis failed.
AtMostLimit == Cardinality({r \in counted \ open : gate[r] \in {"first", "passed"}}) <= Limit

\* A key without a time to live, which would refuse the account for ever, has
\* a request that is about to give it one, unless that call was lost ("the
\* first INCR in a window sets the TTL").
NoEndlessWindow == count > 0 /\ ~timed => untimed \/ \E r \in counted : gate[r] = "first"
=============================================================================
