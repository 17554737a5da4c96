---------------------------- MODULE PlanPricing ----------------------------
(***************************************************************************)
(* The price of a plan here and at Polar.                                  *)
(*                                                                         *)
(* An administrator's edit loads the plan, flushes the new price, which    *)
(* locks the row, pushes it to the plan's product at Polar if asked to,    *)
(* and commits.  The push may fail, fail with its effect, or have its      *)
(* effect later; it never makes the edit fail.  What is pushed is a hundred *)
(* times the price, labelled with the currency that the server is          *)
(* configured with: the price that the plan shows, which is in so'm, where  *)
(* that currency is UZS, and only the same figure where it is another one.  *)
(***************************************************************************)
EXTENDS Naturals

CONSTANTS
  Edits,
  Prices,        (* in whole so'm                                          *)
  NewPrice,      (* what each edit sets                                    *)
  Mirrored,      (* edits that are pushed to Polar                         *)
  FirstPrice,
  Currency,      (* settings.polar_currency                                *)
  NoEdit

PricingAssumption ==
  /\ Prices \subseteq Nat
  /\ NewPrice \in [Edits -> Prices] /\ FirstPrice \in Prices
  /\ Mirrored \subseteq Edits /\ NoEdit \notin Edits

VARIABLES
  price,         (* Plan.monthly_price, as committed                       *)
  polar,         (* Polar: the amount and the currency of the product      *)
  late,          (* such prices on their way to Polar after a timeout      *)
  seen,          (* the price each edit loaded                             *)
  phase,         (* where each edit is                                     *)
  locker,        (* the edit whose transaction locks the plan's row        *)
  drift          (* history: Polar is known not to follow since the last push *)

vars == <<price, polar, late, seen, phase, locker, drift>>

ToMinor(p) == p * 100
Charged(p) == [amount |-> ToMinor(p), currency |-> Currency]

Changes(e) == NewPrice[e] # seen[e]
Go(e, p) == phase' = [phase EXCEPT ![e] = p]
Unlock(e) == locker' = IF locker = e THEN NoEdit ELSE locker

Load(e) ==
  /\ phase[e] = "waiting"
  /\ seen' = [seen EXCEPT ![e] = price]
  /\ Go(e, "loaded")
  /\ UNCHANGED <<price, polar, late, locker, drift>>

\* Mutant: the price is flushed after it is pushed, at the commit.
FlushUnlocked(e) ==
  /\ phase[e] = "loaded"
  /\ Go(e, "flushed")
  /\ UNCHANGED <<price, polar, late, seen, locker, drift>>

\* A price that is what the edit has loaded is not written and locks nothing.
Flush(e) ==
  /\ phase[e] = "loaded"
  /\ \/ ~Changes(e) /\ UNCHANGED locker
     \/ Changes(e) /\ locker = NoEdit /\ locker' = e
  /\ Go(e, "flushed")
  /\ UNCHANGED <<price, polar, late, seen, drift>>

\* An edit that changes nothing pushes a price it has read without a lock.
Outdated(e) == ~Changes(e) /\ (seen[e] # price \/ locker # NoEdit)

Push(e) ==
  /\ phase[e] = "flushed" /\ e \in Mirrored
  /\ polar' = Charged(NewPrice[e])
  /\ drift' = Outdated(e)
  /\ Go(e, "pushed")
  /\ UNCHANGED <<price, late, seen, locker>>

\* Polar is not configured, has no product for the plan, refuses, is out of reach,
\* does not answer, or has the effect after the timeout: the edit goes on and
\* reports it.
PushFails(e) ==
  /\ phase[e] = "flushed" /\ e \in Mirrored
  /\ \/ polar' \in {polar, Charged(NewPrice[e])} /\ UNCHANGED late
     \/ late' = late \cup {Charged(NewPrice[e])} /\ UNCHANGED polar
  /\ drift' = TRUE
  /\ Go(e, "pushed")
  /\ UNCHANGED <<price, seen, locker>>

Arrives(c) ==
  /\ polar' = c /\ late' = late \ {c}
  /\ drift' = TRUE
  /\ UNCHANGED <<price, seen, phase, locker>>

Commit(e) ==
  /\ phase[e] = IF e \in Mirrored THEN "pushed" ELSE "flushed"
  /\ price' = IF Changes(e) THEN NewPrice[e] ELSE price
  /\ drift' = (drift \/ (e \notin Mirrored /\ Changes(e)))
  /\ Go(e, "done")
  /\ Unlock(e)
  /\ UNCHANGED <<polar, late, seen>>

\* The commit, or anything before it, fails: Polar keeps what was pushed.
Rollback(e) ==
  /\ phase[e] \in {"loaded", "flushed", "pushed"}
  /\ drift' = (drift \/ phase[e] = "pushed")
  /\ Go(e, "failed")
  /\ Unlock(e)
  /\ UNCHANGED <<price, polar, late, seen>>

Init ==
  /\ price = FirstPrice /\ polar = Charged(FirstPrice) /\ late = {}
  /\ seen = [e \in Edits |-> FirstPrice]
  /\ phase = [e \in Edits |-> "waiting"]
  /\ locker = NoEdit /\ drift = FALSE

Next ==
  \/ \E e \in Edits : Load(e) \/ Flush(e) \/ Push(e) \/ PushFails(e) \/ Commit(e) \/ Rollback(e)
  \/ \E c \in late : Arrives(c)

Spec == Init /\ [][Next]_vars

-----------------------------------------------------------------------------

\* Once no push waits for its commit, Polar has the price of the plan in hundredths,
\* in the configured currency: overlapping edits push in the order in which they
\* commit.  Polar may differ only after an edit that was not pushed, a push that
\* failed or came late, a rollback after the push, or a push of an unchanged price
\* that overlapped a change.  It is what the plan shows, in so'm, if that currency
\* is UZS.
PricesAgree ==
  \/ drift
  \/ \E e \in Edits : phase[e] = "pushed"
  \/ polar = [amount |-> price * 100, currency |-> Currency]
=============================================================================
