-------------------------- MODULE MessageLifecycle --------------------------
(***************************************************************************)
(* What the ledger promises of a message, without rows, leases, priorities *)
(* or requests: a message is submitted once, waits, is handed to a phone at *)
(* most MaxTries times, always to the same phone, may come back to wait     *)
(* while tries are left, and once it is closed or gone it is handed to      *)
(* nobody.  One step may move any number of messages, each on its own.      *)
(***************************************************************************)
EXTENDS Naturals

CONSTANTS
  Messages,   (* the messages                                              *)
  Phones,     (* the phones                                                *)
  NoPhone,    (* not addressed to a phone                                  *)
  MaxTries    (* how often a message may be handed over                    *)

VARIABLES
  stage,      (* "new", "waiting", "leased", "closed" or "gone"            *)
  tries,      (* how often the message was handed over                     *)
  phone,      (* the phone it is addressed to                              *)
  holders     (* the phones that were ever given it                        *)

lifeVars == <<stage, tries, phone, holders>>

Becomes(m, s, n, p, h) ==
  stage'[m] = s /\ tries'[m] = n /\ phone'[m] = p /\ holders'[m] = h

Rests(m) == Becomes(m, stage[m], tries[m], phone[m], holders[m])

Submit(m) ==
  /\ stage[m] = "new"
  /\ \E p \in Phones \cup {NoPhone} : Becomes(m, "waiting", 0, p, {})

Hand(m) ==
  /\ stage[m] = "waiting"
  /\ tries[m] < MaxTries
  /\ \E p \in Phones :
       /\ phone[m] \in {p, NoPhone}
       /\ holders[m] \subseteq {p}
       /\ Becomes(m, "leased", tries[m] + 1, p, {p})

Return(m) ==
  /\ stage[m] = "leased"
  /\ tries[m] < MaxTries
  /\ Becomes(m, "waiting", tries[m], phone[m], holders[m])

Close(m) ==
  /\ stage[m] \in {"waiting", "leased"}
  /\ Becomes(m, "closed", tries[m], phone[m], holders[m])

Forget(m) ==
  /\ stage[m] \in {"waiting", "leased", "closed"}
  /\ Becomes(m, "gone", 0, NoPhone, holders[m])

LifeInit ==
  /\ stage = [m \in Messages |-> "new"]
  /\ tries = [m \in Messages |-> 0]
  /\ phone = [m \in Messages |-> NoPhone]
  /\ holders = [m \in Messages |-> {}]

LifeStep(m) ==
  \/ Rests(m) \/ Submit(m) \/ Hand(m) \/ Return(m) \/ Close(m) \/ Forget(m)

LifeNext == \A m \in Messages : LifeStep(m)

LifeSpec == LifeInit /\ [][LifeNext]_lifeVars
=============================================================================
