------------------------- MODULE MCTransactionsEnd -------------------------
(***************************************************************************)
(* Small instances of QueueTransactions and Realtime for TLC.  A behaviour *)
(* is one of a single component, with the other at rest.                   *)
(***************************************************************************)
EXTENDS QueueTransactions

CONSTANTS m1, m2, d1, t1, t2, s1, c1, c2, Sends, Sockets, Phones, PhoneOf, NoPhone

VARIABLES
  part,
  message, published, claimed, sock, relay, left, subs, inbox, woken, heard, early, orphans

Live == INSTANCE Realtime
liveVars == <<message, published, claimed, sock, relay, left, subs, inbox, woken, heard, early,
              orphans>>

\* A phone and a page of the dashboard.
PhoneAndPage == [c \in Sockets |-> IF c = c1 THEN d1 ELSE NoPhone]

ASSUME Live!RealtimeAssumption

InitPart == part \in {"rows", "events"} /\ Init /\ Live!Init

NextPart ==
  \/ part = "rows" /\ Next /\ UNCHANGED <<part, liveVars>>
  \/ part = "events" /\ Live!Next /\ UNCHANGED <<part, vars>>

SpecPart ==
  /\ InitPart /\ [][NextPart]_<<part, vars, liveVars>>
  /\ Fairness /\ Live!Fairness

\* The socket of a client that is gone gives its subscription back (Realtime).
GoneIsReleased == Live!GoneIsReleased
=============================================================================
