----------------------- MODULE MessageQueueLifecycle -----------------------
(***************************************************************************)
(* The ledger seen as the life of its messages: the refinement mapping     *)
(* under which MessageQueue implements MessageLifecycle.                    *)
(***************************************************************************)
EXTENDS MessageQueue

Stage(m) ==
  IF m >= nextId THEN "new"
  ELSE IF ~Present(m) THEN "gone"
  ELSE IF StatusIn(m, {"queued", "scheduled"}) THEN "waiting"
  ELSE IF StatusIn(m, {"sending"}) THEN "leased"
  ELSE "closed"

Holders(m) == {d \in Devices : handed[d][m] > 0}

Lifecycle == INSTANCE MessageLifecycle WITH
  Messages <- Ids,
  Phones <- Devices,
  NoPhone <- NoDevice,
  MaxTries <- MaxAttempts,
  stage <- [m \in Ids |-> Stage(m)],
  tries <- [m \in Ids |-> messages[m].attempts],
  phone <- [m \in Ids |-> messages[m].device],
  holders <- [m \in Ids |-> Holders(m)]

\* Whatever requests, phones and the reaper do, every message lives as
\* MessageLifecycle says.
ImplementsLifecycle == Lifecycle!LifeSpec
=============================================================================
