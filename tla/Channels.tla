------------------------------ MODULE Channels ------------------------------
(***************************************************************************)
(* TelegramBot, Realtime and Notifications in one specification.  They     *)
(* share no state that the properties relate: a behaviour is one of a      *)
(* single component, with the others at rest.                              *)
(***************************************************************************)
EXTENDS TelegramBot

CONSTANTS
  Sends, Sockets, Phones, PhoneOf, NoPhone,
  Notices, PageSize, Asked

VARIABLES
  part,
  message, published, claimed, sock, relay, left, subs, inbox, woken, heard, early, orphans,
  stage, createdAt, read, walk, filter, total, before, shown, marked, cut

Live == INSTANCE Realtime
liveVars == <<message, published, claimed, sock, relay, left, subs, inbox, woken, heard, early,
              orphans>>
Feed == INSTANCE Notifications
feedVars == <<stage, createdAt, read, walk, filter, total, before, shown, marked, cut>>

ASSUME ChannelsAssumption == Live!RealtimeAssumption /\ Feed!NotificationsAssumption

InitPart == part \in {"bots", "events", "feed"} /\ Init /\ Live!Init /\ Feed!Init

NextPart ==
  \/ part = "bots" /\ Next /\ UNCHANGED <<part, liveVars, feedVars>>
  \/ part = "events" /\ Live!Next /\ UNCHANGED <<part, vars, feedVars>>
  \/ part = "feed" /\ Feed!Next /\ UNCHANGED <<part, vars, liveVars>>

SpecPart == InitPart /\ [][NextPart]_<<part, vars, liveVars, feedVars>>

\* A committed message that waits has a nudge on its way to every listening
\* phone, unless the phone claimed on it too early, and every variable keeps its
\* shape (Realtime).
NudgedUnlessEarly == part = "events" => Live!NudgedUnlessEarly /\ Live!TypeOK

\* Paging to the end of the feed shows all that was there, and every variable
\* keeps its shape (Notifications).
PagingMissesNothing == part = "feed" => Feed!PagingMissesNothing /\ Feed!TypeOK
=============================================================================
