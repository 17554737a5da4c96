------------------------------ MODULE Realtime ------------------------------
(***************************************************************************)
(* Nudges: the events of one account on their way to its phones and pages. *)
(*                                                                         *)
(* A send inserts its message, publishes message.created and commits after *)
(* that, or rolls back.  A WebSocket runs three tasks, a relay that        *)
(* subscribes to the account's channel and forwards events, a ping and a   *)
(* reader; when one of them ends, the others are cancelled and the         *)
(* subscription is taken back.  A phone claims when a frame arrives and on *)
(* a timer.  Redis forgets an event nobody is subscribed to.               *)
(***************************************************************************)
EXTENDS FiniteSets

CONSTANTS
  Sends,        (* send requests, of one message each                      *)
  Sockets,      (* connections to /gateway/ws or /ws                       *)
  Phones,
  PhoneOf,      (* the phone of each socket of the gateway                 *)
  NoPhone       (* ... and of a socket of the dashboard                    *)

RealtimeAssumption == PhoneOf \in [Sockets -> Phones \cup {NoPhone}] /\ NoPhone \notin Phones

VARIABLES
  message,      (* where the message of each send is                       *)
  published,    (* sends that are past publish_event                       *)
  claimed,      (* messages a claim has answered                           *)
  sock,         (* where each socket is                                    *)
  relay,        (* what its relay does                                     *)
  left,         (* clients that are no longer there                        *)
  subs,         (* sockets subscribed at Redis                             *)
  inbox,        (* events on each socket that its client has not received  *)
  woken,        (* nudges each phone has received and not yet claimed on   *)
  heard,        (* history: events Redis gave to each subscription         *)
  early,        (* history: nudges a phone claimed on before the commit    *)
  orphans       (* subscriptions whose relay was cancelled as it subscribed*)

sendVars == <<message, published>>
sockVars == <<sock, relay, left, subs>>
vars == <<sendVars, claimed, sockVars, inbox, woken, heard, early, orphans>>

Publisher == {"none", "inserted", "committed", "rolledBack"}
Committed == {s \in Sends : message[s] = "committed"}

-----------------------------------------------------------------------------
(* Sends.                                                                  *)

Insert(s) ==
  /\ message[s] = "none"
  /\ message' = [message EXCEPT ![s] = "inserted"]
  /\ UNCHANGED <<published, claimed, sockVars, inbox, woken, heard, early, orphans>>

\* Mutant: a subscription keeps the last event only.
LastOnly(c, s) == {s}
Queued(c, s) == inbox[c] \cup {s}

\* publish_event: an error of Redis is logged and the event is lost.
Publish(s) ==
  /\ message[s] = "inserted" /\ s \notin published
  /\ published' = published \cup {s}
  /\ \/ /\ inbox' = [c \in Sockets |-> IF c \in subs THEN Queued(c, s) ELSE inbox[c]]
        /\ heard' = [c \in Sockets |-> IF c \in subs THEN heard[c] \cup {s} ELSE heard[c]]
     \/ UNCHANGED <<inbox, heard>>
  /\ UNCHANGED <<message, claimed, sockVars, woken, early, orphans>>

Commit(s) ==
  /\ message[s] = "inserted" /\ s \in published
  /\ message' = [message EXCEPT ![s] = "committed"]
  /\ UNCHANGED <<published, claimed, sockVars, inbox, woken, heard, early, orphans>>

Rollback(s) ==
  /\ message[s] = "inserted"
  /\ message' = [message EXCEPT ![s] = "rolledBack"]
  /\ UNCHANGED <<published, claimed, sockVars, inbox, woken, heard, early, orphans>>

-----------------------------------------------------------------------------
(* Sockets.                                                                *)

Set(c, s, r) ==
  /\ sock' = [sock EXCEPT ![c] = s]
  /\ relay' = [relay EXCEPT ![c] = r]

Open(c) ==
  /\ sock[c] = "off"
  /\ Set(c, "open", "subscribing") \/ Set(c, "closed", "ended")
  /\ UNCHANGED <<sendVars, claimed, left, subs, inbox, woken, heard, early, orphans>>

\* A device token that no live device has closes the socket at once.
ConnectPhone(c) == PhoneOf[c] # NoPhone /\ Open(c)

\* So does an access token that does not decode.
ConnectPage(c) == PhoneOf[c] = NoPhone /\ Open(c)

\* The relay has subscribed, or Redis refuses and the relay ends.
Subscribe(c) ==
  /\ sock[c] = "open" /\ relay[c] = "subscribing"
  /\ \/ Set(c, "open", "listening") /\ subs' = subs \cup {c}
     \/ Set(c, "closing", "ended") /\ UNCHANGED subs
  /\ UNCHANGED <<sendVars, claimed, left, inbox, woken, heard, early, orphans>>

\* The connection to Redis breaks; the iteration over its messages raises.
LoseRedis(c) ==
  /\ sock[c] = "open" /\ relay[c] = "listening"
  /\ subs' = subs \ {c}
  /\ Set(c, "closing", "ended")
  /\ UNCHANGED <<sendVars, claimed, left, inbox, woken, heard, early, orphans>>

Leave(c) ==
  /\ sock[c] = "open" /\ c \notin left
  /\ left' = left \cup {c}
  /\ UNCHANGED <<sendVars, claimed, sock, relay, subs, inbox, woken, heard, early, orphans>>

\* send_text waits for a client that reads slowly.
Send(c) ==
  /\ sock[c] = "open" /\ relay[c] = "listening" /\ inbox[c] # {}
  /\ Set(c, "open", "sending")
  /\ UNCHANGED <<sendVars, claimed, left, subs, inbox, woken, heard, early, orphans>>

Receive(c) ==
  /\ sock[c] = "open" /\ relay[c] = "sending" /\ c \notin left
  /\ \E s \in inbox[c] :
       /\ inbox' = [inbox EXCEPT ![c] = @ \ {s}]
       /\ woken' = [p \in Phones |-> IF p = PhoneOf[c] THEN woken[p] \cup {s} ELSE woken[p]]
  /\ Set(c, "open", "listening")
  /\ UNCHANGED <<sendVars, claimed, left, subs, heard, early, orphans>>

\* Mutant: the route waits until all three tasks have ended.
AllTasksEnded(c) == c \in left /\ relay[c] = "ended"
ATaskEnded(c) == c \in left

\* The reader, the ping or the relay notices that the client is gone, and the
\* others are cancelled.  A relay that is cancelled while it subscribes has not
\* reached the try of subscribe_user: the subscription may stand and stays.
Cancel(c) ==
  /\ sock[c] = "open" /\ ATaskEnded(c)
  /\ IF relay[c] = "subscribing"
     THEN /\ Set(c, "closing", "ended")
          /\ \/ subs' = subs \cup {c} /\ orphans' = orphans \cup {c}
             \/ UNCHANGED <<subs, orphans>>
     ELSE Set(c, "closing", relay[c]) /\ UNCHANGED <<subs, orphans>>
  /\ UNCHANGED <<sendVars, claimed, left, inbox, woken, heard, early>>

\* A cancelled wait for the next event runs the finally of subscribe_user.  One
\* cancelled in send_text leaves that to the loop, which closes the generator.
Unsubscribe(c) ==
  /\ <<sock[c], relay[c]>> \in {<<"closing", "listening">>, <<"closed", "sending">>}
  /\ subs' = subs \ {c}
  /\ Set(c, sock[c], "ended")
  /\ UNCHANGED <<sendVars, claimed, left, inbox, woken, heard, early, orphans>>

\* gather has waited for the tasks.
Close(c) ==
  /\ sock[c] = "closing" /\ relay[c] # "listening"
  /\ Set(c, "closed", relay[c])
  /\ UNCHANGED <<sendVars, claimed, left, subs, inbox, woken, heard, early, orphans>>

-----------------------------------------------------------------------------
(* Phones.  A claim answers the messages that are committed; a nudge that   *)
(* came before the commit finds nothing, and the next poll finds it.        *)

Claim(p) ==
  /\ claimed' = claimed \cup Committed
  /\ early' = [early EXCEPT ![p] = @ \cup (woken[p] \ Committed)]
  /\ woken' = [woken EXCEPT ![p] = {}]
  /\ UNCHANGED <<sendVars, sockVars, inbox, heard, orphans>>

OnNudge(p) == woken[p] # {} /\ Claim(p)
OnTimer(p) == Committed \ claimed # {} /\ Claim(p)

Init ==
  /\ message = [s \in Sends |-> "none"] /\ published = {} /\ claimed = {}
  /\ sock = [c \in Sockets |-> "off"] /\ relay = [c \in Sockets |-> "none"]
  /\ left = {} /\ subs = {} /\ orphans = {}
  /\ inbox = [c \in Sockets |-> {}] /\ heard = [c \in Sockets |-> {}]
  /\ woken = [p \in Phones |-> {}] /\ early = [p \in Phones |-> {}]

Next ==
  \/ \E s \in Sends : Insert(s) \/ Publish(s) \/ Commit(s) \/ Rollback(s)
  \/ \E c \in Sockets :
       \/ ConnectPhone(c) \/ ConnectPage(c) \/ Subscribe(c) \/ LoseRedis(c) \/ Leave(c)
       \/ Send(c) \/ Receive(c) \/ Cancel(c) \/ Unsubscribe(c) \/ Close(c)
  \/ \E p \in Phones : OnNudge(p) \/ OnTimer(p)

Spec == Init /\ [][Next]_vars

\* A client that is gone is noticed by the reader or by the next ping; Redis
\* answers or the connection to it breaks; the loop runs its tasks.
Fairness ==
  \A c \in Sockets : /\ WF_vars(Cancel(c)) /\ WF_vars(Unsubscribe(c)) /\ WF_vars(Close(c))

FairSpec == Spec /\ Fairness

-----------------------------------------------------------------------------

\* Every variable keeps its shape.
TypeOK ==
  /\ message \in [Sends -> Publisher] /\ published \subseteq Sends
  /\ claimed \subseteq Committed
  /\ sock \in [Sockets -> {"off", "open", "closing", "closed"}]
  /\ relay \in [Sockets -> {"none", "subscribing", "listening", "sending", "ended"}]
  /\ left \subseteq Sockets /\ subs \subseteq Sockets /\ orphans \subseteq subs
  /\ inbox \in [Sockets -> SUBSET Sends] /\ heard \in [Sockets -> SUBSET Sends]
  /\ woken \in [Phones -> SUBSET Sends] /\ early \in [Phones -> SUBSET Sends]

\* A message that is committed and waits has a nudge on its way to every phone
\* whose open socket was subscribed when it was published, unless the phone
\* has claimed on it before the commit: then only the next poll finds it.
NudgedUnlessEarly ==
  \A c \in Sockets, s \in Sends :
    /\ s \in Committed \ claimed /\ s \in heard[c]
    /\ sock[c] = "open" /\ PhoneOf[c] # NoPhone
    => s \in inbox[c] \cup woken[PhoneOf[c]] \cup early[PhoneOf[c]]

\* The socket of a client that is gone is closed and gives its subscription
\* back, whatever its relay was doing, unless that was still subscribing.
GoneIsReleased ==
  \A c \in Sockets : c \in left ~> sock[c] = "closed" /\ c \notin subs \ orphans
=============================================================================
