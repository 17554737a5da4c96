---------------------------- MODULE TelegramBot ----------------------------
(***************************************************************************)
(* The Telegram bots of accounts: connecting and disconnecting, subscribers *)
(* that arrive through the webhook, and broadcasts.                        *)
(*                                                                         *)
(* Telegram (outside the server) keeps one webhook for each bot token, and *)
(* sends an update there until it is answered with success, perhaps twice. *)
(* A call to Telegram may fail, and may have had its effect all the same.  *)
(* A request is a READ COMMITTED transaction: what it tells Telegram stays *)
(* when it is rolled back.  Two unique indexes decide between overlapping  *)
(* requests: one live bot of an account, one row of a chat and a bot.      *)
(***************************************************************************)
EXTENDS Naturals, FiniteSets

CONSTANTS
  Connects,     (* connect requests; the bot row each may insert            *)
  Disconnects, Broadcasts,
  Updates,      (* deliveries of an update to the webhook                   *)
  Owner,        (* the account of each connect, disconnect and broadcast    *)
  Token,        (* the BotFather token of each connect                      *)
  Chats,        (* private chats with the bots                              *)
  ChatOf,       (* the chat of each update                                  *)
  NoBot

Requests == Connects \cup Disconnects \cup Broadcasts \cup Updates
Tokens == {Token[c] : c \in Connects}

ASSUME TelegramBotAssumption ==
  /\ DOMAIN Owner = Requests \ Updates /\ DOMAIN Token = Connects
  /\ ChatOf \in [Updates -> Chats]
  /\ NoBot \notin Connects
  /\ Connects \cap (Disconnects \cup Broadcasts \cup Updates) = {}
  /\ Disconnects \cap (Broadcasts \cup Updates) = {} /\ Broadcasts \cap Updates = {}

VARIABLES
  webhook,    (* Telegram: the bot row whose secret each token's URL holds  *)
  bots,       (* committed bot rows                                        *)
  deleted,    (* those with deleted_at                                     *)
  webhookOk,  (* webhook_ok of each row                                    *)
  subscriber, (* the bot of the row each update committed                  *)
  phase,      (* where each request is                                     *)
  bot,        (* the bot row each request has loaded                       *)
  audience,   (* the chats each broadcast has selected, row by row         *)
  todo,       (* rows a broadcast has not sent to yet                      *)
  delivered,  (* sends that Telegram confirmed to each broadcast           *)
  received,   (* Telegram: how often each chat received each broadcast     *)
  status,     (* the status in a broadcast's committed row                 *)
  lost,       (* broadcasts of which a confirmation was lost               *)
  disturbed   (* tokens that overlapping or failing requests worked on     *)

telegram == <<webhook, received>>
table == <<bots, deleted, webhookOk, subscriber, status>>
sending == <<audience, todo, delivered, lost>>
vars == <<telegram, table, phase, bot, sending, disturbed>>

Phases == {"waiting", "checked", "pointed", "loaded", "cleared", "new",
           "fanning", "done", "ignored", "failed"}
Ended == {"done", "ignored", "failed"}
Statuses == {"none", "sent", "failed"}

LiveBots(u) == {c \in bots \ deleted : Owner[c] = u}
TokenOf(r) == IF r \in Connects THEN Token[r] ELSE Token[bot[r]]
Go(r, p) == phase' = [phase EXCEPT ![r] = p]

\* Requests that are at work on the webhook of a token.
Working(t) ==
  {r \in Connects \cup Disconnects :
     phase[r] \in {"checked", "pointed", "loaded", "cleared"} /\ TokenOf(r) = t}
Touch(t) == disturbed' = IF Working(t) = {} THEN disturbed ELSE disturbed \cup {t}

-----------------------------------------------------------------------------
(* Connecting.                                                             *)

\* A live bot of another account already holds the token: nothing prevents it.
Shared(c) == \E b \in bots \ deleted : Token[b] = Token[c]

\* The account has no live bot, and getMe accepts the token.
Check(c) ==
  /\ phase[c] = "waiting" /\ LiveBots(Owner[c]) = {}
  /\ Go(c, "checked")
  /\ disturbed' = IF Working(Token[c]) # {} \/ Shared(c) THEN disturbed \cup {Token[c]} ELSE disturbed
  /\ UNCHANGED <<telegram, table, bot, sending>>

Reject(c) ==
  /\ phase[c] = "waiting"
  /\ Go(c, "ignored")
  /\ UNCHANGED <<telegram, table, bot, sending, disturbed>>

\* Mutant: webhook_ok says that the call was made, not that it succeeded.
PointedAnyway(ok) == TRUE
Pointed(ok) == ok

\* setWebhook with a new secret.  A call that fails may have had its effect.
Point(c) ==
  \E ok \in BOOLEAN, effect \in BOOLEAN :
    /\ phase[c] = "checked" /\ (ok => effect)
    /\ webhook' = IF effect THEN [webhook EXCEPT ![Token[c]] = c] ELSE webhook
    /\ webhookOk' = [webhookOk EXCEPT ![c] = Pointed(ok)]
    /\ Go(c, "pointed")
    /\ UNCHANGED <<received, bots, deleted, subscriber, status, bot, sending, disturbed>>

\* The insert, decided by the unique index on live bots, and the commit.
Enroll(c) ==
  /\ phase[c] = "pointed" /\ LiveBots(Owner[c]) = {}
  /\ bots' = bots \cup {c}
  /\ Go(c, "done")
  /\ UNCHANGED <<telegram, deleted, webhookOk, subscriber, status, bot, sending, disturbed>>

-----------------------------------------------------------------------------
(* Disconnecting.                                                          *)

Load(r) ==
  \E b \in LiveBots(Owner[r]) :
    /\ r \in Disconnects /\ phase[r] = "waiting"
    /\ bot' = [bot EXCEPT ![r] = b]
    /\ Go(r, "loaded")
    /\ Touch(Token[b])
    /\ UNCHANGED <<telegram, table, sending>>

\* deleteWebhook, whose error is only logged.
ClearWebhook(r) ==
  \E effect \in BOOLEAN :
    /\ phase[r] = "loaded"
    /\ webhook' = IF effect THEN [webhook EXCEPT ![TokenOf(r)] = NoBot] ELSE webhook
    /\ Go(r, "cleared")
    /\ UNCHANGED <<received, table, bot, sending, disturbed>>

Delete(r) ==
  /\ phase[r] = "cleared"
  /\ deleted' = deleted \cup {bot[r]}
  /\ Go(r, "done")
  /\ UNCHANGED <<telegram, bots, webhookOk, subscriber, status, bot, sending, disturbed>>

-----------------------------------------------------------------------------
(* The webhook.                                                            *)

Rows(b, chat) == {u \in Updates : subscriber[u] = b /\ ChatOf[u] = chat}

\* Updates go to the secret in the webhook of the token.
Find(u, t) ==
  LET b == webhook[t] IN
  /\ phase[u] = "waiting" /\ b # NoBot
  /\ IF b \in bots \ deleted /\ Rows(b, ChatOf[u]) = {}
     THEN bot' = [bot EXCEPT ![u] = b] /\ Go(u, "new")
     ELSE Go(u, "ignored") /\ UNCHANGED bot
  /\ UNCHANGED <<telegram, table, sending, disturbed>>

\* Mutant: no unique index on the bot and the chat.
AlwaysJoins(u) == TRUE
Joins(u) == Rows(bot[u], ChatOf[u]) = {}

Subscribe(u) ==
  /\ u \in Updates /\ phase[u] = "new" /\ Joins(u)
  /\ subscriber' = [subscriber EXCEPT ![u] = bot[u]]
  /\ Go(u, "done")
  /\ UNCHANGED <<telegram, bots, deleted, webhookOk, status, bot, sending, disturbed>>

-----------------------------------------------------------------------------
(* Broadcasts.                                                             *)

Audience(b) == {u \in Updates : subscriber[u] = b}

\* The row is inserted as "sending", but nobody sees it before the commit.
Start(r) ==
  \E b \in LiveBots(Owner[r]) :
    /\ r \in Broadcasts /\ phase[r] = "waiting"
    /\ bot' = [bot EXCEPT ![r] = b]
    /\ audience' = [audience EXCEPT ![r] = Audience(b)]
    /\ todo' = [todo EXCEPT ![r] = Audience(b)]
    /\ Go(r, "fanning")
    /\ UNCHANGED <<telegram, table, delivered, lost, disturbed>>

\* Mutant: attempts are counted, not confirmations.
CountedAlways(ok) == TRUE
Counted(ok) == ok

\* sendMessage to one row of the audience; the sends are concurrent.
SendTo(r, u) ==
  \E ok \in BOOLEAN, effect \in BOOLEAN :
    /\ phase[r] = "fanning" /\ u \in todo[r] /\ (ok => effect)
    /\ todo' = [todo EXCEPT ![r] = @ \ {u}]
    /\ received' = IF effect THEN [received EXCEPT ![r][ChatOf[u]] = @ + 1] ELSE received
    /\ delivered' = IF Counted(ok) THEN [delivered EXCEPT ![r] = @ + 1] ELSE delivered
    /\ lost' = IF effect /\ ~ok THEN lost \cup {r} ELSE lost
    /\ UNCHANGED <<webhook, table, phase, bot, audience, disturbed>>

Outcome(r) == IF audience[r] # {} /\ delivered[r] = 0 THEN "failed" ELSE "sent"

Record(r) ==
  /\ r \in Broadcasts /\ phase[r] = "fanning" /\ todo[r] = {}
  /\ status' = [status EXCEPT ![r] = Outcome(r)]
  /\ Go(r, "done")
  /\ UNCHANGED <<telegram, bots, deleted, webhookOk, subscriber, bot, sending, disturbed>>

-----------------------------------------------------------------------------
\* A unique index that is taken by now, an error, a lost client or a crash.
\* Telegram repeats an update that is not answered with success: it waits again.
Fail(r) ==
  /\ phase[r] \notin Ended \cup {"waiting"}
  /\ IF r \in Updates THEN Go(r, "waiting") ELSE Go(r, "failed")
  /\ disturbed' = IF r \in Connects \cup Disconnects
                  THEN disturbed \cup {TokenOf(r)} ELSE disturbed
  /\ UNCHANGED <<telegram, table, bot, sending>>

\* Requests that never come, or wait for what is not there.
Rest ==
  /\ \A r \in Requests : phase[r] \in Ended \cup {"waiting"}
  /\ UNCHANGED vars

Init ==
  /\ webhook = [t \in Tokens |-> NoBot]
  /\ bots = {} /\ deleted = {}
  /\ webhookOk = [c \in Connects |-> FALSE]
  /\ subscriber = [u \in Updates |-> NoBot]
  /\ phase = [r \in Requests |-> "waiting"]
  /\ bot = [r \in Requests |-> NoBot]
  /\ audience = [r \in Broadcasts |-> {}] /\ todo = [r \in Broadcasts |-> {}]
  /\ delivered = [r \in Broadcasts |-> 0] /\ lost = {}
  /\ received = [r \in Broadcasts |-> [c \in Chats |-> 0]]
  /\ status = [r \in Broadcasts |-> "none"]
  /\ disturbed = {}

Next ==
  \/ \E c \in Connects : Check(c) \/ Reject(c) \/ Point(c) \/ Enroll(c)
  \/ \E r \in Disconnects : Load(r) \/ ClearWebhook(r) \/ Delete(r)
  \/ \E u \in Updates : Subscribe(u) \/ \E t \in Tokens : Find(u, t)
  \/ \E r \in Broadcasts : Start(r) \/ Record(r) \/ \E u \in Updates : SendTo(r, u)
  \/ \E r \in Requests : Fail(r)
  \/ Rest

Spec == Init /\ [][Next]_vars

-----------------------------------------------------------------------------
(* What the bots promise.                                                  *)

\* Every variable keeps its shape.
TypeOK ==
  /\ webhook \in [Tokens -> Connects \cup {NoBot}]
  /\ bots \subseteq Connects /\ deleted \subseteq bots
  /\ webhookOk \in [Connects -> BOOLEAN]
  /\ subscriber \in [Updates -> bots \cup {NoBot}]
  /\ phase \in [Requests -> Phases]
  /\ bot \in [Requests -> bots \cup {NoBot}]
  /\ audience \in [Broadcasts -> SUBSET Updates] /\ todo \in [Broadcasts -> SUBSET Updates]
  /\ delivered \in [Broadcasts -> Nat]
  /\ received \in [Broadcasts -> [Chats -> Nat]]
  /\ status \in [Broadcasts -> Statuses]
  /\ lost \subseteq Broadcasts /\ disturbed \subseteq Tokens

\* A live bot that says its webhook is set hears its subscribers, unless
\* requests overlapped on its token or failed half-way, or another account
\* connected the same token.
BotHears ==
  \A c \in bots \ deleted :
    webhookOk[c] /\ Token[c] \notin disturbed /\ Working(Token[c]) = {} => webhook[Token[c]] = c

\* A chat receives a broadcast once, however often its updates were delivered.
NoChatTwice == \A r \in Broadcasts, c \in Chats : received[r][c] <= 1

Heard(r) == {c \in Chats : received[r][c] > 0}

\* The row of a broadcast tells what happened: no more deliveries than chats
\* that received it, exactly as many when no confirmation was lost, and
\* "failed" if there were chats to send to and none confirmed.
LedgerTellsTheTruth ==
  \A r \in Broadcasts : status[r] # "none" =>
    /\ delivered[r] <= Cardinality(Heard(r))
    /\ r \notin lost => delivered[r] = Cardinality(Heard(r))
    /\ (status[r] = "failed") <=> (audience[r] # {} /\ delivered[r] = 0)
=============================================================================
