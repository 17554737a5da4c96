-------------------------- MODULE ChannelsProofs ---------------------------
(***************************************************************************)
(* What reaches a person: the bots, the nudges to a phone, the feed.        *)
(*                                                                         *)
(* The bots, for every set of connects, disconnects, updates and            *)
(* broadcasts: a broadcast sends to rows of different chats, and to each    *)
(* row once.  While no two requests overlap on a token and none fails, one  *)
(* request works on the token, one live bot holds it, and the webhook       *)
(* names it.                                                               *)
(*                                                                         *)
(* The nudges, for every set of sends, sockets and phones: what a           *)
(* subscription was given stays with its socket or its phone until the      *)
(* phone claims on it.                                                     *)
(*                                                                         *)
(* The feed, for every finite set of notices and every page size: what a    *)
(* walk is still to show is never on a page it has behind it.               *)
(***************************************************************************)
EXTENDS Channels, FiniteSetTheorems, TLAPS

\* The way of each kind of request, and what its phase tells.
Stages ==
  /\ \A c \in Connects : phase[c] \in {"waiting", "checked", "pointed", "done", "ignored", "failed"}
  /\ \A c \in bots : phase[c] = "done"
  /\ \A r \in Disconnects :
       /\ phase[r] \in {"waiting", "loaded", "cleared", "done", "failed"}
       /\ phase[r] \in {"loaded", "cleared"} => bot[r] \in bots
  /\ \A u \in Updates :
       /\ phase[u] \in {"waiting", "new", "ignored", "done"}
       /\ phase[u] = "new" => bot[u] \in bots
       /\ subscriber[u] # NoBot => phase[u] = "done"
  /\ \A r \in Broadcasts : phase[r] \in {"waiting", "fanning", "done", "failed"}

\* A chat has one row with a bot.
OneRow ==
  \A u, v \in Updates :
    subscriber[u] # NoBot /\ subscriber[u] = subscriber[v] /\ ChatOf[u] = ChatOf[v] => u = v

\* The sends of a broadcast go to different chats, none of which has it yet.
SendsApart ==
  \A r \in Broadcasts :
    /\ phase[r] = "waiting" =>
         r \notin lost /\ delivered[r] = 0 /\ \A c \in Chats : received[r][c] = 0
    /\ todo[r] \subseteq audience[r]
    /\ \A u, v \in audience[r] : ChatOf[u] = ChatOf[v] => u = v
    /\ \A u \in todo[r] : received[r][ChatOf[u]] = 0

\* What a broadcast has counted, at any time.
CountsConfirmed ==
  \A r \in Broadcasts :
    /\ IsFiniteSet(Heard(r))
    /\ delivered[r] <= Cardinality(Heard(r))
    /\ r \notin lost => delivered[r] = Cardinality(Heard(r))

Recorded ==
  \A r \in Broadcasts : status[r] # "none" => phase[r] = "done" /\ status[r] = Outcome(r)

LiveOf(t) == {c \in bots \ deleted : Token[c] = t}
Clearing(t) == {r \in Disconnects : phase[r] = "cleared" /\ Token[bot[r]] = t}

\* The token of requests that came one after the other, and did not fail.
Tidy(t) ==
  /\ \A r, s \in Working(t) : r = s
  /\ \A b, c \in LiveOf(t) : b = c
  /\ \A r \in Working(t) : IF r \in Connects THEN LiveOf(t) = {} ELSE bot[r] \in LiveOf(t)
  /\ \A c \in Connects : Token[c] = t /\ phase[c] = "pointed" /\ webhookOk[c] => webhook[t] = c
  /\ \A c \in LiveOf(t) : webhookOk[c] /\ Clearing(t) = {} => webhook[t] = c

Inv ==
  /\ TypeOK /\ Stages
  /\ OneRow /\ SendsApart /\ NoChatTwice
  /\ CountsConfirmed /\ Recorded
  /\ \A t \in Tokens \ disturbed : Tidy(t)

-----------------------------------------------------------------------------

LEMMA InitInv == Init => Inv
<1> SUFFICES ASSUME Init PROVE Inv
  OBVIOUS
<1> USE TelegramBotAssumption DEF Init
<1>1. TypeOK
  BY DEF TypeOK, Phases, Statuses
<1>2. Stages /\ OneRow /\ SendsApart /\ NoChatTwice
  BY DEF Stages, OneRow, SendsApart, NoChatTwice, Requests
<1>3. CountsConfirmed /\ Recorded
  <2>1. \A r \in Broadcasts : Heard(r) = {}
    BY DEF Heard
  <2>2. \A r \in Broadcasts : delivered[r] = 0 /\ status[r] = "none"
    OBVIOUS
  <2> HIDE DEF Init
  <2> QED BY <2>1, <2>2, FS_EmptySet DEF CountsConfirmed, Recorded
<1>4. ASSUME NEW t \in Tokens PROVE Tidy(t)
  BY DEF Tidy, Working, LiveOf, Requests
<1> QED BY <1>1, <1>2, <1>3, <1>4 DEF Inv

LEMMA TypeStep ==
  ASSUME TypeOK, Stages, [Next]_vars
  PROVE  TypeOK' /\ Stages'
<1> USE TelegramBotAssumption DEF TypeOK, Stages, Phases, Ended, Requests, telegram, table, sending, Go
<1>1. ASSUME NEW c \in Connects, Check(c) PROVE TypeOK' /\ Stages'
  BY <1>1 DEF Check, Tokens
<1>2. ASSUME NEW c \in Connects, Reject(c) PROVE TypeOK' /\ Stages'
  BY <1>2 DEF Reject
<1>3. ASSUME NEW c \in Connects, Point(c) PROVE TypeOK' /\ Stages'
  BY <1>3 DEF Point, Tokens, Pointed
<1>4. ASSUME NEW c \in Connects, Enroll(c) PROVE TypeOK' /\ Stages'
  BY <1>4 DEF Enroll
<1>5. ASSUME NEW r \in Disconnects, Load(r) PROVE TypeOK' /\ Stages'
  BY <1>5 DEF Load, LiveBots, Touch, Tokens
<1>6. ASSUME NEW r \in Disconnects, ClearWebhook(r) PROVE TypeOK' /\ Stages'
  <2>1. webhook' \in [Tokens -> Connects \cup {NoBot}]
    <3>1. webhook' = [webhook EXCEPT ![TokenOf(r)] = NoBot] \/ webhook' = webhook
      BY <1>6 DEF ClearWebhook
    <3>2. webhook \in [Tokens -> Connects \cup {NoBot}]
      OBVIOUS
    <3> HIDE DEF TypeOK, Stages
    <3> QED BY <3>1, <3>2
  <2>2. phase[r] = "loaded" /\ phase' = [phase EXCEPT ![r] = "cleared"]
    BY <1>6 DEF ClearWebhook
  <2>3. UNCHANGED <<received, bots, deleted, webhookOk, subscriber, status, bot, sending, disturbed>>
    BY <1>6 DEF ClearWebhook
  <2>4. Stages'
    BY <2>2, <2>3
  <2> QED BY <2>1, <2>2, <2>3, <2>4 DEF TypeOK
<1>7. ASSUME NEW r \in Disconnects, Delete(r) PROVE TypeOK' /\ Stages'
  BY <1>7 DEF Delete
<1>8. ASSUME NEW u \in Updates, Subscribe(u) PROVE TypeOK' /\ Stages'
  <2>1. /\ phase[u] = "new" /\ bot[u] \in bots /\ phase' = [phase EXCEPT ![u] = "done"]
        /\ subscriber' = [subscriber EXCEPT ![u] = bot[u]]
    BY <1>8 DEF Subscribe
  <2>2. UNCHANGED <<webhook, received, bots, deleted, webhookOk, status, bot, sending, disturbed>>
    BY <1>8 DEF Subscribe
  <2>3. Stages'
    BY <2>1, <2>2
  <2>4. subscriber' \in [Updates -> bots \cup {NoBot}] /\ phase' \in [Requests -> Phases]
    BY <2>1
  <2> HIDE DEF Stages
  <2> QED BY <2>2, <2>3, <2>4
<1>9. ASSUME NEW u \in Updates, NEW t \in Tokens, Find(u, t) PROVE TypeOK' /\ Stages'
  <2>1. /\ phase[u] = "waiting" /\ UNCHANGED <<telegram, table, sending, disturbed>>
        /\ \/ /\ phase' = [phase EXCEPT ![u] = "new"]
              /\ \E b \in bots : bot' = [bot EXCEPT ![u] = b]
           \/ phase' = [phase EXCEPT ![u] = "ignored"] /\ bot' = bot
    BY <1>9 DEF Find
  <2>2. Stages'
    <3>1. CASE phase' = [phase EXCEPT ![u] = "ignored"] /\ bot' = bot
      BY <2>1, <3>1
    <3>2. ASSUME NEW b \in bots, bot' = [bot EXCEPT ![u] = b], phase' = [phase EXCEPT ![u] = "new"]
          PROVE  Stages'
      BY <2>1, <3>2
    <3> QED BY <2>1, <3>1, <3>2
  <2>3. bot \in [Requests -> bots \cup {NoBot}] /\ phase \in [Requests -> Phases]
    OBVIOUS
  <2> HIDE DEF Stages, TypeOK, telegram, table, sending
  <2>4. bot' \in [Requests -> bots \cup {NoBot}] /\ phase' \in [Requests -> Phases]
    BY <2>1, <2>3
  <2> USE DEF TypeOK, telegram, table, sending
  <2> QED BY <2>1, <2>2, <2>4
<1>10. ASSUME NEW r \in Broadcasts, Start(r) PROVE TypeOK' /\ Stages'
  BY <1>10 DEF Start, LiveBots, Audience
<1>11. ASSUME NEW r \in Broadcasts, NEW u \in Updates, SendTo(r, u) PROVE TypeOK' /\ Stages'
  BY <1>11 DEF SendTo, Counted
<1>12. ASSUME NEW r \in Broadcasts, Record(r) PROVE TypeOK' /\ Stages'
  BY <1>12 DEF Record, Outcome, Statuses
<1>13. ASSUME NEW r \in Requests, Fail(r) PROVE TypeOK' /\ Stages'
  <2>1. /\ phase[r] \notin Ended \cup {"waiting"}
        /\ phase' = [phase EXCEPT ![r] = IF r \in Updates THEN "waiting" ELSE "failed"]
        /\ UNCHANGED <<telegram, table, bot, sending>>
    BY <1>13 DEF Fail
  <2>2. Stages'
    BY <2>1
  <2>3. disturbed' \subseteq Tokens
    BY <1>13 DEF Fail, TokenOf, Tokens
  <2> QED BY <2>1, <2>2, <2>3 DEF TypeOK
<1>14. CASE Rest \/ UNCHANGED vars
  BY <1>14 DEF Rest, vars
<1> QED BY <1>1, <1>2, <1>3, <1>4, <1>5, <1>6, <1>7, <1>8, <1>9, <1>10, <1>11, <1>12, <1>13, <1>14 DEF Next

\* A chat has one row with a bot, and keeps it.
LEMMA OneRowStep ==
  ASSUME TypeOK, Stages, OneRow, [Next]_vars
  PROVE  OneRow'
<1> USE DEF OneRow
<1>1. ASSUME NEW u \in Updates, Subscribe(u) PROVE OneRow'
  BY <1>1 DEF Subscribe, Joins, Rows, TypeOK, Stages
<1>2. (\E u \in Updates : Subscribe(u)) \/ UNCHANGED subscriber
  BY DEF Next, vars, table, Check, Reject, Point, Enroll, Load, ClearWebhook, Delete, Find, Start, SendTo,
         Record, Fail, Rest
<1> QED BY <1>1, <1>2

\* A step that is not one of a broadcast, but perhaps its failure.
NoSending ==
  /\ UNCHANGED <<received, sending, status>>
  /\ \A r \in Broadcasts : phase'[r] = phase[r] \/ (phase[r] = "fanning" /\ phase'[r] = "failed")

LEMMA Sendings ==
  ASSUME TypeOK, Stages, [Next]_vars
  PROVE  \/ \E r \in Broadcasts : Start(r) \/ Record(r) \/ \E u \in Updates : SendTo(r, u)
         \/ NoSending
<1> USE TelegramBotAssumption DEF TypeOK, Stages, Requests, Ended, telegram, table, sending, Go
<1>1. ASSUME NEW c \in Connects, Check(c) \/ Reject(c) \/ Point(c) \/ Enroll(c)
      PROVE  NoSending
  <2>1. UNCHANGED <<received, sending, status>>
    BY <1>1 DEF Check, Reject, Point, Enroll
  <2>2. \A r \in Broadcasts : phase'[r] = phase[r] \/ (phase[r] = "fanning" /\ phase'[r] = "failed")
    BY <1>1 DEF Check, Reject, Point, Enroll
  <2> QED BY <2>1, <2>2 DEF NoSending
<1>2. ASSUME NEW d \in Disconnects, Load(d) \/ ClearWebhook(d) \/ Delete(d)
      PROVE  NoSending
  <2>1. UNCHANGED <<received, sending, status>>
    BY <1>2 DEF Load, ClearWebhook, Delete
  <2>2. \A r \in Broadcasts : phase'[r] = phase[r] \/ (phase[r] = "fanning" /\ phase'[r] = "failed")
    BY <1>2 DEF Load, ClearWebhook, Delete
  <2> QED BY <2>1, <2>2 DEF NoSending
<1>3. ASSUME NEW u \in Updates, Subscribe(u) \/ \E t \in Tokens : Find(u, t)
      PROVE  NoSending
  <2>1. UNCHANGED <<received, sending, status>>
    BY <1>3 DEF Subscribe, Find
  <2>2. \A r \in Broadcasts : phase'[r] = phase[r] \/ (phase[r] = "fanning" /\ phase'[r] = "failed")
    BY <1>3 DEF Subscribe, Find
  <2> QED BY <2>1, <2>2 DEF NoSending
<1>4. ASSUME NEW q \in Requests, Fail(q)
      PROVE  NoSending
  <2>1. UNCHANGED <<received, sending, status>>
    BY <1>4 DEF Fail
  <2>2. \A r \in Broadcasts : phase'[r] = phase[r] \/ (phase[r] = "fanning" /\ phase'[r] = "failed")
    BY <1>4 DEF Fail
  <2> QED BY <2>1, <2>2 DEF NoSending
<1>5. ASSUME Rest \/ UNCHANGED vars PROVE NoSending
  <2>1. UNCHANGED <<received, sending, status>>
    BY <1>5 DEF Rest, vars
  <2>2. \A r \in Broadcasts : phase'[r] = phase[r] \/ (phase[r] = "fanning" /\ phase'[r] = "failed")
    BY <1>5 DEF Rest, vars
  <2> QED BY <2>1, <2>2 DEF NoSending
<1> HIDE DEF TypeOK, Stages
<1> QED BY <1>1, <1>2, <1>3, <1>4, <1>5 DEF Next

\* A broadcast reaches a chat once.
LEMMA SendsStep ==
  ASSUME TypeOK, Stages, OneRow, SendsApart, NoChatTwice, [Next]_vars
  PROVE  SendsApart' /\ NoChatTwice'
<1> USE TelegramBotAssumption DEF SendsApart, NoChatTwice, Requests, Go
<1>1. ASSUME NEW r \in Broadcasts, Start(r) PROVE SendsApart' /\ NoChatTwice'
  <2>1. PICK b \in bots :
          /\ phase[r] = "waiting" /\ phase' = [phase EXCEPT ![r] = "fanning"]
          /\ audience' = [audience EXCEPT ![r] = Audience(b)]
          /\ todo' = [todo EXCEPT ![r] = Audience(b)]
          /\ UNCHANGED <<received, delivered, lost>>
    BY <1>1 DEF Start, LiveBots, telegram
  <2>2. \A u, v \in Audience(b) : ChatOf[u] = ChatOf[v] => u = v
    BY DEF Audience, OneRow, TypeOK
  <2>3. \A u \in Audience(b) : received[r][ChatOf[u]] = 0
    BY <2>1 DEF Audience
  <2> QED BY <2>1, <2>2, <2>3 DEF TypeOK
<1>2. ASSUME NEW r \in Broadcasts, NEW u \in Updates, SendTo(r, u) PROVE SendsApart' /\ NoChatTwice'
  <2>1. PICK effect \in BOOLEAN :
          /\ phase[r] = "fanning" /\ u \in todo[r] /\ todo' = [todo EXCEPT ![r] = @ \ {u}]
          /\ received' = IF effect THEN [received EXCEPT ![r][ChatOf[u]] = @ + 1] ELSE received
          /\ UNCHANGED <<phase, audience>>
    BY <1>2 DEF SendTo
  <2>2. /\ ChatOf[u] \in Chats /\ received[r][ChatOf[u]] = 0
        /\ \A v \in todo[r] \ {u} : ChatOf[v] # ChatOf[u]
    BY <2>1 DEF TypeOK
  <2>3. \A q \in Broadcasts, c \in Chats :
          received'[q][c] = IF effect /\ q = r /\ c = ChatOf[u] THEN 1 ELSE received[q][c]
    BY <2>1, <2>2 DEF TypeOK
  <2>4. \A q \in Broadcasts : q # r => todo'[q] = todo[q] /\ (q \in lost' <=> q \in lost) /\ delivered'[q] = delivered[q]
    BY <1>2 DEF SendTo, TypeOK
  <2>5. NoChatTwice'
    BY <2>3
  <2>6. todo'[r] = todo[r] \ {u}
    BY <2>1 DEF TypeOK
  <2>7. ASSUME NEW q \in Broadcasts, NEW v \in todo'[q] PROVE received'[q][ChatOf[v]] = 0
    <3>1. v \in todo[q] /\ ChatOf[v] \in Chats /\ received[q][ChatOf[v]] = 0
      BY <2>4, <2>6, <2>7 DEF TypeOK
    <3> QED BY <2>2, <2>3, <2>6, <2>7, <3>1
  <2>8. ASSUME NEW q \in Broadcasts, phase'[q] = "waiting"
        PROVE  q \notin lost' /\ delivered'[q] = 0 /\ \A c \in Chats : received'[q][c] = 0
    BY <2>1, <2>3, <2>4, <2>8
  <2>9. \A q \in Broadcasts : todo'[q] \subseteq audience'[q]
    BY <2>1, <2>4, <2>6
  <2> QED BY <2>1, <2>5, <2>7, <2>8, <2>9
<1>3. ASSUME NEW r \in Broadcasts, Record(r) PROVE SendsApart' /\ NoChatTwice'
  BY <1>3 DEF Record, TypeOK, telegram, sending
<1> QED BY <1>1, <1>2, <1>3, Sendings DEF NoSending, sending

\* What a broadcast counts are chats that it has reached.
LEMMA CountsStep ==
  ASSUME TypeOK, Stages, SendsApart, CountsConfirmed, [Next]_vars
  PROVE  CountsConfirmed'
<1> USE TelegramBotAssumption DEF CountsConfirmed
<1>1. ASSUME UNCHANGED <<received, delivered, lost>> PROVE CountsConfirmed'
  BY <1>1 DEF Heard
<1>2. ASSUME NEW r \in Broadcasts, NEW u \in Updates, SendTo(r, u) PROVE CountsConfirmed'
  <2>1. PICK ok \in BOOLEAN, effect \in BOOLEAN :
          /\ phase[r] = "fanning" /\ u \in todo[r] /\ (ok => effect)
          /\ received' = IF effect THEN [received EXCEPT ![r][ChatOf[u]] = @ + 1] ELSE received
          /\ delivered' = IF ok THEN [delivered EXCEPT ![r] = @ + 1] ELSE delivered
          /\ lost' = IF effect /\ ~ok THEN lost \cup {r} ELSE lost
    BY <1>2 DEF SendTo, Counted
  <2>2. ChatOf[u] \in Chats /\ received[r][ChatOf[u]] = 0
    BY <2>1 DEF TypeOK, SendsApart
  <2>3. Heard(r)' = (IF effect THEN Heard(r) \cup {ChatOf[u]} ELSE Heard(r)) /\ ChatOf[u] \notin Heard(r)
    BY <2>1, <2>2 DEF Heard, TypeOK
  <2>4. \A q \in Broadcasts : q # r =>
          Heard(q)' = Heard(q) /\ delivered'[q] = delivered[q] /\ (q \in lost' <=> q \in lost)
    BY <2>1 DEF Heard, TypeOK
  <2>5. /\ IsFiniteSet(Heard(r)')
        /\ Cardinality(Heard(r)') = IF effect THEN Cardinality(Heard(r)) + 1 ELSE Cardinality(Heard(r))
        /\ Cardinality(Heard(r)) \in Nat
    BY <2>3, FS_AddElement, FS_CardinalityType
  <2>6. delivered[r] \in Nat /\ delivered'[r] = IF ok THEN delivered[r] + 1 ELSE delivered[r]
    BY <2>1 DEF TypeOK
  <2>7. /\ delivered'[r] <= Cardinality(Heard(r)')
        /\ r \notin lost' => delivered'[r] = Cardinality(Heard(r)')
    BY <2>1, <2>5, <2>6
  <2>8. ASSUME NEW q \in Broadcasts, q # r
        PROVE  /\ IsFiniteSet(Heard(q)')
               /\ delivered'[q] <= Cardinality(Heard(q)')
               /\ q \notin lost' => delivered'[q] = Cardinality(Heard(q)')
    BY <2>4, <2>8
  <2>9. ASSUME NEW q \in Broadcasts
        PROVE  /\ IsFiniteSet(Heard(q)')
               /\ delivered'[q] <= Cardinality(Heard(q)')
               /\ q \notin lost' => delivered'[q] = Cardinality(Heard(q)')
    BY <2>5, <2>7, <2>8
  <2> QED BY <2>9
<1>3. \/ \E r \in Broadcasts, u \in Updates : SendTo(r, u)
      \/ UNCHANGED <<received, delivered, lost>>
  BY Sendings DEF NoSending, sending, Start, Record, telegram
<1> QED BY <1>1, <1>2, <1>3

\* The row of a broadcast is written once, at the end.
LEMMA RecordedStep ==
  ASSUME TypeOK, Stages, Recorded, [Next]_vars
  PROVE  Recorded'
<1> USE TelegramBotAssumption DEF Recorded, Outcome, TypeOK, Requests, Go
<1>1. ASSUME NEW r \in Broadcasts, Start(r) PROVE Recorded'
  BY <1>1 DEF Start, table
<1>2. ASSUME NEW r \in Broadcasts, NEW u \in Updates, SendTo(r, u) PROVE Recorded'
  BY <1>2 DEF SendTo, table
<1>3. ASSUME NEW r \in Broadcasts, Record(r) PROVE Recorded'
  BY <1>3 DEF Record, sending
<1> QED BY <1>1, <1>2, <1>3, Sendings DEF NoSending, sending

LEMMA TidyKept ==
  ASSUME NEW t, Tidy(t), UNCHANGED <<bots, deleted, webhook, webhookOk>>,
         \A r \in Connects \cup Disconnects : phase'[r] = phase[r] /\ bot'[r] = bot[r]
  PROVE  Tidy(t)'
<1>1. Working(t)' = Working(t) /\ Working(t) \subseteq Connects \cup Disconnects
  BY DEF Working, TokenOf
<1>2. LiveOf(t)' = LiveOf(t)
  BY DEF LiveOf
<1>3. Clearing(t)' = Clearing(t)
  BY DEF Clearing
<1> QED BY <1>1, <1>2, <1>3 DEF Tidy

\* A token stays tidy while nothing disturbs it.
LEMMA TidyStep ==
  ASSUME TypeOK, Stages, [Next]_vars, NEW t \in Tokens \ disturbed', t \notin disturbed => Tidy(t)
  PROVE  Tidy(t)'
<1> USE TelegramBotAssumption DEF Requests, Ended, telegram, table, Go, TypeOK, Stages, Tidy, Working, TokenOf, LiveOf, Clearing
<1>1. ASSUME NEW c \in Connects, Check(c) PROVE Tidy(t)'
  BY <1>1 DEF Check, Shared
<1>2. ASSUME NEW c \in Connects, Reject(c) PROVE Tidy(t)'
  BY <1>2 DEF Reject
<1>3. ASSUME NEW c \in Connects, Point(c) PROVE Tidy(t)'
  BY <1>3 DEF Point, Pointed
<1>4. ASSUME NEW c \in Connects, Enroll(c) PROVE Tidy(t)'
  BY <1>4 DEF Enroll
<1>5. ASSUME NEW r \in Disconnects, Load(r) PROVE Tidy(t)'
  BY <1>5 DEF Load, LiveBots, Touch
<1>6. ASSUME NEW r \in Disconnects, ClearWebhook(r) PROVE Tidy(t)'
  BY <1>6 DEF ClearWebhook
<1>7. ASSUME NEW r \in Disconnects, Delete(r) PROVE Tidy(t)'
  BY <1>7 DEF Delete
<1>8. ASSUME NEW u \in Updates, Subscribe(u) PROVE Tidy(t)'
  <2>1. UNCHANGED <<bots, deleted, webhook, webhookOk, disturbed>>
    BY <1>8 DEF Subscribe
  <2>2. \A o \in Connects \cup Disconnects : phase'[o] = phase[o] /\ bot'[o] = bot[o]
    BY <1>8 DEF Subscribe
  <2> HIDE DEF Tidy, TypeOK, Stages
  <2> QED BY <2>1, <2>2, TidyKept
<1>9. ASSUME NEW u \in Updates, NEW q \in Tokens, Find(u, q) PROVE Tidy(t)'
  <2>1. UNCHANGED <<bots, deleted, webhook, webhookOk, disturbed>>
    BY <1>9 DEF Find
  <2>2. \A o \in Connects \cup Disconnects : phase'[o] = phase[o] /\ bot'[o] = bot[o]
    BY <1>9 DEF Find
  <2> HIDE DEF Tidy, TypeOK, Stages
  <2> QED BY <2>1, <2>2, TidyKept
<1>10. ASSUME NEW r \in Broadcasts, Start(r) PROVE Tidy(t)'
  <2>1. UNCHANGED <<bots, deleted, webhook, webhookOk, disturbed>>
    BY <1>10 DEF Start
  <2>2. \A o \in Connects \cup Disconnects : phase'[o] = phase[o] /\ bot'[o] = bot[o]
    BY <1>10 DEF Start
  <2> HIDE DEF Tidy, TypeOK, Stages
  <2> QED BY <2>1, <2>2, TidyKept
<1>11. ASSUME NEW r \in Broadcasts, NEW u \in Updates, SendTo(r, u) PROVE Tidy(t)'
  <2>1. UNCHANGED <<bots, deleted, webhook, webhookOk, disturbed>>
    BY <1>11 DEF SendTo
  <2>2. \A o \in Connects \cup Disconnects : phase'[o] = phase[o] /\ bot'[o] = bot[o]
    BY <1>11 DEF SendTo
  <2> HIDE DEF Tidy, TypeOK, Stages
  <2> QED BY <2>1, <2>2, TidyKept
<1>12. ASSUME NEW r \in Broadcasts, Record(r) PROVE Tidy(t)'
  <2>1. UNCHANGED <<bots, deleted, webhook, webhookOk, disturbed>>
    BY <1>12 DEF Record
  <2>2. \A o \in Connects \cup Disconnects : phase'[o] = phase[o] /\ bot'[o] = bot[o]
    BY <1>12 DEF Record
  <2> HIDE DEF Tidy, TypeOK, Stages
  <2> QED BY <2>1, <2>2, TidyKept
<1>13. ASSUME NEW r \in Requests, Fail(r) PROVE Tidy(t)'
  BY <1>13 DEF Fail
<1>14. CASE Rest \/ UNCHANGED vars
  BY <1>14 DEF Rest, vars
<1> HIDE DEF Tidy, TypeOK, Stages
<1> QED BY <1>1, <1>2, <1>3, <1>4, <1>5, <1>6, <1>7, <1>8, <1>9, <1>10, <1>11, <1>12, <1>13, <1>14 DEF Next

-----------------------------------------------------------------------------

THEOREM InvTheorem == Spec => []Inv
<1>1. Inv /\ [Next]_vars => Inv'
  BY TypeStep, OneRowStep, SendsStep, CountsStep, RecordedStep, TidyStep DEF Inv
<1> QED BY <1>1, InitInv, PTL DEF Spec

\* Every variable keeps its shape.
THEOREM TypeCorrect == Spec => []TypeOK
<1>1. Inv => TypeOK
  BY DEF Inv
<1> QED BY <1>1, InvTheorem, PTL

\* A live bot hears its subscribers while its token is left in peace
\* (telegram_service.connect and disconnect).
THEOREM HearsTheorem == Spec => []BotHears
<1>1. ASSUME Inv PROVE BotHears
  <2> SUFFICES ASSUME NEW c \in bots \ deleted, webhookOk[c], Token[c] \notin disturbed,
                      Working(Token[c]) = {}
               PROVE  webhook[Token[c]] = c
    BY DEF BotHears
  <2>1. Token[c] \in Tokens /\ c \in LiveOf(Token[c])
    BY <1>1 DEF Inv, TypeOK, Tokens, LiveOf
  <2>2. Clearing(Token[c]) = {}
    BY TelegramBotAssumption DEF Clearing, Working, TokenOf
  <2> QED BY <1>1, <2>1, <2>2 DEF Inv, Tidy
<1> QED BY <1>1, InvTheorem, PTL

\* A chat receives a broadcast once, however often its updates were delivered
\* (the index uq_bot_subscribers_bot_chat_live).
THEOREM ChatTheorem == Spec => []NoChatTwice
<1>1. Inv => NoChatTwice
  BY DEF Inv
<1> QED BY <1>1, InvTheorem, PTL

\* The row of a broadcast counts what Telegram confirmed (telegram_service._fan_out).
THEOREM LedgerTheorem == Spec => []LedgerTellsTheTruth
<1>1. Inv => LedgerTellsTheTruth
  BY DEF Inv, CountsConfirmed, Recorded, Outcome, LedgerTellsTheTruth
<1> QED BY <1>1, InvTheorem, PTL

-----------------------------------------------------------------------------
(* Realtime: a nudge is on its way, or was too early.                      *)

\* Every event a subscription was given is with its socket, with its phone, or
\* was claimed on; a socket that is not open yet was given none.
EventsArrive ==
  /\ \A c \in Sockets, s \in Sends :
       /\ s \in heard[c] \ claimed /\ sock[c] = "open" /\ PhoneOf[c] # NoPhone
       => s \in inbox[c] \cup woken[PhoneOf[c]] \cup early[PhoneOf[c]]
  /\ \A c \in Sockets : sock[c] = "off" => c \notin subs /\ heard[c] = {}

\* A subscription that nobody gives back is one of a relay that has ended.
OrphansEnded == \A c \in orphans : relay[c] = "ended" /\ sock[c] \in {"closing", "closed"}

LiveInv == Live!TypeOK /\ EventsArrive /\ OrphansEnded

LEMMA LiveInit ==
  ASSUME Live!Init
  PROVE  LiveInv
<1> USE DEF Live!Init
<1>1. Live!TypeOK
  BY DEF Live!TypeOK, Live!Publisher, Live!Committed
<1>2. EventsArrive /\ OrphansEnded
  BY DEF EventsArrive, OrphansEnded
<1> QED
  BY <1>1, <1>2 DEF LiveInv

LEMMA LiveStep ==
  ASSUME LiveInv, Live!Next
  PROVE  LiveInv'
<1> USE ChannelsAssumption
    DEF Live!RealtimeAssumption, LiveInv, Live!TypeOK, Live!Publisher, Live!Committed,
        Live!sendVars, Live!sockVars, Live!Set, EventsArrive, OrphansEnded
<1>1. ASSUME NEW s \in Sends, Live!Insert(s) \/ Live!Commit(s) \/ Live!Rollback(s)
      PROVE  LiveInv'
  BY <1>1 DEF Live!Insert, Live!Commit, Live!Rollback
<1>2. ASSUME NEW s \in Sends, Live!Publish(s)
      PROVE  LiveInv'
  BY <1>2 DEF Live!Publish, Live!Queued
<1>3. ASSUME NEW c \in Sockets, Live!ConnectPhone(c) \/ Live!ConnectPage(c)
      PROVE  LiveInv'
  BY <1>3 DEF Live!ConnectPhone, Live!ConnectPage, Live!Open
<1>4. ASSUME NEW c \in Sockets, Live!Subscribe(c)
      PROVE  LiveInv'
  BY <1>4 DEF Live!Subscribe
<1>5. ASSUME NEW c \in Sockets, Live!LoseRedis(c)
      PROVE  LiveInv'
  BY <1>5 DEF Live!LoseRedis
<1>6. ASSUME NEW c \in Sockets, Live!Leave(c) \/ Live!Send(c) \/ Live!Close(c)
      PROVE  LiveInv'
  BY <1>6 DEF Live!Leave, Live!Send, Live!Close
<1>7. ASSUME NEW c \in Sockets, Live!Receive(c)
      PROVE  LiveInv'
  BY <1>7 DEF Live!Receive
<1>8. ASSUME NEW c \in Sockets, Live!Cancel(c)
      PROVE  LiveInv'
  BY <1>8 DEF Live!Cancel
<1>9. ASSUME NEW c \in Sockets, Live!Unsubscribe(c)
      PROVE  LiveInv'
  BY <1>9 DEF Live!Unsubscribe
<1>10. ASSUME NEW p \in Phones, Live!Claim(p)
       PROVE  LiveInv'
  BY <1>10 DEF Live!Claim
<1> QED
  BY <1>1, <1>2, <1>3, <1>4, <1>5, <1>6, <1>7, <1>8, <1>9, <1>10
  DEF Live!Next, Live!OnNudge, Live!OnTimer

\* A message that waits has a nudge on its way to every listening phone, unless
\* the phone claimed on it before the commit (events.py, gateway.py).
THEOREM NudgeTheorem == SpecPart => []NudgedUnlessEarly
<1> DEFINE I == part = "events" => LiveInv
<1>1. InitPart => I
  BY LiveInit DEF InitPart
<1>2. I /\ [NextPart]_<<part, vars, liveVars, feedVars>> => I'
  <2>1. ASSUME LiveInv, UNCHANGED liveVars PROVE LiveInv'
    BY <2>1 DEF liveVars, LiveInv, Live!TypeOK, Live!Committed, EventsArrive, OrphansEnded
  <2> QED
    BY <2>1, LiveStep DEF NextPart
<1>3. I => NudgedUnlessEarly
  BY DEF LiveInv, EventsArrive, NudgedUnlessEarly, Live!NudgedUnlessEarly
<1> QED
  BY <1>1, <1>2, <1>3, PTL DEF SpecPart

-----------------------------------------------------------------------------
(* Notifications: a walk through the pages leaves nothing behind it.       *)

Matched == Feed!Matching(filter)

\* The walk is one whose filter lost rows under it.
Slid == filter = "unread" /\ marked

\* What the walk is to show matches still, and what it has not shown is not on
\* the pages behind it; the count is that of the rows unless one was committed
\* in between.
WalkIsOnTrack ==
  /\ total # Feed!NoTotal => walk # 0
  /\ walk # 0 /\ ~Slid =>
       /\ before \subseteq Matched
       /\ \A n \in before \ shown : Cardinality(Feed!Newer(n, Matched)) >= Feed!Offset(walk)
       /\ total # Feed!NoTotal /\ ~cut => total = Cardinality(Matched)

FeedInv == Feed!TypeOK /\ WalkIsOnTrack /\ Feed!PagingMissesNothing


\* The instance counts as FiniteSets does.
LEMMA FeedCounts ==
  /\ \A S : Feed!Cardinality(S) = Cardinality(S)
  /\ \A S : Feed!IsFiniteSet(S) <=> IsFiniteSet(S)
<1>1. ASSUME NEW S PROVE Feed!Cardinality(S) = Cardinality(S)
  BY DEF Feed!Cardinality, Cardinality
<1>2. ASSUME NEW S PROVE Feed!IsFiniteSet(S) <=> IsFiniteSet(S)
  BY DEF Feed!IsFiniteSet, IsFiniteSet
<1> QED
  BY <1>1, <1>2

LEMMA NoticesAreFew ==
  ASSUME NEW S \in SUBSET Notices, NEW T \in SUBSET S
  PROVE  /\ IsFiniteSet(S) /\ Cardinality(S) \in 0..Cardinality(Notices)
         /\ Cardinality(T) \in 0..Cardinality(S)
         /\ Cardinality(Notices) \in Nat
<1>1. IsFiniteSet(Notices)
  BY ChannelsAssumption, FeedCounts DEF Feed!NotificationsAssumption
<1> QED
  BY <1>1, FS_Subset, FS_CardinalityType

LEMMA FeedNoTotal == Feed!NoTotal = Cardinality(Notices) + 1 /\ Cardinality(Notices) \in Nat
BY FeedCounts, NoticesAreFew DEF Feed!NoTotal

\* A notice on the list has fewer notices before it than the list is long.
LEMMA NewerAreFewer ==
  ASSUME Feed!TypeOK, NEW S \in SUBSET Notices, NEW n \in S
  PROVE  Cardinality(Feed!Newer(n, S)) \in Nat /\ Cardinality(Feed!Newer(n, S)) < Cardinality(S)
<1>1. createdAt[n] \in Nat
  BY FeedNoTotal, FeedCounts DEF Feed!TypeOK
<1>2. Feed!Newer(n, S) \in SUBSET (S \ {n})
  BY <1>1 DEF Feed!Newer
<1>3. IsFiniteSet(S) /\ Cardinality(S) \in Nat
  BY NoticesAreFew
<1>4. IsFiniteSet(S \ {n}) /\ Cardinality(S \ {n}) = Cardinality(S) - 1
  BY <1>3, FS_RemoveElement
<1>5. /\ Cardinality(Feed!Newer(n, S)) \in Nat
      /\ Cardinality(Feed!Newer(n, S)) <= Cardinality(S \ {n})
  BY <1>2, <1>4, FS_Subset, FS_CardinalityType
<1> QED
  BY <1>3, <1>4, <1>5

LEMMA MatchedAreCommitted ==
  Matched \subseteq Feed!Committed /\ Feed!Committed \subseteq Notices
BY DEF Matched, Feed!Matching, Feed!Committed

LEMMA FeedInit ==
  ASSUME Feed!Init
  PROVE  FeedInv
<1> USE DEF Feed!Init
<1>1. Feed!TypeOK
  <2>1. Feed!Committed = {}
    BY DEF Feed!Committed
  <2>2. /\ 0 \in 0..Cardinality(Notices) /\ 0 \in 0..Cardinality(Notices) + 1
        /\ Feed!NoTotal \in 0..Feed!NoTotal
    BY FeedNoTotal
  <2>3. /\ createdAt \in [Notices -> 0..Cardinality(Notices)]
        /\ walk \in 0..Cardinality(Notices) + 1 /\ total \in 0..Feed!NoTotal
    BY <2>2
  <2> QED
    BY <2>1, <2>3, FeedCounts DEF Feed!TypeOK
<1>2. WalkIsOnTrack /\ Feed!PagingMissesNothing
  BY DEF WalkIsOnTrack, Feed!PagingMissesNothing
<1> QED
  BY <1>1, <1>2 DEF FeedInv

\* What happens beside the walk: rows are added, or taken from a walk that knows
\* it, and a count that no longer holds is known not to.
LEMMA BesideTheWalk ==
  ASSUME FeedInv, UNCHANGED <<walk, filter, total, before, shown>>,
         Feed!TypeOK', marked => marked', cut => cut',
         walk # 0 => Slid' \/ Matched \subseteq Matched',
         walk # 0 /\ total # Feed!NoTotal => Slid' \/ cut' \/ Matched' = Matched,
         \A n \in Feed!Committed : createdAt'[n] = createdAt[n]
  PROVE  FeedInv'
<1>1. Slid => Slid'
  BY DEF Slid
<1>2. Feed!PagingMissesNothing'
  BY DEF FeedInv, Feed!PagingMissesNothing
<1>3. ASSUME walk # 0, ~Slid'
      PROVE  /\ before \subseteq Matched'
             /\ \A n \in before \ shown :
                  Cardinality(Feed!Newer(n, Matched)') >= Feed!Offset(walk)
             /\ total # Feed!NoTotal /\ ~cut' => total = Cardinality(Matched')
  <2>1. /\ before \subseteq Matched /\ Matched \subseteq Matched'
        /\ \A n \in before \ shown : Cardinality(Feed!Newer(n, Matched)) >= Feed!Offset(walk)
        /\ total # Feed!NoTotal /\ ~cut => total = Cardinality(Matched)
    BY <1>1, <1>3 DEF FeedInv, WalkIsOnTrack
  <2>2. ASSUME NEW n \in before \ shown
        PROVE  Cardinality(Feed!Newer(n, Matched)') >= Feed!Offset(walk)
    <3>1. Feed!Newer(n, Matched) \subseteq Feed!Newer(n, Matched)'
      BY <2>1, MatchedAreCommitted DEF Feed!Newer
    <3>2. Feed!Newer(n, Matched)' \in SUBSET Notices
      BY DEF Feed!Newer, Matched, Feed!Matching, Feed!Committed
    <3>3. /\ Cardinality(Feed!Newer(n, Matched)) \in Nat
          /\ Cardinality(Feed!Newer(n, Matched)') \in Nat
          /\ Cardinality(Feed!Newer(n, Matched)) <= Cardinality(Feed!Newer(n, Matched)')
      BY <3>1, <3>2, NoticesAreFew
    <3>4. Feed!Offset(walk) \in Int
      BY ChannelsAssumption DEF Feed!Offset, FeedInv, Feed!TypeOK, Feed!NotificationsAssumption
    <3> QED
      BY <2>1, <3>3, <3>4
  <2> QED
    BY <1>3, <2>1, <2>2
<1>4. WalkIsOnTrack'
  BY <1>3 DEF FeedInv, WalkIsOnTrack, Feed!NoTotal, Feed!Offset
<1> QED
  BY <1>2, <1>4 DEF FeedInv

LEMMA NoticeKeeps ==
  ASSUME FeedInv, NEW n \in Notices,
         Feed!Begin(n) \/ Feed!Push(n) \/ Feed!Commit(n) \/ Feed!Rollback(n)
  PROVE  FeedInv'
<1> USE DEF FeedInv
<1>1. /\ UNCHANGED <<read, walk, filter, total, before, shown, marked>>
      /\ stage' \in [Notices -> {"none", "begun", "pushed", "committed", "rolledBack"}]
      /\ stage[n] # "committed" /\ \A m \in Notices : m # n => stage'[m] = stage[m]
      /\ \A m \in Notices : m # n => createdAt'[m] = createdAt[m]
  BY DEF Feed!Begin, Feed!Push, Feed!Commit, Feed!Rollback, Feed!walkVars, Feed!TypeOK
<1>2. createdAt' \in [Notices -> 0..Cardinality(Notices)]
  <2>1. ASSUME Feed!Begin(n)
        PROVE  createdAt'[n] \in 0..Cardinality(Notices)
    <3> DEFINE S == {m \in Notices : stage[m] # "none"}
    <3>1. S \in SUBSET (Notices \ {n})
      BY <2>1 DEF Feed!Begin
    <3>2. IsFiniteSet(Notices) /\ Cardinality(Notices) \in Nat
      BY NoticesAreFew
    <3>3. IsFiniteSet(Notices \ {n}) /\ Cardinality(Notices \ {n}) = Cardinality(Notices) - 1
      BY <3>2, FS_RemoveElement
    <3>4. Cardinality(S) \in Nat /\ Cardinality(S) <= Cardinality(Notices \ {n})
      BY <3>1, <3>3, FS_Subset, FS_CardinalityType
    <3>5. createdAt'[n] = 1 + Cardinality(S)
      BY <2>1, FeedCounts DEF Feed!Begin, Feed!TypeOK
    <3> HIDE DEF S
    <3> QED
      BY <3>2, <3>3, <3>4, <3>5
  <2> QED
    BY <2>1, FeedCounts DEF Feed!Begin, Feed!Push, Feed!Commit, Feed!Rollback, Feed!TypeOK
<1>3. Feed!Committed \subseteq Feed!Committed' /\ n \notin Feed!Committed
  BY <1>1 DEF Feed!Committed
<1>4. Feed!Commit(n) \/ (Feed!Committed' = Feed!Committed /\ cut' = cut)
  BY <1>1 DEF Feed!Begin, Feed!Push, Feed!Rollback, Feed!Committed, Feed!TypeOK, Feed!walkVars
<1>5. cut' \in BOOLEAN /\ (cut => cut')
  BY <1>4 DEF Feed!Commit, Feed!TypeOK
<1>6. Feed!TypeOK'
  BY <1>1, <1>2, <1>3, <1>5, FeedCounts DEF Feed!TypeOK, Feed!NoTotal
<1>7. Matched \subseteq Matched'
  BY <1>1, <1>3 DEF Matched, Feed!Matching
<1>8. total # Feed!NoTotal => cut' \/ Matched' = Matched
  BY <1>1, <1>4 DEF Feed!Commit, Matched, Feed!Matching
<1>9. \A m \in Feed!Committed : createdAt'[m] = createdAt[m]
  BY <1>1, <1>3 DEF Feed!Committed
<1> QED
  BY <1>1, <1>5, <1>6, <1>7, <1>8, <1>9, BesideTheWalk

LEMMA MarkKeeps ==
  ASSUME FeedInv, NEW S \in SUBSET Feed!Committed, Feed!Mark(S)
  PROVE  FeedInv'
<1> USE DEF FeedInv
<1>1. /\ UNCHANGED <<stage, createdAt, walk, filter, total, before, shown, cut>>
      /\ read' = read \cup S
  BY DEF Feed!Mark
<1>2. marked' \in BOOLEAN /\ (marked => marked') /\ (walk # 0 => marked')
  BY DEF Feed!Mark, Feed!TypeOK
<1>3. Feed!Committed' = Feed!Committed
  BY <1>1 DEF Feed!Committed
<1>4. Feed!TypeOK'
  BY <1>1, <1>2, <1>3 DEF Feed!TypeOK, Feed!NoTotal
<1>5. filter = "all" => Matched' = Matched
  BY <1>1, <1>3 DEF Matched, Feed!Matching
<1>6. walk # 0 => Slid' \/ Matched' = Matched
  BY <1>1, <1>2, <1>5 DEF Slid, Feed!TypeOK
<1> QED
  BY <1>1, <1>2, <1>4, <1>6, BesideTheWalk

LEMMA StartKeeps ==
  ASSUME FeedInv, Feed!StartWalk
  PROVE  FeedInv'
<1> USE DEF FeedInv, Feed!StartWalk, Feed!feedVars
<1>1. /\ walk' = 1 /\ shown' = {} /\ total' = total /\ total = Feed!NoTotal
      /\ filter' \in {"all", "unread"} /\ before' = Matched' /\ marked' = FALSE /\ cut' = FALSE
      /\ UNCHANGED <<stage, createdAt, read>>
  BY ChannelsAssumption
  DEF WalkIsOnTrack, Matched, Feed!Matching, Feed!Committed, Feed!NotificationsAssumption
<1>2. Feed!TypeOK'
  <2>1. Feed!Committed' = Feed!Committed /\ Matched' \subseteq Feed!Committed'
    BY <1>1 DEF Feed!Committed, Matched, Feed!Matching
  <2>2. 1 \in 0..Cardinality(Notices) + 1
    BY FeedNoTotal
  <2> QED
    BY <1>1, <2>1, <2>2, FeedCounts DEF Feed!TypeOK, Feed!NoTotal
<1>3. ASSUME NEW n \in Notices
      PROVE  Cardinality(Feed!Newer(n, Matched)') >= Feed!Offset(1)
  <2>1. Feed!Newer(n, Matched)' \in SUBSET Notices
    BY DEF Feed!Newer, Matched, Feed!Matching, Feed!Committed
  <2>2. Cardinality(Feed!Newer(n, Matched)') \in Nat
    BY <2>1, NoticesAreFew
  <2>3. Feed!Offset(1) = 0
    BY ChannelsAssumption DEF Feed!Offset, Feed!NotificationsAssumption
  <2> QED
    BY <2>2, <2>3
<1>4. before' \subseteq Notices
  BY <1>1 DEF Matched, Feed!Matching, Feed!Committed
<1>5. WalkIsOnTrack' /\ Feed!PagingMissesNothing'
  BY <1>1, <1>3, <1>4
  DEF WalkIsOnTrack, Feed!PagingMissesNothing, Feed!NoTotal, Feed!Offset
<1> QED
  BY <1>2, <1>5

LEMMA CountKeeps ==
  ASSUME FeedInv, Feed!Count
  PROVE  FeedInv'
<1> USE DEF FeedInv, Feed!Count, Feed!feedVars
<1>1. /\ UNCHANGED <<stage, createdAt, read, walk, filter, before, shown, marked>>
      /\ total' = Cardinality(Matched) /\ cut' = FALSE /\ walk # 0
      /\ Matched' = Matched /\ Feed!Committed' = Feed!Committed
  BY FeedCounts DEF Matched, Feed!Matching, Feed!Committed
<1>2. total' \in 0..Feed!NoTotal
  <2>1. Matched \in SUBSET Notices
    BY MatchedAreCommitted
  <2> QED
    BY <1>1, <2>1, NoticesAreFew, FeedNoTotal
<1>3. Feed!TypeOK'
  BY <1>1, <1>2 DEF Feed!TypeOK, Feed!NoTotal
<1>4. WalkIsOnTrack' /\ Feed!PagingMissesNothing'
  BY <1>1
  DEF WalkIsOnTrack, Feed!PagingMissesNothing, Feed!NoTotal, Feed!Offset, Feed!Newer, Slid
<1> QED
  BY <1>3, <1>4

\* What is on the page is shown, what is not is on a later one, and after the
\* last one there is none.
LEMMA FetchKeeps ==
  ASSUME FeedInv, Feed!Fetch
  PROVE  FeedInv'
<1> USE DEF FeedInv
<1> DEFINE rank(n) == Cardinality(Feed!Newer(n, Matched))
           page == Feed!Rows(walk, Matched)
<1>1. /\ UNCHANGED <<stage, createdAt, read, filter, before, marked, cut>>
      /\ total' = Feed!NoTotal /\ total # Feed!NoTotal /\ walk # 0
      /\ shown' = shown \cup page
      /\ Matched' = Matched /\ Feed!Committed' = Feed!Committed
  BY DEF Feed!Fetch, Feed!feedVars, Matched, Feed!Matching, Feed!Committed
<1>2. walk' = IF walk * PageSize < total THEN walk + 1 ELSE 0
  BY DEF Feed!Fetch
<1>3. /\ PageSize \in Nat \ {0} /\ walk \in Nat /\ total \in 0..Cardinality(Notices)
      /\ walk <= walk * PageSize /\ walk * PageSize \in Nat
      /\ Feed!Offset(walk) + PageSize = walk * PageSize
      /\ Feed!Offset(walk + 1) = walk * PageSize
      /\ Feed!Offset(walk) \in Nat
  <2>1. PageSize \in Nat \ {0} /\ walk \in Nat /\ total \in 0..Cardinality(Notices)
    BY <1>1, ChannelsAssumption, FeedNoTotal, FeedCounts
    DEF Feed!NotificationsAssumption, Feed!TypeOK
  <2>2. PICK k \in Nat : walk = k + 1
    BY <1>1, <2>1
  <2>3. k * PageSize \in Nat /\ walk * PageSize = k * PageSize + PageSize
    BY <2>1, <2>2
  <2>4. k <= k * PageSize
    BY <2>1, <2>2
  <2>5. Feed!Offset(walk) = k * PageSize
    BY <2>2 DEF Feed!Offset
  <2>6. Feed!Offset(walk + 1) = walk * PageSize
    BY <2>1 DEF Feed!Offset
  <2> QED
    BY <2>1, <2>2, <2>3, <2>4, <2>5, <2>6
<1>4. Feed!TypeOK'
  <2>1. page \subseteq Feed!Committed'
    BY <1>1, MatchedAreCommitted DEF Feed!Rows
  <2>2. walk' \in 0..Cardinality(Notices) + 1
    BY <1>2, <1>3, FeedNoTotal
  <2>3. Feed!NoTotal \in 0..Feed!NoTotal
    BY FeedNoTotal
  <2> QED
    BY <1>1, <2>1, <2>2, <2>3, FeedCounts DEF Feed!TypeOK, Feed!NoTotal
<1>5. ASSUME ~Slid
      PROVE  /\ before \subseteq Matched
             /\ \A n \in before \ shown' : rank(n) >= walk * PageSize
             /\ ~cut => total = Cardinality(Matched)
  <2>1. /\ before \subseteq Matched
        /\ \A n \in before \ shown : rank(n) >= Feed!Offset(walk)
        /\ ~cut => total = Cardinality(Matched)
    BY <1>1, <1>5 DEF WalkIsOnTrack
  <2>2. ASSUME NEW n \in before \ shown'
        PROVE  rank(n) >= walk * PageSize
    <3>1. n \in Matched /\ n \notin page /\ rank(n) >= Feed!Offset(walk)
      BY <1>1, <2>1
    <3>2. rank(n) \in Nat
      BY <3>1, MatchedAreCommitted, NewerAreFewer
    <3>3. rank(n) \notin Feed!Offset(walk) .. Feed!Offset(walk) + PageSize - 1
      BY <3>1, FeedCounts DEF Feed!Rows
    <3> QED
      BY <1>3, <3>1, <3>2, <3>3
  <2> QED
    BY <2>1, <2>2
<1>6. Slid' = Slid
  BY <1>1 DEF Slid
<1>7. Feed!PagingMissesNothing'
  <2> SUFFICES ASSUME walk' = 0, ~cut, ~Slid PROVE before \subseteq shown'
    BY <1>1 DEF Feed!PagingMissesNothing, Slid
  <2>1. walk * PageSize >= Cardinality(Matched)
    BY <1>2, <1>3, <1>5
  <2>2. ASSUME NEW n \in before \ shown' PROVE FALSE
    <3>1. n \in Matched /\ rank(n) >= walk * PageSize
      BY <1>5, <2>2
    <3>2. rank(n) \in Nat /\ rank(n) < Cardinality(Matched)
      BY <3>1, MatchedAreCommitted, NewerAreFewer
    <3>3. Cardinality(Matched) \in Nat
      BY MatchedAreCommitted, NoticesAreFew
    <3> QED
      BY <1>3, <2>1, <3>1, <3>2, <3>3
  <2> QED
    BY <2>2
<1>8. WalkIsOnTrack'
  <2>1. Feed!NoTotal' = Feed!NoTotal
    BY DEF Feed!NoTotal
  <2>2. \A n : Feed!Newer(n, Matched)' = Feed!Newer(n, Matched)
    BY <1>1 DEF Feed!Newer
  <2>3. walk' # 0 => walk' = walk + 1
    BY <1>2
  <2>4. walk' # 0 /\ ~Slid =>
          /\ before \subseteq Matched
          /\ \A n \in before \ shown' : rank(n) >= Feed!Offset(walk')
    BY <1>3, <1>5, <2>3
  <2> QED
    BY <1>1, <1>6, <2>1, <2>2, <2>4 DEF WalkIsOnTrack, Feed!Offset
<1> QED
  BY <1>4, <1>7, <1>8

LEMMA FeedStep ==
  ASSUME FeedInv, Feed!Next
  PROVE  FeedInv'
<1>1. ASSUME NEW n \in Notices, Feed!MarkRead(n)
      PROVE  FeedInv'
  BY <1>1, MarkKeeps DEF Feed!MarkRead
<1>2. ASSUME Feed!MarkAllRead
      PROVE  FeedInv'
  BY <1>2, MarkKeeps DEF Feed!MarkAllRead
<1> QED
  BY <1>1, <1>2, NoticeKeeps, StartKeeps, CountKeeps, FetchKeeps DEF Feed!Next

\* Paging to the end shows all that was there at the start, unless rows were
\* taken from under the walk, or one came between its last count and its last
\* rows (notification_repo.py).
THEOREM PagingTheorem == SpecPart => []PagingMissesNothing
<1> DEFINE I == part = "feed" => FeedInv
<1>1. InitPart => I
  BY FeedInit DEF InitPart
<1>2. I /\ [NextPart]_<<part, vars, liveVars, feedVars>> => I'
  <2>1. ASSUME FeedInv, UNCHANGED feedVars PROVE FeedInv'
    BY <2>1
    DEF feedVars, FeedInv, Feed!TypeOK, Feed!Committed, Feed!NoTotal, WalkIsOnTrack, Slid,
        Matched, Feed!Matching, Feed!Newer, Feed!Offset, Feed!PagingMissesNothing
  <2> QED
    BY <2>1, FeedStep DEF NextPart
<1>3. I => PagingMissesNothing
  BY DEF FeedInv, PagingMissesNothing
<1> QED
  BY <1>1, <1>2, <1>3, PTL DEF SpecPart
=============================================================================
