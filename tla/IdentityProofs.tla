--------------------------- MODULE IdentityProofs ---------------------------
(***************************************************************************)
(* Who has an account, who is served and where a sign-in ends, for every   *)
(* set of requests, accounts, keys, flows and codes.                       *)
(*                                                                         *)
(* Accounts: the unique indexes speak of committed rows only, so each      *)
(* invariant is strengthened with what running requests hold: a row that is *)
(* inserted excludes the others of its mail before it is committed, and a  *)
(* link that is inserted excludes the others of its identity.              *)
(* Access: what a request found valid when it began may be revoked while   *)
(* it runs, but no write of another request undoes a revocation.           *)
(* Sign-in: a state leaves Redis with the first callback that takes it.    *)
(***************************************************************************)
EXTENDS Identity, TLAPS

-----------------------------------------------------------------------------
(* Accounts keep their mail and their identity.                            *)

\* What running requests hold: an account that is written is done with; a
\* sign-in works for no account, for one that is written, or for its own.
Held ==
  /\ \A a \in written : phase[a] = "done"
  /\ \A s \in SignIns :
       /\ phase[s] = "waiting" => account[s] = NoAccount
       /\ phase[s] = "matched" => account[s] \in written \cup {NoAccount}
       /\ phase[s] = "inserted" => account[s] = s
       /\ phase[s] = "linked" => account[s] \in written \cup {s}

Holds(r) == r \in written \/ Created(r)

\* The unique index on the mail, running inserts included.
Exclusive ==
  \A r, q \in Creators : MailOf[r] = MailOf[q] /\ Holds(r) /\ Holds(q) => r = q

Attached(s) == phase[s] = "linked" \/ linked[s] # NoAccount

\* The unique index on the identity, running inserts included; whoever has
\* signed in has done so with the account of the identity's link.
Bound ==
  /\ \A s \in SignIns : linked[s] # NoAccount => phase[s] = "done" /\ account[s] = linked[s]
  /\ \A s, q \in SignIns :
       SubjectOf[s] = SubjectOf[q] /\ Attached(s) /\ Attached(q) => s = q
  /\ \A s \in SignIns : phase[s] = "done" =>
       \E q \in SignIns : /\ SubjectOf[q] = SubjectOf[s]
                          /\ linked[q] # NoAccount /\ linked[q] = account[s]

\* Passwords, and links that would set one, are of registered accounts; the others
\* are verified, but for an administrator.
Registered ==
  /\ passworded \subseteq Registrations
  /\ \A l \in Links : link[l] \in Letter /\ link[l].kind = "reset" => link[l].account \in Registrations
  /\ \A k \in Clicks : /\ phase[k] = "holding" => taken[k] \in Letter
                       /\ taken[k] \in Letter /\ taken[k].kind = "reset" =>
                            taken[k].account \in Registrations
  /\ \A s \in SignIns : s \in written => s \in verified \cup unverified

Inv == TypeOK /\ Held /\ Exclusive /\ Bound /\ Registered

-----------------------------------------------------------------------------

LEMMA InitInv == Init => Inv
<1> SUFFICES ASSUME Init PROVE Inv
  OBVIOUS
<1> USE AccountsAssumption DEF Init, Requests, Creators
<1>1. TypeOK
  BY DEF TypeOK, Phases
<1>2. Held /\ Exclusive
  BY DEF Held, Exclusive, Holds, Created
<1>3. Bound
  BY DEF Bound, Attached
<1>4. Registered
  BY DEF Registered, Letter, Kinds
<1> QED BY <1>1, <1>2, <1>3, <1>4 DEF Inv

\* Every step keeps the shape of the variables.
LEMMA TypeStep ==
  ASSUME TypeOK, Held, [Next]_vars
  PROVE  TypeOK'
<1> USE AccountsAssumption DEF TypeOK, Requests, Creators, Phases, Go, table, Live, Ended
<1>1. ASSUME NEW r \in Registrations, Check(r) PROVE TypeOK'
  BY <1>1 DEF Check, Refuse
<1>2. ASSUME NEW r \in Registrations, Welcome(r) PROVE TypeOK'
  BY <1>2 DEF Welcome, Send, Letter, Kinds
<1>3. ASSUME NEW r \in Registrations, CommitRegistration(r) PROVE TypeOK'
  BY <1>3 DEF CommitRegistration
<1>4. ASSUME NEW r \in Creators, InsertUser(r) PROVE TypeOK'
  BY <1>4 DEF InsertUser
<1>5. ASSUME NEW s \in SignIns, Recognise(s) PROVE TypeOK'
  BY <1>5 DEF Recognise, Refuse, Owners, Same
<1>6. ASSUME NEW s \in SignIns, Miss(s) \/ Attach(s) PROVE TypeOK'
  BY <1>6 DEF Miss, Attach
<1>7. ASSUME NEW s \in SignIns, Join(s) PROVE TypeOK'
  BY <1>7 DEF Join, LiveWith
<1>8. ASSUME NEW s \in SignIns, CommitSignIn(s) PROVE TypeOK'
  BY <1>8 DEF CommitSignIn, Held
<1>9. ASSUME NEW l \in Links, NEW a \in Creators, SendVerification(l, a) \/ SendReset(l, a)
      PROVE TypeOK'
  BY <1>9 DEF SendVerification, SendReset, Send, Letter, Kinds
<1>10. ASSUME NEW k \in Clicks, Redeem(k) PROVE TypeOK'
  BY <1>10 DEF Redeem, Found, Refuse
<1>11. ASSUME NEW k \in Clicks, NEW l \in Links, Take(k, l) PROVE TypeOK'
  BY <1>11 DEF Take
<1>12. ASSUME NEW l \in Links, Expire(l) PROVE TypeOK'
  BY <1>12 DEF Expire
<1>13. ASSUME NEW r \in Requests, Rollback(r) PROVE TypeOK'
  BY <1>13 DEF Rollback
<1>14. ASSUME NEW a \in Closable, CloseAccount(a) \/ ReopenAccount(a) PROVE TypeOK'
  BY <1>14 DEF CloseAccount, ReopenAccount
<1>16. ASSUME NEW a \in Creators, SwitchVerified(a) PROVE TypeOK'
  BY <1>16 DEF SwitchVerified
<1>15. CASE Rest \/ UNCHANGED vars
  BY <1>15 DEF Rest, vars
<1> QED BY <1>1, <1>2, <1>3, <1>4, <1>5, <1>6, <1>7, <1>8, <1>9, <1>10, <1>11, <1>12,
             <1>13, <1>14, <1>15, <1>16 DEF Next

\* What requests hold, step by step.
LEMMA HeldStep ==
  ASSUME TypeOK, Held, [Next]_vars
  PROVE  Held'
<1> USE AccountsAssumption DEF TypeOK, Held, Requests, Creators, Go, table, Live, Ended
<1>1. ASSUME NEW r \in Registrations, Check(r) PROVE Held'
  BY <1>1 DEF Check, Refuse, LiveWith
<1>2. ASSUME NEW r \in Registrations, Welcome(r) PROVE Held'
  BY <1>2 DEF Welcome
<1>3. ASSUME NEW r \in Registrations, CommitRegistration(r) PROVE Held'
  BY <1>3 DEF CommitRegistration
<1>4. ASSUME NEW r \in Creators, InsertUser(r) PROVE Held'
  BY <1>4 DEF InsertUser, Creating
<1>5. ASSUME NEW s \in SignIns, Recognise(s) PROVE Held'
  BY <1>5 DEF Recognise, Refuse, Owners, Same
<1>6. ASSUME NEW s \in SignIns, Miss(s) PROVE Held'
  BY <1>6 DEF Miss
<1>7. ASSUME NEW s \in SignIns, Attach(s) PROVE Held'
  BY <1>7 DEF Attach
<1>8. ASSUME NEW s \in SignIns, Join(s) PROVE Held'
  BY <1>8 DEF Join, LiveWith
<1>9. ASSUME NEW s \in SignIns, CommitSignIn(s) PROVE Held'
  BY <1>9 DEF CommitSignIn
<1>10. ASSUME NEW l \in Links, NEW a \in Creators, SendVerification(l, a) \/ SendReset(l, a) PROVE Held'
  BY <1>10 DEF SendVerification, SendReset, Send
<1>11. ASSUME NEW k \in Clicks, Redeem(k) PROVE Held'
  BY <1>11 DEF Redeem, Refuse
<1>12. ASSUME NEW k \in Clicks, NEW l \in Links, Take(k, l) PROVE Held'
  BY <1>12 DEF Take
<1>13. ASSUME NEW l \in Links, Expire(l) PROVE Held'
  BY <1>13 DEF Expire
<1>14. ASSUME NEW r \in Requests, Rollback(r) PROVE Held'
  BY <1>14 DEF Rollback
<1>15. ASSUME NEW a \in Closable, CloseAccount(a) \/ ReopenAccount(a) PROVE Held'
  BY <1>15 DEF CloseAccount, ReopenAccount
<1>17. ASSUME NEW a \in Creators, SwitchVerified(a) PROVE Held'
  BY <1>17 DEF SwitchVerified
<1>16. CASE Rest \/ UNCHANGED vars
  BY <1>16 DEF Rest, vars
<1> QED BY <1>1, <1>2, <1>3, <1>4, <1>5, <1>6, <1>7, <1>8, <1>9, <1>10, <1>11, <1>12, <1>13, <1>14, <1>15, <1>16,
             <1>17 DEF Next

\* Who holds a mail excludes the others.
LEMMA ExclusiveStep ==
  ASSUME TypeOK, Held, Exclusive, [Next]_vars
  PROVE  Exclusive'
<1> USE AccountsAssumption DEF TypeOK, Held, Exclusive, Requests, Creators, Go, table, Live, Ended, Holds, Created
<1>1. ASSUME NEW r \in Registrations, Check(r) PROVE Exclusive'
  BY <1>1 DEF Check, Refuse
<1>2. ASSUME NEW r \in Registrations, Welcome(r) PROVE Exclusive'
  BY <1>2 DEF Welcome
<1>3. ASSUME NEW r \in Registrations, CommitRegistration(r) PROVE Exclusive'
  BY <1>3 DEF CommitRegistration
<1>4. ASSUME NEW r \in Creators, InsertUser(r) PROVE Exclusive'
  BY <1>4 DEF InsertUser, Creating, MailFree, MailBusy
<1>5. ASSUME NEW s \in SignIns, Recognise(s) PROVE Exclusive'
  BY <1>5 DEF Recognise, Refuse
<1>6. ASSUME NEW s \in SignIns, Miss(s) PROVE Exclusive'
  BY <1>6 DEF Miss
<1>7. ASSUME NEW s \in SignIns, Attach(s) PROVE Exclusive'
  BY <1>7 DEF Attach
<1>8. ASSUME NEW s \in SignIns, Join(s) PROVE Exclusive'
  BY <1>8 DEF Join
<1>9. ASSUME NEW s \in SignIns, CommitSignIn(s) PROVE Exclusive'
  BY <1>9 DEF CommitSignIn
<1>10. ASSUME NEW l \in Links, NEW a \in Creators, SendVerification(l, a) \/ SendReset(l, a) PROVE Exclusive'
  BY <1>10 DEF SendVerification, SendReset, Send
<1>11. ASSUME NEW k \in Clicks, Redeem(k) PROVE Exclusive'
  BY <1>11 DEF Redeem, Refuse
<1>12. ASSUME NEW k \in Clicks, NEW l \in Links, Take(k, l) PROVE Exclusive'
  BY <1>12 DEF Take
<1>13. ASSUME NEW l \in Links, Expire(l) PROVE Exclusive'
  BY <1>13 DEF Expire
<1>14. ASSUME NEW r \in Requests, Rollback(r) PROVE Exclusive'
  BY <1>14 DEF Rollback
<1>15. ASSUME NEW a \in Closable, CloseAccount(a) \/ ReopenAccount(a) PROVE Exclusive'
  BY <1>15 DEF CloseAccount, ReopenAccount
<1>17. ASSUME NEW a \in Creators, SwitchVerified(a) PROVE Exclusive'
  BY <1>17 DEF SwitchVerified
<1>16. CASE Rest \/ UNCHANGED vars
  BY <1>16 DEF Rest, vars
<1> QED BY <1>1, <1>2, <1>3, <1>4, <1>5, <1>6, <1>7, <1>8, <1>9, <1>10, <1>11, <1>12, <1>13, <1>14, <1>15, <1>16,
             <1>17 DEF Next

\* Who holds an identity excludes the others.
LEMMA BoundStep ==
  ASSUME TypeOK, Held, Bound, [Next]_vars
  PROVE  Bound'
<1> USE AccountsAssumption DEF TypeOK, Held, Bound, Requests, Creators, Go, table, Live, Ended, Attached
<1>1. ASSUME NEW r \in Registrations, Check(r) PROVE Bound'
  BY <1>1 DEF Check, Refuse
<1>2. ASSUME NEW r \in Registrations, Welcome(r) PROVE Bound'
  BY <1>2 DEF Welcome
<1>3. ASSUME NEW r \in Registrations, CommitRegistration(r) PROVE Bound'
  BY <1>3 DEF CommitRegistration
<1>4. ASSUME NEW r \in Creators, InsertUser(r) PROVE Bound'
  BY <1>4 DEF InsertUser, Creating
<1>5. ASSUME NEW s \in SignIns, Recognise(s) PROVE Bound'
  BY <1>5 DEF Recognise, Refuse, Owners, Same
<1>6. ASSUME NEW s \in SignIns, Miss(s) PROVE Bound'
  BY <1>6 DEF Miss
<1>7. ASSUME NEW s \in SignIns, Attach(s) PROVE Bound'
  BY <1>7 DEF Attach, LinkFree, Owners, Same
<1>8. ASSUME NEW s \in SignIns, Join(s) PROVE Bound'
  BY <1>8 DEF Join
<1>9. ASSUME NEW s \in SignIns, CommitSignIn(s) PROVE Bound'
  BY <1>9 DEF CommitSignIn
<1>10. ASSUME NEW l \in Links, NEW a \in Creators, SendVerification(l, a) \/ SendReset(l, a) PROVE Bound'
  BY <1>10 DEF SendVerification, SendReset, Send
<1>11. ASSUME NEW k \in Clicks, Redeem(k) PROVE Bound'
  BY <1>11 DEF Redeem, Refuse
<1>12. ASSUME NEW k \in Clicks, NEW l \in Links, Take(k, l) PROVE Bound'
  BY <1>12 DEF Take
<1>13. ASSUME NEW l \in Links, Expire(l) PROVE Bound'
  BY <1>13 DEF Expire
<1>14. ASSUME NEW r \in Requests, Rollback(r) PROVE Bound'
  BY <1>14 DEF Rollback
<1>15. ASSUME NEW a \in Closable, CloseAccount(a) \/ ReopenAccount(a) PROVE Bound'
  BY <1>15 DEF CloseAccount, ReopenAccount
<1>17. ASSUME NEW a \in Creators, SwitchVerified(a) PROVE Bound'
  BY <1>17 DEF SwitchVerified
<1>16. CASE Rest \/ UNCHANGED vars
  BY <1>16 DEF Rest, vars
<1> QED BY <1>1, <1>2, <1>3, <1>4, <1>5, <1>6, <1>7, <1>8, <1>9, <1>10, <1>11, <1>12, <1>13, <1>14, <1>15, <1>16,
             <1>17 DEF Next

\* No password for an account made by a provider.
LEMMA RegisteredStep ==
  ASSUME TypeOK, Held, Registered, [Next]_vars
  PROVE  Registered'
<1> USE AccountsAssumption DEF TypeOK, Held, Registered, Requests, Creators, Go, table, Live, Ended
<1>1. ASSUME NEW r \in Registrations, Check(r) PROVE Registered'
  BY <1>1 DEF Check, Refuse
<1>2. ASSUME NEW r \in Registrations, Welcome(r) PROVE Registered'
  BY <1>2 DEF Welcome, Send, Letter, Kinds
<1>3. ASSUME NEW r \in Registrations, CommitRegistration(r) PROVE Registered'
  BY <1>3 DEF CommitRegistration
<1>4. ASSUME NEW r \in Creators, InsertUser(r) PROVE Registered'
  BY <1>4 DEF InsertUser
<1>5. ASSUME NEW s \in SignIns, Recognise(s) PROVE Registered'
  BY <1>5 DEF Recognise, Refuse
<1>6. ASSUME NEW s \in SignIns, Miss(s) PROVE Registered'
  BY <1>6 DEF Miss
<1>7. ASSUME NEW s \in SignIns, Attach(s) PROVE Registered'
  BY <1>7 DEF Attach
<1>8. ASSUME NEW s \in SignIns, Join(s) PROVE Registered'
  BY <1>8 DEF Join
<1>9. ASSUME NEW s \in SignIns, CommitSignIn(s) PROVE Registered'
  BY <1>9 DEF CommitSignIn
<1>10. ASSUME NEW l \in Links, NEW a \in Creators, SendVerification(l, a) \/ SendReset(l, a) PROVE Registered'
  BY <1>10 DEF SendVerification, SendReset, Send, Letter, Kinds
<1>11. ASSUME NEW k \in Clicks, Redeem(k) PROVE Registered'
  BY <1>11 DEF Redeem, Refuse, Letter, Kinds
<1>12. ASSUME NEW k \in Clicks, NEW l \in Links, Take(k, l) PROVE Registered'
  BY <1>12 DEF Take, Letter, Kinds
<1>13. ASSUME NEW l \in Links, Expire(l) PROVE Registered'
  BY <1>13 DEF Expire, Letter
<1>14. ASSUME NEW r \in Requests, Rollback(r) PROVE Registered'
  BY <1>14 DEF Rollback
<1>15. ASSUME NEW a \in Closable, CloseAccount(a) \/ ReopenAccount(a) PROVE Registered'
  BY <1>15 DEF CloseAccount, ReopenAccount
<1>17. ASSUME NEW a \in Creators, SwitchVerified(a) PROVE Registered'
  BY <1>17 DEF SwitchVerified
<1>16. CASE Rest \/ UNCHANGED vars
  BY <1>16 DEF Rest, vars
<1> QED BY <1>1, <1>2, <1>3, <1>4, <1>5, <1>6, <1>7, <1>8, <1>9, <1>10, <1>11, <1>12, <1>13, <1>14, <1>15, <1>16,
             <1>17 DEF Next

-----------------------------------------------------------------------------

THEOREM InvTheorem == Spec => []Inv
<1>1. Inv /\ [Next]_vars => Inv'
  BY TypeStep, HeldStep, ExclusiveStep, BoundStep, RegisteredStep DEF Inv
<1> QED BY <1>1, InitInv, PTL DEF Spec

\* Every variable keeps its shape, and what is verified, has a password or is
\* linked was committed (register, complete, verify_email, reset_password).
THEOREM TypeCorrect == Spec => []TypeOK
<1>1. Inv => TypeOK
  BY DEF Inv
<1> QED BY <1>1, InvTheorem, PTL

\* A mail has one account for ever, however registrations, sign-ins, deletions
\* and restorations overlap (uq_users_email_lower).
THEOREM MailTheorem == Spec => []OneAccountPerMail
<1>1. Inv => OneAccountPerMail
  BY DEF Inv, TypeOK, Exclusive, Holds, OneAccountPerMail
<1> QED BY <1>1, InvTheorem, PTL

\* An identity signs in to one account for ever (uq_oauth_provider_subject).
THEOREM IdentityTheorem == Spec => []IdentityKeepsAccount
<1>1. Inv => IdentityKeepsAccount
  BY DEF Inv, Bound, Attached, IdentityKeepsAccount
<1> QED BY <1>1, InvTheorem, PTL

\* An account made by a provider never gets a password, and is verified unless an
\* administrator clears that (auth_service.request_password_reset).
THEOREM SocialTheorem == Spec => []SocialStaysSocial
<1>1. Inv => SocialStaysSocial
  BY AccountsAssumption DEF Inv, Registered, SocialStaysSocial
<1> QED BY <1>1, InvTheorem, PTL
-----------------------------------------------------------------------------
(* Access: what a request was served with was valid after it began.        *)

\* A request holds the lock of a row only once it has written it.
AccessLocks ==
  \A k \in AccessOf!Keys, r \in AccessOf!Requests : locker[k] = r =>
    \/ callPhase[r] = "written"
    \/ r \in Calls /\ callPhase[r] = "known"

\* A call, and a revocation that has found its key, work on a committed one.
AccessKeys ==
  \A r \in AccessOf!Requests \ Creates :
    \/ callPhase[r] \in {"loaded", "written"}
    \/ r \in Calls /\ callPhase[r] = "known"
    => key[r] \in keys

\* No write of another request undoes a revocation.
RevocationsStand == withdrawn = revoked

\* A request that began too late is refused at once; one whose owner has been
\* closed ever since does not get past the owner's lookup.
LateIsRefused ==
  /\ \A r \in late : callPhase[r] = "refused"
  /\ \A r \in shut : /\ callPhase[r] \notin {"waiting", "known", "done"}
                     /\ key[r] \in keys /\ Caller[key[r]] \in closedOwners

AccessInv ==
  AccessOf!TypeOK /\ AccessLocks /\ AccessKeys /\ RevocationsStand /\ LateIsRefused

LEMMA AccessInit ==
  ASSUME AccessOf!Init
  PROVE  AccessInv
<1> USE IdentityAssumption
    DEF AccessOf!Init, AccessOf!AccessAssumption, AccessOf!Requests, AccessOf!Dashboard,
        AccessOf!Keys
<1>1. AccessOf!TypeOK
  BY DEF AccessOf!TypeOK, AccessOf!Phases, AccessOf!Running
<1>2. AccessLocks /\ AccessKeys /\ RevocationsStand /\ LateIsRefused
  BY DEF AccessLocks, AccessKeys, RevocationsStand, LateIsRefused
<1> QED
  BY <1>1, <1>2 DEF AccessInv

LEMMA AccessStep ==
  ASSUME AccessInv, AccessOf!Next
  PROVE  AccessInv'
<1> USE IdentityAssumption
    DEF AccessInv, AccessOf!AccessAssumption, AccessOf!Requests, AccessOf!Dashboard,
        AccessOf!Keys, AccessOf!TypeOK, AccessOf!Phases, AccessOf!Running, AccessOf!Ended,
        AccessOf!Go, AccessLocks, AccessKeys, RevocationsStand, LateIsRefused
<1>1. ASSUME NEW u \in Users, NEW kind \in {"access", "refresh"},
             AccessOf!Login(u) \/ AccessOf!Refresh(u) \/ AccessOf!Expire(u, kind)
      PROVE  AccessInv'
  BY <1>1 DEF AccessOf!Login, AccessOf!Refresh, AccessOf!Expire
<1>2. ASSUME NEW u \in Users, AccessOf!Close(u)
      PROVE  AccessInv'
  BY <1>2 DEF AccessOf!Close
<1>3. ASSUME NEW u \in Users, AccessOf!Reopen(u)
      PROVE  AccessInv'
  BY <1>3 DEF AccessOf!Reopen, AccessOf!Account, AccessOf!Owner
<1>4. ASSUME NEW r \in AccessOf!Requests, AccessOf!Authenticate(r)
      PROVE  AccessInv'
  BY <1>4 DEF AccessOf!Authenticate, AccessOf!Decodes
<1>5. ASSUME NEW r \in AccessOf!Requests, AccessOf!Select(r)
      PROVE  AccessInv'
  BY <1>5 DEF AccessOf!Select, AccessOf!Live, AccessOf!Refuse, AccessOf!Unlock
<1>6. ASSUME NEW r \in AccessOf!Requests, AccessOf!Write(r)
      PROVE  AccessInv'
  BY <1>6 DEF AccessOf!Write, AccessOf!Free
<1>7. ASSUME NEW r \in AccessOf!Requests, AccessOf!Verify(r)
      PROVE  AccessInv'
  BY <1>7 DEF AccessOf!Verify, AccessOf!Accepted, AccessOf!Owner
<1>8. ASSUME NEW r \in AccessOf!Requests, AccessOf!Touch(r)
      PROVE  AccessInv'
  BY <1>8 DEF AccessOf!Touch, AccessOf!Free
<1>9. ASSUME NEW r \in AccessOf!Requests, AccessOf!Identify(r)
      PROVE  AccessInv'
  BY <1>9 DEF AccessOf!Identify, AccessOf!Owner, AccessOf!Refuse, AccessOf!Unlock
<1>10. ASSUME NEW r \in AccessOf!Requests, AccessOf!Commit(r)
       PROVE  AccessInv'
  BY <1>10 DEF AccessOf!Commit, AccessOf!RevokedAfter, AccessOf!Unlock
<1>11. ASSUME NEW r \in AccessOf!Requests, AccessOf!Fail(r)
       PROVE  AccessInv'
  BY <1>11 DEF AccessOf!Fail, AccessOf!Unlock
<1> QED
  BY <1>1, <1>2, <1>3, <1>4, <1>5, <1>6, <1>7, <1>8, <1>9, <1>10, <1>11 DEF AccessOf!Next

\* A revoked key, an expired token and an account that stays deleted serve
\* nobody, whatever requests with them overlapped their end (api_key.py).
THEOREM ServedTheorem == SpecPart => []ServedWasValid
<1> DEFINE I == part = "access" => AccessInv
<1>1. InitPart => I
  BY AccessInit DEF InitPart
<1>2. I /\ [NextPart]_<<part, vars, accessVars, stateVars>> => I'
  <2>1. ASSUME AccessInv, UNCHANGED accessVars PROVE AccessInv'
    BY <2>1
    DEF accessVars, AccessInv, AccessOf!TypeOK, AccessOf!Running, AccessLocks, AccessKeys,
        RevocationsStand, LateIsRefused
  <2> QED
    BY <2>1, AccessStep DEF NextPart
<1>3. I => ServedWasValid
  BY DEF AccessInv, LateIsRefused, ServedWasValid, AccessOf!ServedWasValid
<1> QED
  BY <1>1, <1>2, <1>3, PTL DEF SpecPart

-----------------------------------------------------------------------------
(* Sign-in redirects: a state is taken once.                               *)

\* The callbacks that have taken their flow's state.
Consumed == {c \in Callbacks : progress[c] \in {"consumed", "exchanged", "tokens"}}

\* Redis holds what the flow asked for, resolved, and only that.
StoredAsAsked ==
  /\ \A f \in Flows : stored[f] # Gone =>
       /\ asked[f] # Gone
       /\ stored[f] = <<asked[f][1], States!Resolved(asked[f][2])>>
  /\ \A k \in Codes : consented[k] # NoFlow => asked[consented[k]] # Gone
  /\ \A c \in Callbacks : progress[c] # "waiting" =>
       flow[c] \in Flows /\ asked[flow[c]] # Gone /\ code[c] \in Codes

\* A flow has at most one callback that took its state, and that one works for
\* what was stored.
TakenOnce ==
  /\ \A c \in Consumed : /\ stored[flow[c]] = Gone
                         /\ via[c] = asked[flow[c]][1]
                         /\ home[c] = States!Resolved(asked[flow[c]][2])
  /\ \A c, d \in Consumed : flow[c] = flow[d] => c = d
  /\ \A c \in States!SignedIn : landed[c] = home[c]

StatesInv == States!TypeOK /\ StoredAsAsked /\ TakenOnce

LEMMA StatesInit ==
  ASSUME States!Init
  PROVE  StatesInv
<1> USE IdentityAssumption DEF States!Init, States!SignInAssumption
<1>1. States!TypeOK
  BY DEF States!TypeOK, States!Stages
<1>2. StoredAsAsked /\ TakenOnce
  BY DEF StoredAsAsked, TakenOnce, Consumed, States!SignedIn
<1> QED
  BY <1>1, <1>2 DEF StatesInv

LEMMA StatesStep ==
  ASSUME StatesInv, States!Next
  PROVE  StatesInv'
<1> USE IdentityAssumption
    DEF StatesInv, States!SignInAssumption, States!TypeOK, States!Stages, States!Move,
        StoredAsAsked, TakenOnce, Consumed, States!SignedIn
<1>1. ASSUME NEW f \in Flows, States!Start(f)
      PROVE  StatesInv'
  BY <1>1 DEF States!Start, States!Resolved
<1>2. ASSUME NEW f \in Flows, States!Expire(f)
      PROVE  StatesInv'
  BY <1>2 DEF States!Expire
<1>3. ASSUME NEW f \in Flows, NEW k \in Codes, States!Consent(k, f)
      PROVE  StatesInv'
  BY <1>3 DEF States!Consent
<1>4. ASSUME NEW c \in Callbacks, States!Arrive(c)
      PROVE  StatesInv'
  <2>1. PICK k \in Codes, p \in Providers :
          /\ consented[k] # NoFlow
          /\ flow' = [flow EXCEPT ![c] = consented[k]]
          /\ code' = [code EXCEPT ![c] = k]
          /\ via' = [via EXCEPT ![c] = p]
    BY <1>4, Zenon DEF States!Arrive
  <2>7. consented[k] \in Flows
    BY <2>1
  <2>2. progress' = [progress EXCEPT ![c] = "arrived"]
    BY <1>4 DEF States!Arrive
  <2>3. States!TypeOK'
    BY <1>4, <2>1, <2>2, <2>7 DEF States!Arrive
  <2>4. StoredAsAsked'
    BY <1>4, <2>1, <2>2, <2>7 DEF States!Arrive
  <2>5. Consumed' = Consumed \ {c} /\ c \notin Consumed
    BY <1>4, <2>2 DEF States!Arrive
  <2>6. TakenOnce'
    BY <1>4, <2>1, <2>2, <2>5 DEF States!Arrive
  <2> QED
    BY <2>3, <2>4, <2>6
<1>5. ASSUME NEW c \in Callbacks, States!Consume(c)
      PROVE  StatesInv'
  <2> DEFINE f == flow[c]
  <2>1. /\ f \in Flows /\ asked[f] # Gone /\ code[c] \in Codes /\ c \notin Consumed
        /\ stored' = [stored EXCEPT ![f] = Gone]
        /\ UNCHANGED <<asked, consented, spent, flow, code, via>>
    BY <1>5 DEF States!Consume, States!Taken
  <2>2. CASE States!OfProvider(f, via[c])
    <3>1. /\ progress' = [progress EXCEPT ![c] = "consumed"]
          /\ home' = [home EXCEPT ![c] = stored[f][2]] /\ landed' = landed
      BY <1>5, <2>2 DEF States!Consume
    <3>2. /\ stored[f] \in Providers \X Allowed
          /\ via[c] = asked[f][1] /\ stored[f][2] = States!Resolved(asked[f][2])
      BY <2>1, <2>2 DEF States!OfProvider
    <3>3. States!TypeOK'
      BY <2>1, <3>1, <3>2
    <3>7. StoredAsAsked'
      BY <2>1, <3>1
    <3>4. \A d \in Consumed : flow[d] # f
      BY <2>2 DEF States!OfProvider
    <3>5. Consumed' = Consumed \cup {c}
      BY <3>1
    <3>6. TakenOnce'
      BY <2>1, <3>1, <3>2, <3>4, <3>5
    <3> QED
      BY <3>3, <3>6, <3>7
  <2>3. CASE ~States!OfProvider(f, via[c])
    <3>1. /\ progress' = [progress EXCEPT ![c] = "error"]
          /\ landed' = [landed EXCEPT ![c] = Frontend] /\ home' = home
      BY <1>5, <2>3 DEF States!Consume, States!Refuse
    <3>2. States!TypeOK'
      BY <2>1, <3>1
    <3>5. StoredAsAsked'
      BY <2>1, <3>1
    <3>3. Consumed' = Consumed
      BY <2>1, <3>1
    <3>4. TakenOnce'
      BY <2>1, <3>1, <3>3
    <3> QED
      BY <3>2, <3>4, <3>5
  <2> QED
    BY <2>2, <2>3
<1>6. ASSUME NEW c \in Callbacks, States!Exchange(c)
      PROVE  StatesInv'
  <2>1. /\ c \in Consumed /\ progress[c] = "consumed"
        /\ \E p \in {"exchanged", "error"} : progress' = [progress EXCEPT ![c] = p]
        /\ spent' \in {spent, spent \cup {code[c]}}
        /\ landed' \in {landed, [landed EXCEPT ![c] = Frontend]}
        /\ UNCHANGED <<stored, asked, consented, flow, code, via, home>>
    BY <1>6 DEF States!Exchange, States!Refuse
  <2>2. code[c] \in Codes
    BY <2>1
  <2>3. States!TypeOK' /\ StoredAsAsked'
    BY <2>1, <2>2
  <2>4. Consumed' \subseteq Consumed /\ States!SignedIn' = States!SignedIn /\ c \notin States!SignedIn
    BY <2>1
  <2>5. TakenOnce'
    BY <2>1, <2>4
  <2> QED
    BY <2>3, <2>5
<1>7. ASSUME NEW c \in Callbacks, States!Finish(c)
      PROVE  StatesInv'
  BY <1>7 DEF States!Finish, States!Refuse
<1> QED
  BY <1>1, <1>2, <1>3, <1>4, <1>5, <1>6, <1>7 DEF States!Next

\* A flow signs in once and where it was started, however often its state comes
\* back, with whatever codes and on whatever callback (social_service.py).
THEOREM FlowTheorem == SpecPart => []FlowSignsInOnce
<1> DEFINE I == part = "states" => StatesInv
<1>1. InitPart => I
  BY StatesInit DEF InitPart
<1>2. I /\ [NextPart]_<<part, vars, accessVars, stateVars>> => I'
  <2>1. ASSUME StatesInv, UNCHANGED stateVars PROVE StatesInv'
    BY <2>1
    DEF stateVars, StatesInv, States!TypeOK, StoredAsAsked, TakenOnce, Consumed, States!SignedIn
  <2> QED
    BY <2>1, StatesStep DEF NextPart
<1>3. I => FlowSignsInOnce
  BY DEF StatesInv, TakenOnce, Consumed, FlowSignsInOnce, States!FlowSignsInOnce, States!SignedIn
<1> QED
  BY <1>1, <1>2, <1>3, PTL DEF SpecPart
=============================================================================
