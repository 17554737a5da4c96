------------------------------ MODULE Accounts ------------------------------
(***************************************************************************)
(* How accounts come to be: registration, sign-in with a provider, and the *)
(* links in mails that verify an address or reset a password.              *)
(*                                                                         *)
(* A request is a READ COMMITTED transaction.  It first looks for the       *)
(* account and then inserts what is missing; rows are seen when committed. *)
(* Two unique indexes decide between overlapping requests: one on the mail *)
(* of users, deleted ones included, and one on the identity of a provider. *)
(* An insert waits for a running one of the same key and fails if that one *)
(* commits.  Links are keys of Redis, outside the transaction: a link may   *)
(* be sent for an account whose registration is then rolled back.          *)
(***************************************************************************)
EXTENDS FiniteSets

CONSTANTS
  Registrations, (* register requests                                      *)
  SignIns,       (* callbacks of a provider, with a state of their own     *)
  Clicks,        (* requests that redeem a link                            *)
  Links,         (* links in mails; bound of the model: sent once each     *)
  MailOf,        (* the mail a registration or sign-in gives               *)
  SubjectOf,     (* the provider and subject of each sign-in               *)
  Closable,      (* bound of the model: accounts that may be deleted       *)
  NoAccount, NoLink, Unsent, Gone

Creators == Registrations \cup SignIns    \* the user row each may insert
Requests == Creators \cup Clicks

Kinds == {"verify", "reset"}
Letter == [kind : Kinds, account : Creators]

ASSUME AccountsAssumption ==
  /\ Registrations \cap SignIns = {} /\ Creators \cap Clicks = {}
  /\ DOMAIN MailOf = Creators /\ DOMAIN SubjectOf = SignIns
  /\ Closable \subseteq Creators
  /\ NoAccount \notin Creators /\ {NoLink, Unsent, Gone} \cap Letter = {} /\ Unsent # Gone

VARIABLES
  written,    (* committed user rows                                       *)
  closed,     (* those with deleted_at                                     *)
  verified,   (* those with email_verified_at                              *)
  unverified, (* history: those of which an administrator has cleared it   *)
  passworded, (* those with a password_hash                                *)
  linked,     (* OAuthAccount.user_id of the row each sign-in committed    *)
  link,       (* Redis: what each link in a mail stands for                *)
  phase,      (* where each request is                                     *)
  account,    (* the account each sign-in has found or creates             *)
  taken       (* the link each click has taken                             *)

table == <<written, closed, verified, unverified, passworded, linked>>
vars == <<table, link, phase, account, taken>>

Phases == {"waiting", "checked", "matched", "inserted", "mailed", "linked",
           "holding", "done", "refused", "failed"}
Ended == {"done", "refused", "failed"}

Live(a) == a \in written \ closed
LiveWith(m) == {a \in written \ closed : MailOf[a] = m}

Go(r, p) == phase' = [phase EXCEPT ![r] = p]
Refuse(r) == Go(r, "refused") /\ UNCHANGED <<table, link, account, taken>>

-----------------------------------------------------------------------------
(* Users.                                                                  *)

\* register looks for a live account of the mail.
Check(r) ==
  /\ phase[r] = "waiting"
  /\ \/ LiveWith(MailOf[r]) # {} /\ Refuse(r)
     \/ LiveWith(MailOf[r]) = {} /\ Go(r, "checked") /\ UNCHANGED <<table, link, account, taken>>

Creating(r) == phase[r] = "checked"
Created(r) ==
  phase[r] \in {"inserted", "mailed"} \/ (phase[r] = "linked" /\ account[r] = r)

\* Mutant: the index leaves deleted accounts out.
FreeAmongLive(r) == LiveWith(MailOf[r]) = {}

\* The unique index on lower(email).
MailFree(r) == \A a \in written : MailOf[a] # MailOf[r]
MailBusy(r) == \E q \in Creators \ {r} : Created(q) /\ MailOf[q] = MailOf[r]

InsertUser(r) ==
  /\ Creating(r) /\ MailFree(r) /\ ~MailBusy(r)
  /\ Go(r, "inserted")
  /\ account' = [account EXCEPT ![r] = r]
  /\ UNCHANGED <<table, link, taken>>

Send(l, kind, a) ==
  /\ link[l] = Unsent
  /\ link' = [link EXCEPT ![l] = [kind |-> kind, account |-> a]]

\* The verification mail of a registration, before its commit; best effort.
Welcome(r) ==
  /\ r \in Registrations /\ phase[r] = "inserted"
  /\ Go(r, "mailed")
  /\ link' = link \/ \E l \in Links : Send(l, "verify", r)
  /\ UNCHANGED <<table, account, taken>>

\* A login or a request for another mail while the address is unverified.
SendVerification(l, a) ==
  /\ Live(a) /\ a \notin verified
  /\ Send(l, "verify", a)
  /\ UNCHANGED <<table, phase, account, taken>>

\* Mutant: a reset for an account that has no password.
SendResetToAny(l, a) ==
  /\ Live(a)
  /\ Send(l, "reset", a)
  /\ UNCHANGED <<table, phase, account, taken>>

SendReset(l, a) ==
  /\ Live(a) /\ a \in passworded
  /\ Send(l, "reset", a)
  /\ UNCHANGED <<table, phase, account, taken>>

-----------------------------------------------------------------------------
(* Sign-in with a provider.                                                *)

Same(s) == {q \in SignIns : SubjectOf[q] = SubjectOf[s]}
Owners(s) == {linked[q] : q \in Same(s)} \ {NoAccount}

\* The identity is known: its account signs in, if it is live.
Recognise(s) ==
  /\ phase[s] = "waiting"
  /\ \E a \in Owners(s) :
       IF Live(a) THEN /\ account' = [account EXCEPT ![s] = a]
                       /\ Go(s, "done") /\ UNCHANGED <<table, link, taken>>
       ELSE Refuse(s)

\* The identity is new.
Miss(s) ==
  /\ phase[s] = "waiting" /\ Owners(s) = {}
  /\ Go(s, "matched")
  /\ UNCHANGED <<table, link, account, taken>>

\* It joins the account of its mail, or an account is created for it.
Join(s) ==
  /\ phase[s] = "matched" /\ account[s] = NoAccount
  /\ IF LiveWith(MailOf[s]) = {} THEN Go(s, "checked") /\ UNCHANGED account
     ELSE /\ \E a \in LiveWith(MailOf[s]) : account' = [account EXCEPT ![s] = a]
          /\ UNCHANGED phase
  /\ UNCHANGED <<table, link, taken>>

\* Mutant: no unique index on the identity, only the look-up.
LinkAlwaysFree(s) == TRUE

\* The unique index on (provider, subject).
LinkFree(s) == Owners(s) = {} /\ \A q \in Same(s) \ {s} : phase[q] # "linked"

Attach(s) ==
  /\ phase[s] = "inserted" \/ (phase[s] = "matched" /\ account[s] # NoAccount)
  /\ LinkFree(s)
  /\ Go(s, "linked")
  /\ UNCHANGED <<table, link, account, taken>>

-----------------------------------------------------------------------------
(* The end of a request.                                                   *)

CommitRegistration(r) ==
  /\ r \in Registrations /\ phase[r] = "mailed"
  /\ written' = written \cup {r} /\ passworded' = passworded \cup {r}
  /\ Go(r, "done")
  /\ UNCHANGED <<closed, verified, unverified, linked, link, account, taken>>

\* The provider has verified the mail, which is written unless the account was
\* loaded with it: an administrator may have cleared it since.
CommitSignIn(s) ==
  /\ phase[s] = "linked"
  /\ written' = written \cup {account[s]}
  /\ \/ verified' = verified \cup {account[s]}
     \/ account[s] \in unverified /\ UNCHANGED verified
  /\ linked' = [linked EXCEPT ![s] = account[s]]
  /\ Go(s, "done")
  /\ UNCHANGED <<closed, unverified, passworded, link, account, taken>>

\* A key that is taken by now, an error, a provider that refuses, a crash.
Rollback(r) ==
  /\ phase[r] \notin Ended \cup {"waiting"}
  /\ Go(r, "failed")
  /\ UNCHANGED <<table, link, account, taken>>

-----------------------------------------------------------------------------
(* Links in mails.                                                         *)

Take(k, l) ==
  /\ phase[k] = "waiting" /\ link[l] \in Letter
  /\ taken' = [taken EXCEPT ![k] = link[l]]
  /\ link' = [link EXCEPT ![l] = Gone]
  /\ Go(k, "holding")
  /\ UNCHANGED <<table, account>>

Found(k) == Live(taken[k].account)

Redeem(k) ==
  LET a == taken[k].account IN
  /\ phase[k] = "holding"
  /\ \/ /\ ~Found(k) /\ Refuse(k)
     \/ /\ Found(k)
        /\ verified' = IF taken[k].kind = "verify" THEN verified \cup {a} ELSE verified
        /\ passworded' = IF taken[k].kind = "reset" THEN passworded \cup {a} ELSE passworded
        /\ Go(k, "done")
        /\ UNCHANGED <<written, closed, unverified, linked, link, account, taken>>

Expire(l) ==
  /\ link[l] \in Letter
  /\ link' = [link EXCEPT ![l] = Gone]
  /\ UNCHANGED <<table, phase, account, taken>>

\* An administrator deletes an account, and may restore it.
CloseAccount(a) ==
  /\ a \in written \ closed
  /\ closed' = closed \cup {a}
  /\ UNCHANGED <<written, verified, unverified, passworded, linked, link, phase, account, taken>>

ReopenAccount(a) ==
  /\ a \in closed
  /\ closed' = closed \ {a}
  /\ UNCHANGED <<written, verified, unverified, passworded, linked, link, phase, account, taken>>

\* An administrator sets the mail of an account, deleted or not, to verified, or
\* to unverified.
SwitchVerified(a) ==
  /\ a \in written
  /\ \/ verified' = verified \cup {a} /\ UNCHANGED unverified
     \/ verified' = verified \ {a} /\ unverified' = unverified \cup {a}
  /\ UNCHANGED <<written, closed, passworded, linked, link, phase, account, taken>>

\* Requests that never come, or wait for what is not there.
Rest ==
  /\ \A r \in Requests : phase[r] \in Ended \cup {"waiting"}
  /\ UNCHANGED vars

Init ==
  /\ written = {} /\ closed = {} /\ verified = {} /\ unverified = {} /\ passworded = {}
  /\ linked = [s \in SignIns |-> NoAccount]
  /\ link = [l \in Links |-> Unsent]
  /\ phase = [r \in Requests |-> "waiting"]
  /\ account = [r \in Creators |-> NoAccount]
  /\ taken = [k \in Clicks |-> NoLink]

Next ==
  \/ \E r \in Registrations : Check(r) \/ Welcome(r) \/ CommitRegistration(r)
  \/ \E r \in Creators : InsertUser(r)
  \/ \E s \in SignIns : Recognise(s) \/ Miss(s) \/ Join(s) \/ Attach(s) \/ CommitSignIn(s)
  \/ \E l \in Links : \/ Expire(l)
                      \/ \E a \in Creators : SendVerification(l, a) \/ SendReset(l, a)
  \/ \E k \in Clicks : Redeem(k) \/ \E l \in Links : Take(k, l)
  \/ \E r \in Requests : Rollback(r)
  \/ \E a \in Closable : CloseAccount(a) \/ ReopenAccount(a)
  \/ \E a \in Creators : SwitchVerified(a)
  \/ Rest

Spec == Init /\ [][Next]_vars

-----------------------------------------------------------------------------
(* What accounts promise.                                                  *)

\* Every variable keeps its shape; what is verified, has a password or is
\* linked is an account that was committed, even when the link in its mail was
\* sent before the commit.
TypeOK ==
  /\ written \subseteq Creators /\ closed \subseteq written
  /\ verified \subseteq written /\ unverified \subseteq written /\ passworded \subseteq written
  /\ linked \in [SignIns -> written \cup {NoAccount}]
  /\ link \in [Links -> Letter \cup {Unsent, Gone}]
  /\ phase \in [Requests -> Phases]
  /\ account \in [Creators -> Creators \cup {NoAccount}]
  /\ taken \in [Clicks -> Letter \cup {NoLink}]

\* A mail has one account for ever, even if registrations and sign-ins overlap
\* and the account is deleted and restored meanwhile.
OneAccountPerMail ==
  \A a, b \in written : MailOf[a] = MailOf[b] => a = b

\* An identity of a provider signs in to the same account every time, also
\* when the provider reports another mail for it.
IdentityKeepsAccount ==
  \A s, q \in SignIns :
    phase[s] = "done" /\ phase[q] = "done" /\ SubjectOf[s] = SubjectOf[q] =>
      account[s] = account[q]

\* An account that was made by a provider never gets a password, and its mail is
\* verified from the start, whatever deletion, link or other sign-in comes, but
\* for an administrator who clears that.
SocialStaysSocial ==
  \A s \in SignIns : s \in written => s \in (verified \cup unverified) \ passworded
=============================================================================
