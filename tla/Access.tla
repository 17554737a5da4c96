------------------------------- MODULE Access -------------------------------
(***************************************************************************)
(* Who is served: API keys, tokens and the requests that carry them.       *)
(*                                                                         *)
(* A call of the public API looks its key up, checks it, stamps            *)
(* last_used_at, which locks the key's row until the call ends, and then   *)
(* looks the owner up.  A request of the dashboard decodes its access      *)
(* token, looks the account up and creates or revokes a key.  Each request *)
(* is a READ COMMITTED transaction, and each write sets only the columns   *)
(* that changed.  Tokens are signed and kept nowhere: nothing but time     *)
(* ends them.  That a password is right is left to the environment.        *)
(***************************************************************************)
EXTENDS FiniteSets

CONSTANTS
  Users, Scopes,
  Creates,       (* create_key requests; the key each may insert           *)
  Revokes,       (* revoke_key requests                                    *)
  Calls,         (* requests of the public API                             *)
  Caller,        (* the account of each request of the dashboard           *)
  Granted,       (* the scopes each key is created with                    *)
  Needed,        (* the scope each call needs                              *)
  NoRequest, NoKey

Keys == Creates
Dashboard == Creates \cup Revokes
Requests == Dashboard \cup Calls

AccessAssumption ==
  /\ Caller \in [Dashboard -> Users]
  /\ Granted \in [Keys -> SUBSET Scopes] /\ Needed \in [Calls -> Scopes]
  /\ NoRequest \notin Requests /\ NoKey \notin Keys
  /\ Dashboard \cap Calls = {} /\ Creates \cap Revokes = {}

VARIABLES
  keys,       (* committed rows of api_keys                                *)
  revoked,    (* those with revoked_at                                     *)
  closed,     (* accounts with deleted_at                                  *)
  held,       (* the kinds of unexpired tokens each account's client has   *)
  withdrawn,  (* history: keys a revocation was ever committed for         *)
  locker,     (* the request whose transaction locks each key's row        *)
  phase,      (* where each request is                                     *)
  key,        (* the key each request has loaded                           *)
  late,       (* requests that began with a revoked key or expired token   *)
  shut        (* requests whose account was closed ever since they began   *)

vars == <<keys, revoked, withdrawn, closed, held, locker, phase, key, late, shut>>

Phases == {"waiting", "known", "loaded", "written", "done", "refused", "failed"}
Ended == {"done", "refused", "failed"}
Running == {r \in Requests : phase[r] \notin Ended \cup {"waiting"}}
Live == keys \ revoked

Owner(k) == Caller[k]
Account(r) == IF r \in Dashboard THEN Caller[r] ELSE Owner(key[r])
Free(r, k) == locker[k] \in {r, NoRequest}
Go(r, p) == phase' = [phase EXCEPT ![r] = p]
Unlock(r) == locker' = [k \in Keys |-> IF locker[k] = r THEN NoRequest ELSE locker[k]]

Refuse(r) ==
  /\ Go(r, "refused")
  /\ Unlock(r)

-----------------------------------------------------------------------------
(* Tokens. *)

\* A token pair is issued to an account that signs in.
Login(u) ==
  /\ u \notin closed
  /\ held' = [held EXCEPT ![u] = {"access", "refresh"}]
  /\ UNCHANGED <<keys, revoked, withdrawn, closed, locker, phase, key, late, shut>>

\* A new pair is issued for a refresh token.
Refresh(u) ==
  /\ "refresh" \in held[u] /\ u \notin closed
  /\ held' = [held EXCEPT ![u] = {"access", "refresh"}]
  /\ UNCHANGED <<keys, revoked, withdrawn, closed, locker, phase, key, late, shut>>

Expire(u, kind) ==
  /\ kind \in held[u]
  /\ held' = [held EXCEPT ![u] = @ \ {kind}]
  /\ UNCHANGED <<keys, revoked, withdrawn, closed, locker, phase, key, late, shut>>

\* An administrator deletes and restores accounts.
Close(u) ==
  /\ u \notin closed
  /\ closed' = closed \cup {u}
  /\ UNCHANGED <<keys, revoked, withdrawn, held, locker, phase, key, late, shut>>

Reopen(u) ==
  /\ u \in closed
  /\ closed' = closed \ {u}
  /\ shut' = {r \in shut : Account(r) # u}
  /\ UNCHANGED <<keys, revoked, withdrawn, held, locker, phase, key, late>>

-----------------------------------------------------------------------------
(* The dashboard. *)

Decodes(u) == "access" \in held[u]

\* get_current_user: the token is decoded and the account looked up.
Authenticate(r) ==
  /\ r \in Dashboard /\ phase[r] = "waiting"
  /\ late' = IF "access" \in held[Caller[r]] THEN late ELSE late \cup {r}
  /\ Go(r, IF Decodes(Caller[r]) /\ Caller[r] \notin closed THEN "known" ELSE "refused")
  /\ UNCHANGED <<keys, revoked, withdrawn, closed, held, locker, key, shut>>

\* revoke_key finds a live key of the account.
Select(r) ==
  /\ r \in Revokes /\ phase[r] = "known"
  /\ \/ \E k \in Live :
          /\ Owner(k) = Caller[r]
          /\ key' = [key EXCEPT ![r] = k]
          /\ Go(r, "loaded")
          /\ UNCHANGED locker
     \/ Refuse(r) /\ UNCHANGED key
  /\ UNCHANGED <<keys, revoked, withdrawn, closed, held, late, shut>>

\* The row is inserted, or revoked_at is flushed once its lock is free.
Write(r) ==
  /\ \/ r \in Creates /\ phase[r] = "known" /\ UNCHANGED locker
     \/ /\ r \in Revokes /\ phase[r] = "loaded" /\ Free(r, key[r])
        /\ locker' = [locker EXCEPT ![key[r]] = r]
  /\ Go(r, "written")
  /\ UNCHANGED <<keys, revoked, withdrawn, closed, held, key, late, shut>>

-----------------------------------------------------------------------------
(* The public API. *)

Accepted(r, k) == k \notin revoked /\ Needed[r] \in Granted[k]

\* verify: the key is looked up and checked.
Verify(r) ==
  /\ r \in Calls /\ phase[r] = "waiting"
  /\ \E k \in keys :
       /\ key' = [key EXCEPT ![r] = k]
       /\ late' = IF k \in withdrawn THEN late \cup {r} ELSE late
       /\ shut' = IF Owner(k) \in closed THEN shut \cup {r} ELSE shut
       /\ Go(r, IF Accepted(r, k) THEN "loaded" ELSE "refused")
  /\ UNCHANGED <<keys, revoked, withdrawn, closed, held, locker>>

\* touch_last_used waits for the row.
Touch(r) ==
  /\ r \in Calls /\ phase[r] = "loaded" /\ Free(r, key[r])
  /\ locker' = [locker EXCEPT ![key[r]] = r]
  /\ Go(r, "written")
  /\ UNCHANGED <<keys, revoked, withdrawn, closed, held, key, late, shut>>

\* The owner is looked up; from here on the call is served.
Identify(r) ==
  /\ r \in Calls /\ phase[r] = "written"
  /\ IF Owner(key[r]) \in closed THEN Refuse(r) ELSE Go(r, "known") /\ UNCHANGED locker
  /\ UNCHANGED <<keys, revoked, withdrawn, closed, held, key, late, shut>>

-----------------------------------------------------------------------------

\* Mutant: a flush writes the whole row as it was loaded.
RevokedByWholeRow(r) ==
  IF r \in Revokes THEN revoked \cup {key[r]}
  ELSE IF r \in Calls THEN revoked \ {key[r]} ELSE revoked
RevokedAfter(r) == IF r \in Revokes THEN revoked \cup {key[r]} ELSE revoked

Commit(r) ==
  /\ phase[r] = IF r \in Calls THEN "known" ELSE "written"
  /\ keys' = IF r \in Creates THEN keys \cup {r} ELSE keys
  /\ revoked' = RevokedAfter(r)
  /\ withdrawn' = IF r \in Revokes THEN withdrawn \cup {key[r]} ELSE withdrawn
  /\ Go(r, "done")
  /\ Unlock(r)
  /\ UNCHANGED <<closed, held, key, late, shut>>

\* An error, a lost connection or a crash.
Fail(r) ==
  /\ r \in Running
  /\ Go(r, "failed")
  /\ Unlock(r)
  /\ UNCHANGED <<keys, revoked, withdrawn, closed, held, key, late, shut>>

Init ==
  /\ keys = {} /\ revoked = {} /\ withdrawn = {} /\ closed = {}
  /\ held = [u \in Users |-> {}]
  /\ locker = [k \in Keys |-> NoRequest]
  /\ phase = [r \in Requests |-> "waiting"]
  /\ key = [r \in Requests |-> NoKey]
  /\ late = {} /\ shut = {}

Next ==
  \/ \E u \in Users : Login(u) \/ Refresh(u) \/ Close(u) \/ Reopen(u)
                        \/ \E kind \in {"access", "refresh"} : Expire(u, kind)
  \/ \E r \in Requests :
       \/ Authenticate(r) \/ Select(r) \/ Write(r)
       \/ Verify(r) \/ Touch(r) \/ Identify(r)
       \/ Commit(r) \/ Fail(r)

Spec == Init /\ [][Next]_vars

-----------------------------------------------------------------------------

\* Every variable keeps its shape; the locker of a row is under way and works
\* on it.
TypeOK ==
  /\ keys \subseteq Keys /\ revoked \subseteq keys /\ withdrawn \subseteq Keys
  /\ closed \subseteq Users
  /\ held \in [Users -> SUBSET {"access", "refresh"}]
  /\ locker \in [Keys -> Requests \cup {NoRequest}]
  /\ phase \in [Requests -> Phases]
  /\ key \in [Requests -> Keys \cup {NoKey}]
  /\ late \subseteq Requests /\ shut \subseteq Calls
  /\ \A k \in Keys : locker[k] # NoRequest => locker[k] \in Running /\ key[locker[k]] = k

\* What a request was served with was valid at some moment after it began: a
\* key that was revoked before is refused for good, whatever calls with it
\* were in progress when it was revoked, and so are a token that had expired
\* and a key whose owner stays deleted ("the key must be rejected at auth
\* time", models/api_key.py).
ServedWasValid ==
  \A r \in Requests : phase[r] = "done" => r \notin late \cup shut
=============================================================================
