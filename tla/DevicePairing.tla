--------------------------- MODULE DevicePairing ---------------------------
(***************************************************************************)
(* The phones of an account: pairing from the dashboard and by QR code, the *)
(* default device and unlinking, as requests that overlap.                  *)
(*                                                                         *)
(* A request is a READ COMMITTED transaction.  A pairing reads its account  *)
(* and the limits of the effective plan, counts the live devices of the    *)
(* account and inserts its own row later; nobody sees that row before the   *)
(* commit.  The limits change with the plan, whatever is paired.  Choosing  *)
(* the default clears the flag of all the rows its snapshot selected, one   *)
(* row lock after the other, and then sets the flag of one.  A flush writes *)
(* only the columns that changed, so the telemetry of a heartbeat and the   *)
(* edit of a name touch nothing here and are left out.  The QR code is a    *)
(* key of Redis, outside the transaction: once it is taken it is gone,      *)
(* whatever becomes of the request.                                         *)
(***************************************************************************)
EXTENDS Naturals, FiniteSets

CONSTANTS
  Users,
  Codes,        (* QR codes; a code is minted at most once                  *)
  Pairings,     (* pair requests of the dashboard                          *)
  Scans,        (* pair_complete requests of phones that scanned a code    *)
  Choices,      (* requests that choose the default device                 *)
  Deletes,      (* requests that unlink a device                           *)
  Owner,        (* the account of each request that is authenticated       *)
  Caps,         (* the values a plan's max_devices may have                *)
  FirstCap,     (* max_devices of the plan each account begins with        *)
  Closable,     (* bound of the model: accounts that may be deleted        *)
  NoUser, NoCode, NoDevice, NoRequest

Devices == Pairings \cup Scans        \* the row each pairing may insert
Edits == Choices \cup Deletes
Requests == Devices \cup Edits

ASSUME DevicePairingAssumption ==
  /\ Pairings \cap Scans = {} /\ Choices \cap Deletes = {} /\ Devices \cap Edits = {}
  /\ Owner \in [Requests \ Scans -> Users]
  /\ Caps \subseteq Nat /\ FirstCap \in [Users -> Caps]
  /\ Closable \subseteq Users
  /\ NoUser \notin Users /\ NoCode \notin Codes
  /\ NoDevice \notin Devices /\ NoRequest \notin Requests

VARIABLES
  pairCode,   (* Redis: the account a live code stands for                 *)
  minter,     (* the account each code was minted for                      *)
  closed,     (* accounts that are deleted                                 *)
  cap,        (* max_devices of the effective plan of each account         *)
  moved,      (* history: accounts of which it has changed                 *)
  owner,      (* Device.user_id of the committed rows                      *)
  deleted,    (* rows with deleted_at; their token_hash is gone with it    *)
  default,    (* rows with is_default                                      *)
  locker,     (* the request whose transaction locks each row              *)
  phase,      (* where each request is                                     *)
  user,       (* the account each request works for                        *)
  code,       (* the code each scan has taken                              *)
  room,       (* the max_devices that each pairing has read                *)
  count,      (* the number of devices each pairing has counted            *)
  target,     (* the device each edit has loaded                           *)
  todo,       (* rows a choice still has to clear                          *)
  raced,      (* pairings that overlapped another one of the same account  *)
  crossed     (* pairings that overlapped a choice of the same account     *)

table == <<owner, deleted, default>>
limits == <<cap, moved>>
request == <<user, code, room, count, target, todo>>
vars == <<pairCode, minter, closed, limits, table, locker, phase, request, raced, crossed>>

Phases == {"waiting", "redeemed", "counted", "loaded", "clearing", "flushed",
           "done", "refused", "failed"}
Ended == {"done", "refused", "failed"}

Written == {d \in Devices : owner[d] # NoUser}
Live(u) == {d \in Written \ deleted : owner[d] = u}
Busy(S, u) == {r \in S : user[r] = u /\ phase[r] \notin Ended \cup {"waiting", "redeemed"}}

-----------------------------------------------------------------------------
(* Codes.                                                                  *)

\* pair_start
Mint(c, u) ==
  /\ minter[c] = NoUser /\ u \notin closed
  /\ pairCode' = [pairCode EXCEPT ![c] = u]
  /\ minter' = [minter EXCEPT ![c] = u]
  /\ UNCHANGED <<closed, limits, table, locker, phase, request, raced, crossed>>

Expire(c) ==
  /\ pairCode[c] # NoUser
  /\ pairCode' = [pairCode EXCEPT ![c] = NoUser]
  /\ UNCHANGED <<minter, closed, limits, table, locker, phase, request, raced, crossed>>

\* Mutant: GET instead of GETDEL.
RedeemKeeps(s, c) ==
  /\ phase[s] = "waiting" /\ pairCode[c] # NoUser
  /\ user' = [user EXCEPT ![s] = pairCode[c]]
  /\ code' = [code EXCEPT ![s] = c]
  /\ phase' = [phase EXCEPT ![s] = "redeemed"]
  /\ UNCHANGED <<pairCode, minter, closed, limits, table, locker, room, count, target, todo, raced, crossed>>

Redeem(s, c) ==
  /\ phase[s] = "waiting" /\ pairCode[c] # NoUser
  /\ pairCode' = [pairCode EXCEPT ![c] = NoUser]
  /\ user' = [user EXCEPT ![s] = pairCode[c]]
  /\ code' = [code EXCEPT ![s] = c]
  /\ phase' = [phase EXCEPT ![s] = "redeemed"]
  /\ UNCHANGED <<minter, closed, limits, table, locker, room, count, target, todo, raced, crossed>>

-----------------------------------------------------------------------------
(* Pairing.                                                                *)

Ready(r) == IF r \in Scans THEN phase[r] = "redeemed" ELSE phase[r] = "waiting"
Account(r) == IF r \in Scans THEN user[r] ELSE Owner[r]

\* The limits that are read with the account are those of its plan, or of one
\* that changes while the request reads.
Reads(u, n) == moved' = IF n = cap[u] THEN moved ELSE moved \cup {u}

\* Mutant: an off-by-one at the cap.
BelowCapOrAt(u, n) == Cardinality(Live(u)) <= n
BelowCap(u, n) == Cardinality(Live(u)) < n

\* The code or the session is of a deleted account, or the plan is full.
Refuse(r, n) ==
  LET u == Account(r) IN
  /\ Ready(r) /\ (u \in closed \/ ~BelowCap(u, n))
  /\ Reads(u, n)
  /\ phase' = [phase EXCEPT ![r] = "refused"]
  /\ UNCHANGED <<pairCode, minter, closed, cap, table, locker, request, raced, crossed>>

Count(r, n) ==
  LET u == Account(r) IN
  /\ Ready(r) /\ u \notin closed /\ BelowCap(u, n)
  /\ Reads(u, n)
  /\ phase' = [phase EXCEPT ![r] = "counted"]
  /\ user' = [user EXCEPT ![r] = u]
  /\ room' = [room EXCEPT ![r] = n]
  /\ count' = [count EXCEPT ![r] = Cardinality(Live(u))]
  /\ raced' = IF Busy(Devices, u) = {} THEN raced ELSE raced \cup Busy(Devices, u) \cup {r}
  /\ crossed' = IF Busy(Choices, u) = {} THEN crossed ELSE crossed \cup {r}
  /\ UNCHANGED <<pairCode, minter, closed, cap, table, locker, code, target, todo>>

\* The insert, and the commit that shows it.
Enroll(r) ==
  /\ phase[r] = "counted"
  /\ owner' = [owner EXCEPT ![r] = user[r]]
  /\ default' = IF count[r] = 0 THEN default \cup {r} ELSE default
  /\ phase' = [phase EXCEPT ![r] = "done"]
  /\ UNCHANGED <<pairCode, minter, closed, limits, deleted, locker, request, raced, crossed>>

-----------------------------------------------------------------------------
(* Edits of a device that is there.                                        *)

Load(r, d) ==
  /\ phase[r] = "waiting" /\ Owner[r] \notin closed
  /\ d \in Live(Owner[r])
  /\ phase' = [phase EXCEPT ![r] = "loaded"]
  /\ user' = [user EXCEPT ![r] = Owner[r]]
  /\ target' = [target EXCEPT ![r] = d]
  /\ crossed' = IF r \in Choices THEN crossed \cup Busy(Devices, Owner[r]) ELSE crossed
  /\ UNCHANGED <<pairCode, minter, closed, limits, table, locker, code, room, count, todo, raced>>

Free(r, d) == locker[d] \in {r, NoRequest}

Selected(r) == Live(user[r])

\* The bulk update of a choice takes its snapshot.
Select(r) ==
  /\ phase[r] = "loaded"
  /\ phase' = [phase EXCEPT ![r] = "clearing"]
  /\ todo' = [todo EXCEPT ![r] = Selected(r)]
  /\ UNCHANGED <<pairCode, minter, closed, limits, table, locker, user, code, room, count, target, raced, crossed>>

\* A row that was unlinked meanwhile no longer qualifies.
Clear(r, d) ==
  /\ phase[r] = "clearing" /\ d \in todo[r] /\ Free(r, d)
  /\ todo' = [todo EXCEPT ![r] = @ \ {d}]
  /\ locker' = IF d \in deleted THEN locker ELSE [locker EXCEPT ![d] = r]
  /\ UNCHANGED <<pairCode, minter, closed, limits, table, phase, user, code, room, count, target, raced, crossed>>

\* The update of the loaded row, by its primary key.
Flush(r) ==
  /\ \/ r \in Choices /\ phase[r] = "clearing" /\ todo[r] = {}
     \/ r \notin Choices /\ phase[r] = "loaded"
  /\ Free(r, target[r])
  /\ locker' = [locker EXCEPT ![target[r]] = r]
  /\ phase' = [phase EXCEPT ![r] = "flushed"]
  /\ UNCHANGED <<pairCode, minter, closed, limits, table, request, raced, crossed>>

Locked(r) == {d \in Devices : locker[d] = r}
Unlock(r) == locker' = [d \in Devices |-> IF locker[d] = r THEN NoRequest ELSE locker[d]]

\* Mutants: the flush writes the whole row as it was loaded; the bulk update of
\* a choice is left out.
DeletedByWholeRow(r) ==
  IF r \in Deletes THEN deleted \cup {target[r]} ELSE deleted \ {target[r]}
DefaultsAdd(r) == IF r \in Choices THEN default \cup {target[r]} ELSE default

DeletedAfter(r) == IF r \in Deletes THEN deleted \cup {target[r]} ELSE deleted
DefaultAfter(r) == IF r \in Choices THEN (default \ Locked(r)) \cup {target[r]} ELSE default

Commit(r) ==
  /\ phase[r] = "flushed"
  /\ deleted' = DeletedAfter(r)
  /\ default' = DefaultAfter(r)
  /\ phase' = [phase EXCEPT ![r] = "done"]
  /\ Unlock(r)
  /\ UNCHANGED <<pairCode, minter, closed, limits, owner, request, raced, crossed>>

-----------------------------------------------------------------------------
\* An error, a client that hangs up, a crash, or the victim of a deadlock.
Rollback(r) ==
  /\ phase[r] \notin Ended \cup {"waiting"}
  /\ phase' = [phase EXCEPT ![r] = "failed"]
  /\ Unlock(r)
  /\ UNCHANGED <<pairCode, minter, closed, limits, table, request, raced, crossed>>

\* An administrator deletes an account, or restores it.
CloseAccount(u) ==
  /\ closed' = IF u \in closed THEN closed \ {u} ELSE closed \cup {u}
  /\ UNCHANGED <<pairCode, minter, limits, table, locker, phase, request, raced, crossed>>

-----------------------------------------------------------------------------
(* The plan, beside the requests.                                          *)

\* An activation, the end of the paid time, a revocation, or an administrator's
\* edit of the account or of the plan.
ChangeCap(u, n) ==
  /\ n # cap[u]
  /\ cap' = [cap EXCEPT ![u] = n]
  /\ moved' = moved \cup {u}
  /\ UNCHANGED <<pairCode, minter, closed, table, locker, phase, request, raced, crossed>>

\* Requests that never come, or find nothing to act on.
Rest ==
  /\ \A r \in Requests : phase[r] \in Ended \cup {"waiting"}
  /\ UNCHANGED vars

Init ==
  /\ pairCode = [c \in Codes |-> NoUser] /\ minter = [c \in Codes |-> NoUser]
  /\ closed = {}
  /\ cap = FirstCap /\ moved = {}
  /\ owner = [d \in Devices |-> NoUser]
  /\ deleted = {} /\ default = {}
  /\ locker = [d \in Devices |-> NoRequest]
  /\ phase = [r \in Requests |-> "waiting"]
  /\ user = [r \in Requests |-> NoUser]
  /\ code = [s \in Scans |-> NoCode]
  /\ room = [r \in Devices |-> 0]
  /\ count = [r \in Devices |-> 0]
  /\ target = [r \in Edits |-> NoDevice]
  /\ todo = [r \in Choices |-> {}]
  /\ raced = {} /\ crossed = {}

Next ==
  \/ \E c \in Codes, u \in Users : Mint(c, u)
  \/ \E c \in Codes : Expire(c)
  \/ \E s \in Scans, c \in Codes : Redeem(s, c)
  \/ \E r \in Devices, n \in Caps : Refuse(r, n) \/ Count(r, n)
  \/ \E r \in Devices : Enroll(r)
  \/ \E r \in Edits, d \in Devices : Load(r, d)
  \/ \E r \in Choices : Select(r) \/ \E d \in Devices : Clear(r, d)
  \/ \E r \in Edits : Flush(r) \/ Commit(r)
  \/ \E r \in Requests : Rollback(r)
  \/ \E u \in Closable : CloseAccount(u)
  \/ \E u \in Users, n \in Caps : ChangeCap(u, n)
  \/ Rest

Spec == Init /\ [][Next]_vars

-----------------------------------------------------------------------------
(* What pairing promises.                                                  *)

\* Every variable keeps its shape; flags and deletions are of rows that exist.
TypeOK ==
  /\ pairCode \in [Codes -> Users \cup {NoUser}]
  /\ minter \in [Codes -> Users \cup {NoUser}]
  /\ closed \subseteq Closable
  /\ cap \in [Users -> Caps] /\ moved \subseteq Users
  /\ owner \in [Devices -> Users \cup {NoUser}]
  /\ deleted \subseteq Written /\ default \subseteq Written
  /\ locker \in [Devices -> Edits \cup {NoRequest}]
  /\ phase \in [Requests -> Phases]
  /\ user \in [Requests -> Users \cup {NoUser}]
  /\ code \in [Scans -> Codes \cup {NoCode}]
  /\ room \in [Devices -> Nat] /\ count \in [Devices -> Nat]
  /\ target \in [Edits -> Devices \cup {NoDevice}]
  /\ todo \in [Choices -> SUBSET Devices]
  /\ raced \subseteq Devices /\ crossed \subseteq Devices

\* A code pairs one phone at most, even under concurrent scans, and pairs it
\* with the account that showed the code.
CodeUsedOnce ==
  \A s \in Scans : code[s] # NoCode =>
    /\ \A t \in Scans : code[t] = code[s] => t = s
    /\ owner[s] \in {NoUser, minter[code[s]]}

\* The plan's cap holds except for what overlapping pairings slip past it, and
\* for phones that were paired under an earlier cap: leaving overlapping ones
\* aside, an account has no more live phones than its plan allows while the cap
\* has not changed, and never more than the cap that one of them was paired
\* under.
CapButForRaces ==
  \A u \in Users : LET phones == Live(u) \ raced IN
    /\ u \notin moved => Cardinality(phones) <= cap[u]
    /\ phones # {} => \E d \in phones : Cardinality(phones) <= room[d]

\* An account has one default device at most, unless a pairing overlapped
\* another pairing or a choice: choices among themselves, and with deletions,
\* serialise on the rows they clear.
OneDefaultButForRaces ==
  \A u \in Users : Cardinality((default \cap Live(u)) \ (raced \cup crossed)) <= 1

\* An unlinked phone stays unlinked, whatever choice had loaded its row
\* before.
DeletedStaysDeleted == [][deleted \subseteq deleted']_vars
=============================================================================
