---------------------- MODULE DevicesAndContactsProofs ----------------------
(***************************************************************************)
(* What pairing and the address book promise, for every set of accounts,   *)
(* codes, groups and requests and whatever caps a plan may have.           *)
(*                                                                         *)
(* The promises about the cap and the default rest on what a request knows *)
(* when it writes: a pairing that overlapped no other still has the room   *)
(* it has counted, and a choice holds the lock of every row of its account *)
(* but those of pairings that overlapped it.                               *)
(*                                                                         *)
(* So do those about memberships: between its sweep and its commit a       *)
(* deletion, and a save that overlaps no other, holds the lock of every    *)
(* membership of the row it works on or has it still to delete, but for    *)
(* those of saves that know they overlapped.                               *)
(***************************************************************************)
EXTENDS DevicesAndContacts, FiniteSetTheorems, TLAPS

Working == {"loaded", "clearing", "flushed"}

\* What a request is about, by the phase it is in.
Started ==
  /\ \A r \in Requests : phase[r] \in Working \cup {"redeemed", "counted"} => user[r] \in Users
  /\ \A d \in Devices :
       /\ phase[d] \in {"waiting", "redeemed", "counted"} => owner[d] = NoUser
       /\ phase[d] \notin Working
  /\ \A r \in Edits :
       /\ phase[r] \in Working => target[r] \in Written /\ owner[target[r]] = user[r]
       /\ phase[r] \notin {"redeemed", "counted"}
  /\ \A c \in Choices : phase[c] = "flushed" => todo[c] = {}
  /\ IsFiniteSet(Written)

\* A code is live before it is taken, and whoever took it works for its account.
CodesTaken ==
  /\ \A c \in Codes : pairCode[c] # NoUser =>
       pairCode[c] = minter[c] /\ \A s \in Scans : code[s] # c
  /\ \A s \in Scans :
       /\ code[s] # NoCode => minter[code[s]] # NoUser /\ user[s] = minter[code[s]]
       /\ phase[s] = "waiting" => code[s] = NoCode
       /\ owner[s] \in {NoUser, user[s]}

\* Pairings of one account that overlap know it.
Aware ==
  \A r, q \in Devices :
    r # q /\ phase[r] = "counted" /\ phase[q] = "counted" /\ user[r] = user[q] => r \in raced

\* A pairing that overlaps no other has the room that it has counted.
Fits ==
  \A r \in Devices \ raced, u \in Users : phase[r] = "counted" /\ user[r] = u =>
    /\ Cardinality(Live(u)) < room[r]
    /\ count[r] = 0 => Live(u) = {}

\* Where the cap has not changed, pairings have read the one that is there, and
\* it holds.
Honest ==
  \A r \in Devices, u \in Users \ moved : phase[r] = "counted" /\ user[r] = u => room[r] = cap[u]
Within == \A u \in Users \ moved : Cardinality(Live(u) \ raced) <= cap[u]

\* However many of the phones are unlinked, the rest fits the cap that one of
\* them was paired under.
Chain ==
  \A u \in Users : \A S \in SUBSET (Live(u) \ raced) :
    S # {} => \E d \in S : Cardinality(S) <= room[d]

\* A pairing and a choice that overlap know it.
Crossing ==
  \A r \in Devices, c \in Choices :
    phase[r] = "counted" /\ phase[c] \in Working /\ user[r] = user[c] => r \in crossed

\* A choice holds the lock of every device that it has not still to clear.
Locking ==
  \A c \in Choices, u \in Users : phase[c] \in {"clearing", "flushed"} /\ user[c] = u =>
    \A d \in Live(u) : d \in todo[c] \cup crossed \/ locker[d] = c

Undisturbed(u) == (default \cap Live(u)) \ (raced \cup crossed)
OneDefault == \A u \in Users : \A d, e \in Undisturbed(u) : d = e

Inv ==
  /\ TypeOK /\ Started
  /\ CodesTaken /\ CodeUsedOnce
  /\ Aware /\ Fits /\ Honest /\ Within /\ Chain
  /\ Crossing /\ Locking /\ OneDefault

-----------------------------------------------------------------------------

\* The live devices of an account can be counted.
LEMMA LiveFinite ==
  ASSUME Started, NEW u
  PROVE  IsFiniteSet(Live(u)) /\ Cardinality(Live(u)) \in Nat
<1>1. Live(u) \in SUBSET Written
  BY DEF Live
<1> QED BY <1>1, FS_Subset, FS_CardinalityType DEF Started

LEMMA InitInv == Init => Inv
<1> SUFFICES ASSUME Init PROVE Inv
  OBVIOUS
<1> USE DevicePairingAssumption DEF Init, Requests, Devices, Edits
<1>0. Written = {}
  BY DEF Written
<1>1. TypeOK
  BY DEF TypeOK, Phases
<1>2. Started
  BY <1>0, FS_EmptySet DEF Started, Working
<1>3. CodesTaken /\ CodeUsedOnce
  BY DEF CodesTaken, CodeUsedOnce
<1>4. \A u : Live(u) = {}
  BY <1>0 DEF Live
<1>5. Within /\ Chain
  <2>1. \A u : Live(u) \ raced = {}
    BY <1>4
  <2>2. \A u : Cardinality(Live(u) \ raced) = 0
    BY <2>1, FS_EmptySet
  <2>3. \A u \in Users : cap[u] \in Nat
    OBVIOUS
  <2> HIDE DEF Init
  <2>4. Within
    BY <2>2, <2>3 DEF Within
  <2>5. Chain
    BY <2>1 DEF Chain
  <2> QED BY <2>4, <2>5
<1>6. Aware /\ Fits /\ Honest /\ Crossing /\ Locking
  BY DEF Aware, Fits, Honest, Crossing, Locking, Working
<1>7. OneDefault
  BY <1>4 DEF OneDefault, Undisturbed
<1> QED BY <1>1, <1>2, <1>3, <1>5, <1>6, <1>7 DEF Inv

\* Every step keeps the shape of the variables.
LEMMA TypeStep ==
  ASSUME TypeOK, Started, [Next]_vars
  PROVE  TypeOK'
<1> USE DevicePairingAssumption DEF TypeOK, Phases, Ended, Written, Requests, Devices, Edits, limits, table, request
<1>1. ASSUME NEW c \in Codes, NEW u \in Users, Mint(c, u) PROVE TypeOK'
  BY <1>1 DEF Mint
<1>2. ASSUME NEW c \in Codes, Expire(c) PROVE TypeOK'
  BY <1>2 DEF Expire
<1>3. ASSUME NEW s \in Scans, NEW c \in Codes, Redeem(s, c) PROVE TypeOK'
  BY <1>3 DEF Redeem
<1>4. ASSUME NEW r \in Devices, NEW n \in Caps, Refuse(r, n) PROVE TypeOK'
  <2>1. Account(r) \in Users
    BY <1>4 DEF Refuse, Ready, Account, Started
  <2>2. moved' \subseteq Users /\ cap' = cap
    BY <1>4, <2>1 DEF Refuse, Reads
  <2> QED BY <1>4, <2>2 DEF Refuse
<1>5. ASSUME NEW r \in Devices, NEW n \in Caps, Count(r, n) PROVE TypeOK'
  <2>1. Account(r) \in Users /\ Cardinality(Live(Account(r))) \in Nat
    BY <1>5, LiveFinite DEF Count, Ready, Account, Started
  <2>2. moved' \subseteq Users /\ cap' = cap
    BY <1>5, <2>1 DEF Count, Reads
  <2>3. raced' \subseteq Devices /\ crossed' \subseteq Devices
    BY <1>5 DEF Count, Busy
  <2>4. user' \in [Requests -> Users \cup {NoUser}] /\ room' \in [Devices -> Nat] /\ count' \in [Devices -> Nat]
    BY <1>5, <2>1 DEF Count
  <2> QED BY <1>5, <2>2, <2>3, <2>4 DEF Count
<1>6. ASSUME NEW r \in Devices, Enroll(r) PROVE TypeOK'
  BY <1>6 DEF Enroll, Started
<1>7. ASSUME NEW r \in Edits, NEW d \in Devices, Load(r, d) PROVE TypeOK'
  BY <1>7 DEF Load, Live, Busy
<1>8. ASSUME NEW r \in Choices, Select(r) PROVE TypeOK'
  BY <1>8 DEF Select, Selected, Live
<1>9. ASSUME NEW r \in Choices, NEW d \in Devices, Clear(r, d) PROVE TypeOK'
  BY <1>9 DEF Clear
<1>10. ASSUME NEW r \in Edits, Flush(r) PROVE TypeOK'
  BY <1>10 DEF Flush
<1>11. ASSUME NEW r \in Edits, Commit(r) PROVE TypeOK'
  BY <1>11 DEF Commit, DeletedAfter, DefaultAfter, Unlock, Locked, Started, Working
<1>12. ASSUME NEW r \in Requests, Rollback(r) PROVE TypeOK'
  BY <1>12 DEF Rollback, Unlock
<1>13. ASSUME NEW u \in Closable, CloseAccount(u) PROVE TypeOK'
  BY <1>13 DEF CloseAccount
<1>15. ASSUME NEW u \in Users, NEW n \in Caps, ChangeCap(u, n) PROVE TypeOK'
  BY <1>15 DEF ChangeCap
<1>14. CASE Rest \/ UNCHANGED vars
  BY <1>14 DEF Rest, vars
<1> QED BY <1>1, <1>2, <1>3, <1>4, <1>5, <1>6, <1>7, <1>8, <1>9, <1>10, <1>11, <1>12, <1>13, <1>14, <1>15 DEF Next

\* What requests are about, step by step.
LEMMA StartedStep ==
  ASSUME TypeOK, TypeOK', Started, [Next]_vars
  PROVE  Started'
<1> USE DevicePairingAssumption DEF TypeOK, Phases, Ended, Started, Working, Written, Requests, Devices, Edits, limits, table, request
<1>1. ASSUME NEW c \in Codes, NEW u \in Users, Mint(c, u) PROVE Started'
  BY <1>1 DEF Mint
<1>2. ASSUME NEW c \in Codes, Expire(c) PROVE Started'
  BY <1>2 DEF Expire
<1>3. ASSUME NEW s \in Scans, NEW c \in Codes, Redeem(s, c) PROVE Started'
  BY <1>3 DEF Redeem
<1>4. ASSUME NEW r \in Devices, NEW n \in Caps, Refuse(r, n) PROVE Started'
  BY <1>4 DEF Refuse, Ready
<1>5. ASSUME NEW r \in Devices, NEW n \in Caps, Count(r, n) PROVE Started'
  BY <1>5 DEF Count, Ready, Account
<1>6. ASSUME NEW r \in Devices, Enroll(r) PROVE Started'
  <2>1. Written' = Written \cup {r} /\ IsFiniteSet(Written)
    BY <1>6 DEF Enroll
  <2> HIDE DEF Written
  <2>2. IsFiniteSet(Written')
    BY <2>1, FS_AddElement
  <2> USE DEF Written
  <2> QED BY <1>6, <2>2 DEF Enroll
<1>7. ASSUME NEW r \in Edits, NEW d \in Devices, Load(r, d) PROVE Started'
  BY <1>7 DEF Load, Live
<1>8. ASSUME NEW r \in Choices, Select(r) PROVE Started'
  BY <1>8 DEF Select, Selected
<1>9. ASSUME NEW r \in Choices, NEW d \in Devices, Clear(r, d) PROVE Started'
  BY <1>9 DEF Clear
<1>10. ASSUME NEW r \in Edits, Flush(r) PROVE Started'
  BY <1>10 DEF Flush
<1>11. ASSUME NEW r \in Edits, Commit(r) PROVE Started'
  BY <1>11 DEF Commit, DeletedAfter, DefaultAfter, Unlock, Locked
<1>12. ASSUME NEW r \in Requests, Rollback(r) PROVE Started'
  BY <1>12 DEF Rollback, Unlock
<1>13. ASSUME NEW u \in Closable, CloseAccount(u) PROVE Started'
  BY <1>13 DEF CloseAccount
<1>15. ASSUME NEW u \in Users, NEW n \in Caps, ChangeCap(u, n) PROVE Started'
  BY <1>15 DEF ChangeCap
<1>14. CASE Rest \/ UNCHANGED vars
  <2>1. UNCHANGED vars
    BY <1>14 DEF Rest
  <2>2. UNCHANGED <<user, owner, target, phase, todo>> /\ Written' = Written
    BY <2>1 DEF vars
  <2> QED BY <2>2
<1> QED BY <1>1, <1>2, <1>3, <1>4, <1>5, <1>6, <1>7, <1>8, <1>9, <1>10, <1>11, <1>12, <1>13, <1>14, <1>15 DEF Next

\* A code is taken once.
LEMMA CodesStep ==
  ASSUME TypeOK, Started, CodesTaken, CodeUsedOnce, [Next]_vars
  PROVE  (CodesTaken /\ CodeUsedOnce)'
<1> USE DevicePairingAssumption DEF TypeOK, Started, Working, CodesTaken, CodeUsedOnce, Ended, Requests, Devices, Edits, limits, table, request
<1>1. ASSUME NEW c \in Codes, NEW u \in Users, Mint(c, u) PROVE (CodesTaken /\ CodeUsedOnce)'
  BY <1>1 DEF Mint
<1>2. ASSUME NEW c \in Codes, Expire(c) PROVE (CodesTaken /\ CodeUsedOnce)'
  BY <1>2 DEF Expire
<1>3. ASSUME NEW s \in Scans, NEW c \in Codes, Redeem(s, c) PROVE (CodesTaken /\ CodeUsedOnce)'
  BY <1>3 DEF Redeem
<1>4. ASSUME NEW r \in Devices, NEW n \in Caps, Refuse(r, n) PROVE (CodesTaken /\ CodeUsedOnce)'
  BY <1>4 DEF Refuse, Ready
<1>5. ASSUME NEW r \in Devices, NEW n \in Caps, Count(r, n) PROVE (CodesTaken /\ CodeUsedOnce)'
  BY <1>5 DEF Count, Ready, Account
<1>6. ASSUME NEW r \in Devices, Enroll(r) PROVE (CodesTaken /\ CodeUsedOnce)'
  BY <1>6 DEF Enroll
<1>7. ASSUME NEW r \in Edits, NEW d \in Devices, Load(r, d) PROVE (CodesTaken /\ CodeUsedOnce)'
  BY <1>7 DEF Load
<1>8. ASSUME NEW r \in Choices, Select(r) PROVE (CodesTaken /\ CodeUsedOnce)'
  BY <1>8 DEF Select, Selected
<1>9. ASSUME NEW r \in Choices, NEW d \in Devices, Clear(r, d) PROVE (CodesTaken /\ CodeUsedOnce)'
  BY <1>9 DEF Clear
<1>10. ASSUME NEW r \in Edits, Flush(r) PROVE (CodesTaken /\ CodeUsedOnce)'
  BY <1>10 DEF Flush
<1>11. ASSUME NEW r \in Edits, Commit(r) PROVE (CodesTaken /\ CodeUsedOnce)'
  BY <1>11 DEF Commit, DeletedAfter, DefaultAfter, Unlock, Locked
<1>12. ASSUME NEW r \in Requests, Rollback(r) PROVE (CodesTaken /\ CodeUsedOnce)'
  BY <1>12 DEF Rollback, Unlock
<1>13. ASSUME NEW u \in Closable, CloseAccount(u) PROVE (CodesTaken /\ CodeUsedOnce)'
  BY <1>13 DEF CloseAccount
<1>15. ASSUME NEW u \in Users, NEW n \in Caps, ChangeCap(u, n) PROVE (CodesTaken /\ CodeUsedOnce)'
  BY <1>15 DEF ChangeCap
<1>14. CASE Rest \/ UNCHANGED vars
  BY <1>14 DEF Rest, vars
<1> QED BY <1>1, <1>2, <1>3, <1>4, <1>5, <1>6, <1>7, <1>8, <1>9, <1>10, <1>11, <1>12, <1>13, <1>14, <1>15 DEF Next

-----------------------------------------------------------------------------
(* What a step does to the live devices of an account.                     *)

LEMMA LiveKept ==
  ASSUME UNCHANGED <<owner, deleted>>, NEW u
  PROVE  Live(u)' = Live(u)
BY DEF Live, Written

LEMMA LiveGrows ==
  ASSUME TypeOK, Started, NEW r \in Devices, Enroll(r), NEW u \in Users
  PROVE  /\ user[r] \in Users
         /\ r \notin Live(u)
         /\ Live(u)' = IF u = user[r] THEN Live(u) \cup {r} ELSE Live(u)
BY DevicePairingAssumption DEF TypeOK, Started, Enroll, Live, Written, table, request, Requests

LEMMA LiveShrinks ==
  ASSUME TypeOK, Started, NEW r \in Edits, Commit(r), NEW u
  PROVE  Live(u)' \subseteq Live(u)
BY DEF TypeOK, Commit, DeletedAfter, Live, Written, table, request

\* A step that neither begins nor ends a pairing: it shows no new device, and
\* leaves the pairings and what is known of their overlaps.
Calm ==
  /\ \A u \in Users : Live(u)' \subseteq Live(u)
  /\ raced' = raced /\ crossed \subseteq crossed' /\ room' = room
  /\ moved \subseteq moved' /\ \A u \in Users \ moved' : cap'[u] = cap[u]
  /\ \A r \in Devices : phase'[r] = "counted" =>
       phase[r] = "counted" /\ user'[r] = user[r] /\ count'[r] = count[r]

LEMMA CalmStep ==
  ASSUME TypeOK, Started, [Next]_vars,
         ~ \E r \in Devices : Enroll(r) \/ \E n \in Caps : Count(r, n)
  PROVE  Calm
<1> USE DevicePairingAssumption DEF Calm, TypeOK, Started, Ended, Working, Requests, Devices, Edits, limits, table, request
<1>1. ASSUME NEW c \in Codes, NEW u \in Users, Mint(c, u) PROVE Calm
  <2>1. \A a \in Users : Live(a)' = Live(a)
    BY <1>1, LiveKept DEF Mint
  <2> QED BY <1>1, <2>1 DEF Mint
<1>2. ASSUME NEW c \in Codes, Expire(c) PROVE Calm
  <2>1. \A u \in Users : Live(u)' = Live(u)
    BY <1>2, LiveKept DEF Expire
  <2> QED BY <1>2, <2>1 DEF Expire
<1>3. ASSUME NEW s \in Scans, NEW c \in Codes, Redeem(s, c) PROVE Calm
  <2>1. \A u \in Users : Live(u)' = Live(u)
    BY <1>3, LiveKept DEF Redeem
  <2> QED BY <1>3, <2>1 DEF Redeem
<1>4. ASSUME NEW r \in Devices, NEW n \in Caps, Refuse(r, n) PROVE Calm
  <2>1. \A u \in Users : Live(u)' = Live(u)
    BY <1>4, LiveKept DEF Refuse, Ready
  <2> QED BY <1>4, <2>1 DEF Refuse, Reads, Ready, Account
<1>5. ASSUME NEW r \in Edits, NEW d \in Devices, Load(r, d) PROVE Calm
  <2>1. \A u \in Users : Live(u)' = Live(u)
    BY <1>5, LiveKept DEF Load
  <2> QED BY <1>5, <2>1 DEF Load
<1>6. ASSUME NEW r \in Choices, Select(r) PROVE Calm
  <2>1. \A u \in Users : Live(u)' = Live(u)
    BY <1>6, LiveKept DEF Select
  <2> QED BY <1>6, <2>1 DEF Select
<1>7. ASSUME NEW r \in Choices, NEW d \in Devices, Clear(r, d) PROVE Calm
  <2>1. \A u \in Users : Live(u)' = Live(u)
    BY <1>7, LiveKept DEF Clear
  <2> QED BY <1>7, <2>1 DEF Clear
<1>8. ASSUME NEW r \in Edits, Flush(r) PROVE Calm
  <2>1. \A u \in Users : Live(u)' = Live(u)
    BY <1>8, LiveKept DEF Flush
  <2> QED BY <1>8, <2>1 DEF Flush
<1>9. ASSUME NEW r \in Edits, Commit(r) PROVE Calm
  <2>1. \A u \in Users : Live(u)' \subseteq Live(u)
    BY <1>9, LiveShrinks
  <2> QED BY <1>9, <2>1 DEF Commit
<1>10. ASSUME NEW r \in Requests, Rollback(r) PROVE Calm
  <2>1. \A u \in Users : Live(u)' = Live(u)
    BY <1>10, LiveKept DEF Rollback
  <2> QED BY <1>10, <2>1 DEF Rollback
<1>11. ASSUME NEW u \in Closable, CloseAccount(u) PROVE Calm
  <2>1. \A a \in Users : Live(a)' = Live(a)
    BY <1>11, LiveKept DEF CloseAccount
  <2> QED BY <1>11, <2>1 DEF CloseAccount
<1>13. ASSUME NEW u \in Users, NEW n \in Caps, ChangeCap(u, n) PROVE Calm
  <2>1. \A a \in Users : Live(a)' = Live(a)
    BY <1>13, LiveKept DEF ChangeCap
  <2> QED BY <1>13, <2>1 DEF ChangeCap
<1>12. CASE Rest \/ UNCHANGED vars
  <2>1. \A u \in Users : Live(u)' = Live(u)
    BY <1>12, LiveKept DEF Rest, vars
  <2> QED BY <1>12, <2>1 DEF Rest, vars
<1> QED BY <1>1, <1>2, <1>3, <1>4, <1>5, <1>6, <1>7, <1>8, <1>9, <1>10, <1>11, <1>12, <1>13 DEF Next

LEMMA AwareStep ==
  ASSUME TypeOK, Started, Aware, [Next]_vars
  PROVE  Aware'
<1> USE DEF Aware, TypeOK, Started, Requests, Devices, table, request
<1>1. ASSUME NEW r \in Devices, NEW n \in Caps, Count(r, n) PROVE Aware'
  BY <1>1 DEF Count, Ready, Account, Busy, Ended
<1>2. ASSUME NEW r \in Devices, Enroll(r) PROVE Aware'
  BY <1>2 DEF Enroll
<1>3. CASE Calm
  BY <1>3 DEF Calm
<1> QED BY <1>1, <1>2, <1>3, CalmStep

\* A pairing that knows of no other cannot have its room taken.
LEMMA FitsStep ==
  ASSUME TypeOK, Started, Aware, Fits, [Next]_vars
  PROVE  Fits'
<1> USE DevicePairingAssumption DEF TypeOK, Started
<1>0. \A u \in Users : IsFiniteSet(Live(u)) /\ Cardinality(Live(u)) \in Nat
  BY LiveFinite
<1>1. ASSUME NEW r \in Devices, NEW n \in Caps, Count(r, n) PROVE Fits'
  <2> SUFFICES ASSUME NEW q \in Devices, q \notin raced', NEW u \in Users,
                      phase'[q] = "counted", user'[q] = u
               PROVE  /\ Cardinality(Live(u)') < room'[q]
                      /\ count'[q] = 0 => Live(u)' = {}
    BY DEF Fits
  <2>1. \A a \in Users : Live(a)' = Live(a)
    BY <1>1, LiveKept DEF Count, table
  <2>2. Account(r) \in Users /\ BelowCap(Account(r), n)
    BY <1>1 DEF Count, Ready, Account, Requests, Devices
  <2>3. Cardinality(Live(Account(r))) = 0 => Live(Account(r)) = {}
    BY <1>0, <2>2, FS_EmptySet
  <2>4. \A p \in Devices : /\ phase'[p] = "counted" => p = r \/ phase[p] = "counted"
                           /\ p # r => user'[p] = user[p] /\ count'[p] = count[p] /\ room'[p] = room[p]
    BY <1>1 DEF Count, Requests, Devices
  <2>5. phase'[r] = "counted" /\ user'[r] = Account(r) /\ count'[r] = Cardinality(Live(Account(r))) /\ room'[r] = n
    BY <1>1 DEF Count, Requests, Devices
  <2>6. raced \subseteq raced'
    BY <1>1 DEF Count
  <2>7. CASE q = r
    BY <2>1, <2>2, <2>3, <2>5, <2>7 DEF BelowCap
  <2>8. CASE q # r
    <3>1. /\ phase[q] = "counted" /\ user[q] = u /\ q \in Devices \ raced
          /\ count'[q] = count[q] /\ room'[q] = room[q]
      BY <2>4, <2>6, <2>8
    <3>2. Cardinality(Live(u)) < room[q] /\ (count[q] = 0 => Live(u) = {})
      BY <3>1 DEF Fits
    <3>3. Live(u)' = Live(u)
      BY <2>1
    <3> QED BY <3>1, <3>2, <3>3
  <2> QED BY <2>7, <2>8
<1>2. ASSUME NEW r \in Devices, Enroll(r) PROVE Fits'
  <2> SUFFICES ASSUME NEW q \in Devices, q \notin raced', NEW u \in Users,
                      phase'[q] = "counted", user'[q] = u
               PROVE  /\ Cardinality(Live(u)') < room'[q]
                      /\ count'[q] = 0 => Live(u)' = {}
    BY DEF Fits
  <2>1. \A a \in Users : Live(a)' = IF a = user[r] THEN Live(a) \cup {r} ELSE Live(a)
    BY <1>2, LiveGrows
  <2>2. \A p \in Devices \ raced : phase'[p] = "counted" =>
          phase[p] = "counted" /\ p # r /\ user[p] # user[r]
    BY <1>2 DEF Enroll, Aware, Requests, Devices
  <2>3. UNCHANGED <<user, room, count, raced>>
    BY <1>2 DEF Enroll, request
  <2>4. /\ q \in Devices \ raced /\ phase[q] = "counted"
        /\ user[q] = u /\ u # user[r] /\ count'[q] = count[q] /\ room'[q] = room[q]
    BY <2>2, <2>3
  <2>5. Live(u)' = Live(u)
    BY <2>1, <2>4
  <2>6. Cardinality(Live(u)) < room[q] /\ (count[q] = 0 => Live(u) = {})
    BY <2>4 DEF Fits
  <2> QED BY <2>4, <2>5, <2>6
<1>3. CASE Calm
  <2> SUFFICES ASSUME NEW q \in Devices, q \notin raced', NEW u \in Users,
                      phase'[q] = "counted", user'[q] = u
               PROVE  /\ Cardinality(Live(u)') < room'[q]
                      /\ count'[q] = 0 => Live(u)' = {}
    BY DEF Fits
  <2>1. \A a \in Users : Cardinality(Live(a)') <= Cardinality(Live(a)) /\ Cardinality(Live(a)') \in Nat
    BY <1>0, <1>3, FS_Subset, FS_CardinalityType DEF Calm
  <2>2. /\ phase[q] = "counted" /\ user[q] = u /\ q \in Devices \ raced
        /\ count'[q] = count[q] /\ room'[q] = room[q]
    BY <1>3 DEF Calm
  <2>3. Cardinality(Live(u)) < room[q] /\ (count[q] = 0 => Live(u) = {})
    BY <2>2 DEF Fits
  <2>4. Live(u)' \subseteq Live(u)
    BY <1>3 DEF Calm
  <2> QED BY <1>0, <2>1, <2>2, <2>3, <2>4
<1> QED BY <1>1, <1>2, <1>3, CalmStep

LEMMA HonestStep ==
  ASSUME TypeOK, Started, Honest, [Next]_vars
  PROVE  Honest'
<1> USE DEF Honest, TypeOK, Started, Requests, Devices, limits, table, request
<1>1. ASSUME NEW r \in Devices, NEW n \in Caps, Count(r, n) PROVE Honest'
  BY <1>1 DEF Count, Reads
<1>2. ASSUME NEW r \in Devices, Enroll(r) PROVE Honest'
  BY <1>2 DEF Enroll
<1>3. CASE Calm
  BY <1>3 DEF Calm
<1> QED BY <1>1, <1>2, <1>3, CalmStep

\* A pairing that overlapped no other adds its phone to those that it counted.
LEMMA OneMore ==
  ASSUME TypeOK, Started, Fits, NEW r \in Devices \ raced, Enroll(r),
         NEW u \in Users, user[r] = u, NEW S \in SUBSET Live(u)'
  PROVE  IsFiniteSet(S) /\ Cardinality(S) \in Nat /\ Cardinality(S) <= room[r]
<1> DEFINE Grown == Live(u) \cup {r}
<1>1. phase[r] = "counted" /\ room[r] \in Nat
  BY DEF Enroll, TypeOK
<1>2. S \in SUBSET Grown
  BY LiveGrows
<1>3. /\ IsFiniteSet(Live(u)) /\ Cardinality(Live(u)) \in Nat
      /\ Cardinality(Live(u)) < room[r]
  BY <1>1, LiveFinite DEF Fits
<1>4. /\ IsFiniteSet(Grown)
      /\ Cardinality(Grown) =
           IF r \in Live(u) THEN Cardinality(Live(u)) ELSE Cardinality(Live(u)) + 1
  BY <1>3, FS_AddElement
<1>5. Cardinality(Grown) <= room[r] /\ Cardinality(Grown) \in Nat
  BY <1>1, <1>3, <1>4
<1> HIDE DEF Grown
<1>6. IsFiniteSet(S) /\ Cardinality(S) \in Nat /\ Cardinality(S) <= Cardinality(Grown)
  BY <1>2, <1>4, FS_Subset, FS_CardinalityType
<1> QED BY <1>1, <1>5, <1>6

\* While its cap stays, an account has more devices than it allows by races only.
LEMMA WithinStep ==
  ASSUME TypeOK, Started, Fits, Honest, Within, [Next]_vars
  PROVE  Within'
<1> SUFFICES ASSUME NEW u \in Users, u \notin moved'
             PROVE  Cardinality(Live(u)' \ raced') <= cap'[u]
  BY DEF Within
<1>0. u \notin moved /\ cap'[u] = cap[u]
  <2>1. ASSUME NEW r \in Devices, NEW n \in Caps, Count(r, n) PROVE u \notin moved /\ cap'[u] = cap[u]
    BY <2>1 DEF Count, Reads
  <2>2. ASSUME NEW r \in Devices, Enroll(r) PROVE u \notin moved /\ cap'[u] = cap[u]
    BY <2>2 DEF Enroll, limits
  <2>3. CASE Calm
    BY <2>3 DEF Calm
  <2> QED BY <2>1, <2>2, <2>3, CalmStep
<1>1. /\ IsFiniteSet(Live(u) \ raced) /\ Cardinality(Live(u) \ raced) <= cap[u]
      /\ Cardinality(Live(u) \ raced) \in Nat /\ cap[u] \in Nat
  BY <1>0, LiveFinite, FS_Subset, FS_CardinalityType, DevicePairingAssumption DEF Within, TypeOK
<1>2. CASE Live(u)' \ raced' \subseteq Live(u) \ raced
  BY <1>0, <1>1, <1>2, FS_Subset, FS_CardinalityType
<1>3. ASSUME NEW r \in Devices, NEW n \in Caps, Count(r, n) PROVE Live(u)' \ raced' \subseteq Live(u) \ raced
  BY <1>3, LiveKept DEF Count, table
<1>4. ASSUME NEW r \in Devices, Enroll(r) PROVE Cardinality(Live(u)' \ raced') <= cap'[u]
  <2>1. Live(u)' = (IF u = user[r] THEN Live(u) \cup {r} ELSE Live(u)) /\ raced' = raced
    BY <1>4, LiveGrows DEF Enroll
  <2>2. CASE u # user[r] \/ r \in raced
    BY <1>2, <2>1, <2>2
  <2>3. CASE u = user[r] /\ r \notin raced
    <3>1. room[r] = cap[u]
      BY <1>0, <1>4, <2>3 DEF Enroll, Honest
    <3>2. Live(u)' \ raced' \in SUBSET Live(u)'
      OBVIOUS
    <3> QED BY <1>0, <1>4, <2>3, <3>1, <3>2, OneMore
  <2> QED BY <2>2, <2>3
<1>5. CASE Calm
  BY <1>2, <1>5 DEF Calm
<1> QED BY <1>3, <1>2, <1>4, <1>5, CalmStep

LEMMA ChainStep ==
  ASSUME TypeOK, Started, Fits, Chain, [Next]_vars
  PROVE  Chain'
<1> SUFFICES ASSUME NEW u \in Users, NEW S \in SUBSET (Live(u)' \ raced'), S # {}
             PROVE  \E d \in S : Cardinality(S) <= room'[d]
  BY DEF Chain
<1>1. CASE S \subseteq Live(u) \ raced /\ \A d \in S : room'[d] = room[d]
  BY <1>1 DEF Chain
<1>2. ASSUME NEW r \in Devices, NEW n \in Caps, Count(r, n)
      PROVE  S \subseteq Live(u) \ raced /\ \A d \in S : room'[d] = room[d]
  <2>1. Live(u)' = Live(u) /\ raced \subseteq raced'
    BY <1>2, LiveKept DEF Count, table
  <2>2. r \notin Live(u)
    BY <1>2 DEF Count, Ready, Started, Live, Written
  <2>3. \A d \in Devices : d # r => room'[d] = room[d]
    BY <1>2 DEF Count, TypeOK
  <2> QED BY <2>1, <2>2, <2>3 DEF Live, Written
<1>3. ASSUME NEW r \in Devices, Enroll(r) PROVE \E d \in S : Cardinality(S) <= room'[d]
  <2>1. /\ Live(u)' = (IF u = user[r] THEN Live(u) \cup {r} ELSE Live(u))
        /\ raced' = raced /\ room' = room
    BY <1>3, LiveGrows DEF Enroll, request
  <2>2. CASE r \notin S \/ u # user[r]
    BY <1>1, <2>1, <2>2
  <2>3. CASE r \in S /\ u = user[r]
    <3>1. r \notin raced /\ S \in SUBSET Live(u)'
      BY <2>1, <2>3
    <3> QED BY <1>3, <2>1, <2>3, <3>1, OneMore
  <2> QED BY <2>2, <2>3
<1>4. CASE Calm
  BY <1>1, <1>4 DEF Calm
<1> QED BY <1>1, <1>2, <1>3, <1>4, CalmStep

-----------------------------------------------------------------------------
(* Choices. *)

LEMMA CrossingStep ==
  ASSUME TypeOK, Started, Crossing, [Next]_vars
  PROVE  Crossing'
<1> USE DevicePairingAssumption DEF TypeOK, Started, Crossing, Ended, Working, Requests, Devices, Edits, table, request
<1>1. ASSUME NEW c \in Codes, NEW u \in Users, Mint(c, u) PROVE Crossing'
  BY <1>1 DEF Mint
<1>2. ASSUME NEW c \in Codes, Expire(c) PROVE Crossing'
  BY <1>2 DEF Expire
<1>3. ASSUME NEW s \in Scans, NEW c \in Codes, Redeem(s, c) PROVE Crossing'
  BY <1>3 DEF Redeem
<1>4. ASSUME NEW r \in Devices, NEW n \in Caps, Refuse(r, n) PROVE Crossing'
  BY <1>4 DEF Refuse
<1>5. ASSUME NEW r \in Devices, NEW n \in Caps, Count(r, n) PROVE Crossing'
  BY <1>5 DEF Count, Ready, Account, Busy
<1>6. ASSUME NEW r \in Devices, Enroll(r) PROVE Crossing'
  BY <1>6 DEF Enroll
<1>7. ASSUME NEW r \in Edits, NEW d \in Devices, Load(r, d) PROVE Crossing'
  BY <1>7 DEF Load, Busy
<1>8. ASSUME NEW r \in Choices, Select(r) PROVE Crossing'
  BY <1>8 DEF Select
<1>9. ASSUME NEW r \in Choices, NEW d \in Devices, Clear(r, d) PROVE Crossing'
  BY <1>9 DEF Clear
<1>10. ASSUME NEW r \in Edits, Flush(r) PROVE Crossing'
  BY <1>10 DEF Flush
<1>11. ASSUME NEW r \in Edits, Commit(r) PROVE Crossing'
  BY <1>11 DEF Commit
<1>12. ASSUME NEW r \in Requests, Rollback(r) PROVE Crossing'
  BY <1>12 DEF Rollback
<1>13. ASSUME NEW u \in Closable, CloseAccount(u) PROVE Crossing'
  BY <1>13 DEF CloseAccount
<1>15. ASSUME NEW u \in Users, NEW n \in Caps, ChangeCap(u, n) PROVE Crossing'
  BY <1>15 DEF ChangeCap
<1>14. CASE Rest \/ UNCHANGED vars
  BY <1>14 DEF Rest, vars
<1> QED BY <1>1, <1>2, <1>3, <1>4, <1>5, <1>6, <1>7, <1>8, <1>9, <1>10, <1>11, <1>12, <1>13, <1>14, <1>15 DEF Next

\* The end of another request gives away none of the rows of a choice.
LEMMA Released ==
  ASSUME TypeOK, Locking, NEW r \in Requests, Unlock(r), UNCHANGED <<user, todo, crossed>>,
         \A u \in Users : Live(u)' \subseteq Live(u),
         \A c \in Choices : phase'[c] \in {"clearing", "flushed"} => c # r /\ phase[c] = phase'[c]
  PROVE  Locking'
<1> SUFFICES ASSUME NEW c \in Choices, NEW u \in Users, NEW d \in Live(u)',
                    phase'[c] \in {"clearing", "flushed"}, user'[c] = u
             PROVE  d \in todo'[c] \cup crossed' \/ locker'[d] = c
  BY DEF Locking
<1>1. /\ c # r /\ phase[c] \in {"clearing", "flushed"} /\ user[c] = u
      /\ todo'[c] = todo[c] /\ crossed' = crossed /\ d \in Live(u)
  OBVIOUS
<1>2. d \in todo[c] \cup crossed \/ locker[d] = c
  BY <1>1 DEF Locking
<1>3. d \in Devices
  BY <1>1 DEF Live, Written
<1> QED BY <1>1, <1>2, <1>3 DEF Unlock

LEMMA LockingStep ==
  ASSUME TypeOK, Started, Crossing, Locking, [Next]_vars
  PROVE  Locking'
<1> USE DevicePairingAssumption DEF TypeOK, Started, Locking, Ended, Working, Requests, Devices, Edits, table, request
<1>1. ASSUME NEW c \in Codes, NEW u \in Users, Mint(c, u) PROVE Locking'
  <2>1. \A a \in Users : Live(a)' = Live(a)
    BY <1>1, LiveKept DEF Mint
  <2> QED BY <1>1, <2>1 DEF Mint
<1>2. ASSUME NEW c \in Codes, Expire(c) PROVE Locking'
  <2>1. \A u \in Users : Live(u)' = Live(u)
    BY <1>2, LiveKept DEF Expire
  <2> QED BY <1>2, <2>1 DEF Expire
<1>3. ASSUME NEW s \in Scans, NEW c \in Codes, Redeem(s, c) PROVE Locking'
  <2>1. \A u \in Users : Live(u)' = Live(u)
    BY <1>3, LiveKept DEF Redeem
  <2> QED BY <1>3, <2>1 DEF Redeem
<1>4. ASSUME NEW r \in Devices, NEW n \in Caps, Refuse(r, n) PROVE Locking'
  <2>1. \A u \in Users : Live(u)' = Live(u)
    BY <1>4, LiveKept DEF Refuse, Ready
  <2> QED BY <1>4, <2>1 DEF Refuse, Ready
<1>5. ASSUME NEW r \in Devices, NEW n \in Caps, Count(r, n) PROVE Locking'
  <2>1. \A u \in Users : Live(u)' = Live(u)
    BY <1>5, LiveKept DEF Count, Ready, Account, Busy
  <2> QED BY <1>5, <2>1 DEF Count, Ready, Account, Busy
<1>6. ASSUME NEW r \in Devices, Enroll(r) PROVE Locking'
  <2>1. \A u \in Users : Live(u)' \subseteq Live(u) \cup (IF u = user[r] THEN {r} ELSE {})
    BY <1>6, LiveGrows
  <2> QED BY <1>6, <2>1 DEF Enroll, Crossing
<1>7. ASSUME NEW r \in Edits, NEW d \in Devices, Load(r, d) PROVE Locking'
  <2>1. \A u \in Users : Live(u)' = Live(u)
    BY <1>7, LiveKept DEF Load
  <2> QED BY <1>7, <2>1 DEF Load
<1>8. ASSUME NEW r \in Choices, Select(r) PROVE Locking'
  <2>1. \A u \in Users : Live(u)' = Live(u)
    BY <1>8, LiveKept DEF Select, Selected
  <2> QED BY <1>8, <2>1 DEF Select, Selected
<1>9. ASSUME NEW r \in Choices, NEW d \in Devices, Clear(r, d) PROVE Locking'
  <2>1. \A u \in Users : Live(u)' = Live(u)
    BY <1>9, LiveKept DEF Clear
  <2>2. \A u \in Users : Live(u) \cap deleted = {}
    BY DEF Live
  <2> QED BY <1>9, <2>1, <2>2 DEF Clear, Free
<1>10. ASSUME NEW r \in Edits, Flush(r) PROVE Locking'
  <2>1. \A u \in Users : Live(u)' = Live(u)
    BY <1>10, LiveKept DEF Flush, Free
  <2> QED BY <1>10, <2>1 DEF Flush, Free
<1>11. ASSUME NEW r \in Edits, Commit(r) PROVE Locking'
  <2>1. \A u \in Users : Live(u)' \subseteq Live(u)
    BY <1>11, LiveShrinks
  <2>2. \A c \in Choices : phase'[c] \in {"clearing", "flushed"} => c # r /\ phase[c] = phase'[c]
    BY <1>11 DEF Commit
  <2>3. UNCHANGED <<user, todo, crossed>> /\ r \in Requests /\ Unlock(r)
    BY <1>11 DEF Commit
  <2> QED BY <2>1, <2>2, <2>3, Released
<1>12. ASSUME NEW r \in Requests, Rollback(r) PROVE Locking'
  <2>1. \A u \in Users : Live(u)' = Live(u)
    BY <1>12, LiveKept DEF Rollback
  <2>2. \A c \in Choices : phase'[c] \in {"clearing", "flushed"} => c # r /\ phase[c] = phase'[c]
    BY <1>12 DEF Rollback
  <2>3. UNCHANGED <<user, todo, crossed>> /\ Unlock(r)
    BY <1>12 DEF Rollback
  <2> QED BY <2>1, <2>2, <2>3, Released
<1>13. ASSUME NEW u \in Closable, CloseAccount(u) PROVE Locking'
  <2>1. \A a \in Users : Live(a)' = Live(a)
    BY <1>13, LiveKept DEF CloseAccount
  <2> QED BY <1>13, <2>1 DEF CloseAccount
<1>15. ASSUME NEW u \in Users, NEW n \in Caps, ChangeCap(u, n) PROVE Locking'
  <2>1. \A a \in Users : Live(a)' = Live(a)
    BY <1>15, LiveKept DEF ChangeCap
  <2> QED BY <1>15, <2>1 DEF ChangeCap
<1>14. CASE Rest \/ UNCHANGED vars
  <2>1. \A u \in Users : Live(u)' = Live(u)
    BY <1>14, LiveKept DEF Rest, vars
  <2> QED BY <1>14, <2>1 DEF Rest, vars
<1> QED BY <1>1, <1>2, <1>3, <1>4, <1>5, <1>6, <1>7, <1>8, <1>9, <1>10, <1>11, <1>12, <1>13, <1>14, <1>15 DEF Next

LEMMA OneDefaultStep ==
  ASSUME TypeOK, Started, Fits, Locking, OneDefault, [Next]_vars
  PROVE  OneDefault'
<1> SUFFICES ASSUME NEW u \in Users PROVE \A d, e \in Undisturbed(u)' : d = e
  BY DEF OneDefault
<1>0. \A d, e \in Undisturbed(u) : d = e
  BY DEF OneDefault
<1>1. CASE Undisturbed(u)' \subseteq Undisturbed(u)
  BY <1>0, <1>1
<1>2. ASSUME NEW r \in Devices, NEW n \in Caps, Count(r, n) PROVE Undisturbed(u)' \subseteq Undisturbed(u)
  BY <1>2, LiveKept DEF Count, table, Undisturbed
<1>3. ASSUME NEW r \in Devices, Enroll(r) PROVE \A d, e \in Undisturbed(u)' : d = e
  <2>1. /\ Live(u)' = IF u = user[r] THEN Live(u) \cup {r} ELSE Live(u)
        /\ UNCHANGED <<raced, crossed>> /\ phase[r] = "counted"
        /\ default' = IF count[r] = 0 THEN default \cup {r} ELSE default
        /\ r \notin Live(u)
    BY <1>3, LiveGrows DEF Enroll
  <2>2. r \notin default
    BY <1>3 DEF TypeOK, Started, Enroll, Written
  <2>3. CASE u # user[r] \/ r \in raced \cup crossed \/ count[r] # 0
    BY <1>1, <2>1, <2>2, <2>3 DEF Undisturbed
  <2>4. CASE u = user[r] /\ r \notin raced /\ count[r] = 0
    <3>1. Live(u) = {}
      BY <2>1, <2>4 DEF Fits
    <3> QED BY <2>1, <2>4, <3>1 DEF Undisturbed
  <2> QED BY <2>3, <2>4
<1>4. ASSUME NEW r \in Edits, Commit(r), r \in Choices PROVE \A d, e \in Undisturbed(u)' : d = e
  <2>1. /\ Live(u)' \subseteq Live(u) /\ UNCHANGED <<raced, crossed, owner>>
        /\ default' = (default \ Locked(r)) \cup {target[r]} /\ phase[r] = "flushed"
    BY <1>4, LiveShrinks DEF Commit, DefaultAfter
  <2>2. CASE user[r] = u
    <3>1. todo[r] = {}
      BY <1>4, <2>1 DEF Started
    <3>2. Live(u) \subseteq crossed \cup Locked(r)
      BY <1>4, <2>1, <2>2, <3>1 DEF Locking, Locked, Live, Written
    <3> QED BY <2>1, <3>2 DEF Undisturbed
  <2>3. CASE user[r] # u
    <3>1. target[r] \notin Live(u)
      BY <1>4, <2>1, <2>3 DEF Started, Working, Live
    <3> QED BY <1>1, <2>1, <3>1 DEF Undisturbed
  <2> QED BY <2>2, <2>3
<1>5. ASSUME Calm, default' = default PROVE Undisturbed(u)' \subseteq Undisturbed(u)
  BY <1>5 DEF Calm, Undisturbed
<1>6. \/ \E r \in Devices : Enroll(r) \/ \E n \in Caps : Count(r, n)
      \/ \E r \in Edits : Commit(r) /\ r \in Choices
      \/ default' = default
  BY DEF Next, vars, table, Mint, Expire, Redeem, Refuse, Load, Select, Clear, Flush, Commit,
         DefaultAfter, Rollback, CloseAccount, ChangeCap, Rest
<1> QED BY <1>1, <1>2, <1>3, <1>4, <1>5, <1>6, CalmStep

-----------------------------------------------------------------------------

THEOREM InvTheorem == Spec => []Inv
<1>1. Inv /\ [Next]_vars => Inv'
  BY TypeStep, StartedStep, CodesStep, AwareStep, FitsStep, HonestStep, WithinStep, ChainStep, CrossingStep, LockingStep,
     OneDefaultStep DEF Inv
<1> QED BY <1>1, InitInv, PTL DEF Spec

\* Every variable keeps its shape, and flags and deletions are of rows that exist.
THEOREM TypeCorrect == Spec => []TypeOK
<1>1. Inv => TypeOK
  BY DEF Inv
<1> QED BY <1>1, InvTheorem, PTL

\* A code pairs one phone, with the account that showed it (redeem_pair_code).
THEOREM CodeTheorem == Spec => []CodeUsedOnce
<1>1. Inv => CodeUsedOnce
  BY DEF Inv
<1> QED BY <1>1, InvTheorem, PTL

\* Phones whose pairings overlapped no other fit the cap of the plan while it has
\* not changed, and at any time the cap that one of them was paired under
\* (device_service.pair_device).
THEOREM CapTheorem == Spec => []CapButForRaces
<1>1. Inv => CapButForRaces
  BY DEF Inv, Within, Chain, CapButForRaces
<1> QED BY <1>1, InvTheorem, PTL

\* Only a pairing that overlapped a pairing or a choice gives an account two
\* default devices (device_repo.clear_default).
THEOREM DefaultTheorem == Spec => []OneDefaultButForRaces
<1>1. ASSUME Inv PROVE OneDefaultButForRaces
  <2> SUFFICES ASSUME NEW u \in Users PROVE Cardinality(Undisturbed(u)) <= 1
    BY DEF OneDefaultButForRaces, Undisturbed
  <2>1. \A d, e \in Undisturbed(u) : d = e
    BY <1>1 DEF Inv, OneDefault
  <2>2. CASE Undisturbed(u) = {}
    BY <2>2, FS_EmptySet
  <2>3. CASE Undisturbed(u) # {}
    <3>1. PICK d \in Undisturbed(u) : Undisturbed(u) = {d}
      BY <2>1, <2>3
    <3> QED BY <3>1, FS_Singleton
  <2> QED BY <2>2, <2>3
<1> QED BY <1>1, InvTheorem, PTL

\* An unlinked phone stays unlinked (device_service.delete_device).
THEOREM DeletedTheorem == Spec => DeletedStaysDeleted
<1>1. [Next]_vars => [deleted \subseteq deleted']_vars
  BY DEF Next, vars, table, Mint, Expire, Redeem, Refuse, Count, Enroll, Load, Select, Clear, Flush,
         Commit, DeletedAfter, Rollback, CloseAccount, ChangeCap, Rest
<1> QED BY <1>1, PTL DEF Spec, DeletedStaysDeleted

-----------------------------------------------------------------------------
(* AddressBook: what a request knows when it commits.                      *)

Swept == {"sweeping", "inserted"}

\* What each request works on.  A contact that is committed is of a create that
\* is done, and was saved last by a request that is done.
Aims ==
  /\ \A r \in Book!Running :
       /\ r \in GroupDeletes => aimedAt[r] \in Groups
       /\ r \in Creates => aimedAt[r] = r
       /\ r \in Updates \cup ContactDeletes => aimedAt[r] \in written
  /\ \A r \in Book!Deletions : step[r] # "valid"
  /\ \A c \in written : step[c] = "done" /\ saved[c] \in Book!Saves /\ step[saved[c]] = "done"

\* A request deletes and locks memberships of what it works on only, and holds
\* the locks to its end.
Holds ==
  /\ \A p \in Book!Pairs : rowOf[p] # NoRequest =>
       step[rowOf[p]] \in Swept /\ aimedAt[rowOf[p]] \in {p[1], p[2]}
  /\ \A r \in Book!Requests : step[r] \in Swept =>
       \A x \in left[r] : aimedAt[r] \in {x[1][1], x[1][2]}
  /\ \A r \in Book!Requests : step[r] = "inserted" => left[r] = {}

\* Requests that overlap know it.
AwareOfOverlap ==
  /\ \A s \in (Book!Saves \cap Book!Running) \ met : Book!Deletions \cap Book!Running = {}
  /\ \A s, t \in Book!Saves \cap Book!Running : s # t /\ aimedAt[s] = aimedAt[t] => s \in tangled

\* What a save without overlap has looked up is there still.
Sees ==
  \A s \in (Book!Saves \cap Book!Running) \ met :
    /\ aimedAt[s] \notin gone
    /\ step[s] \in {"valid"} \cup Swept => Asked[s] \cap gone = {}

\* A deletion, and a save without overlap, has locked every membership of what
\* it works on, or has it still to delete.
Covers(r) ==
  \A p \in Book!Rows :
    aimedAt[r] \in {p[1], p[2]} /\ (r \in Book!Deletions => member[p] \notin met) =>
      <<p, member[p]>> \in left[r] \/ rowOf[p] = r

Covered ==
  \A r \in Book!Requests \ (met \cup tangled) : step[r] \in Swept => Covers(r)

\* Such a save settled the groups, and what is gone since then is not there.
Settled ==
  \A c \in written \ gone : saved[c] \notin met \cup tangled =>
    \A g \in Groups : member[<<c, g>>] = IF g \in Asked[saved[c]] \ gone THEN saved[c] ELSE NoRequest

BookInv ==
  /\ Book!TypeOK /\ Aims /\ Holds /\ AwareOfOverlap /\ Sees /\ Covered /\ Settled /\ Book!NoGhosts

\* The assumption, in the terms the steps need.
LEMMA BookFacts ==
  /\ Renames \subseteq Updates /\ Creates \cap Updates = {}
  /\ Book!Saves \cap Book!Deletions = {} /\ ContactDeletes \cap GroupDeletes = {}
  /\ Asked \in [Book!Saves -> SUBSET Groups]
  /\ Groups \cap Creates = {} /\ Book!Pairs \cap (Creates \cup Groups) = {}
  /\ Book!Pairs = Creates \X Groups
  /\ NoRequest \notin Book!Requests /\ Nothing \notin Creates \cup Groups
  /\ \A p \in Book!Pairs : p[1] \in Creates /\ p[2] \in Groups /\ p = <<p[1], p[2]>>
BY DevicesAndContactsAssumption DEF Book!AddressBookAssumption, Book!Pairs, Book!Contacts

\* A request loads its row: those that run know of it.
LEMMA BookLoad ==
  ASSUME BookInv, NEW r \in Book!Requests, Book!Load(r)
  PROVE  BookInv'
<1> USE BookFacts DEF BookInv, Book!TypeOK, Book!Load, Book!table, Book!history, Book!Go, Book!Running,
       Book!Ended, Book!Requests, Book!Saves, Book!Deletions, Book!Contacts, Book!Phases, Swept, Book!Loadable, Book!Siblings
<1>1. Book!TypeOK'
  BY DEF Book!Rows
<1>2. Aims'
  BY DEF Aims
<1>3. Holds'
  BY DEF Holds
<1>4. AwareOfOverlap'
  BY DEF AwareOfOverlap
<1>5. Sees'
  BY DEF Sees
<1>6. Covered'
  BY DEF Covered, Covers, Book!Rows
<1>7. Settled'
  BY DEF Settled
<1>8. Book!NoGhosts'
  BY DEF Book!NoGhosts, Book!Rows
<1> QED
  BY <1>1, <1>2, <1>3, <1>4, <1>5, <1>6, <1>7, <1>8

LEMMA BookDraft ==
  ASSUME BookInv, NEW r \in Book!Requests, Book!Draft(r)
  PROVE  BookInv'
<1> USE BookFacts DEF BookInv, Book!TypeOK, Book!Draft, Book!table, Book!history, Book!Go, Book!Running,
       Book!Ended, Book!Requests, Book!Saves, Book!Deletions, Book!Contacts, Book!Phases, Swept
<1>1. Book!TypeOK'
  BY DEF Book!Rows
<1>2. Aims'
  BY DEF Aims
<1>3. Holds'
  BY DEF Holds
<1>4. AwareOfOverlap'
  <2>1. r \in Creates /\ r \notin written
    BY DEF Book!Draft, Aims
  <2>2. \A t \in Book!Running : aimedAt[t] # r
    BY <2>1 DEF Aims
  <2> QED
    BY <2>1, <2>2 DEF AwareOfOverlap
<1>5. Sees'
  <2>1. r \in Creates /\ r \notin written
    BY DEF Book!Draft, Aims
  <2>2. r \notin gone
    BY <2>1
  <2> QED
    BY <2>1, <2>2 DEF Sees
<1>6. Covered'
  BY DEF Covered, Covers, Book!Rows
<1>7. Settled'
  BY DEF Settled
<1>8. Book!NoGhosts'
  BY DEF Book!NoGhosts, Book!Rows
<1> QED
  BY <1>1, <1>2, <1>3, <1>4, <1>5, <1>6, <1>7, <1>8

\* The lock of a contact or a group is that of no membership.
LEMMA BookMark ==
  ASSUME BookInv, NEW r \in Book!Requests, Book!Mark(r)
  PROVE  BookInv'
<1> USE BookFacts DEF BookInv, Book!TypeOK, Book!Mark, Book!table, Book!history, Book!Go, Book!Running,
       Book!Ended, Book!Requests, Book!Saves, Book!Deletions, Book!Contacts, Book!Phases, Swept, Book!Free
<1>1. Book!TypeOK'
  BY DEF Book!Rows
<1>2. Aims'
  BY DEF Aims
<1>3. Holds'
  <2>1. aimedAt[r] \in Creates \cup Groups
    BY DEF Book!Mark, Aims
  <2>2. \A q \in Book!Pairs : rowOf'[q] = rowOf[q]
    BY <2>1 DEF Book!Mark
  <2> QED
    BY <2>2 DEF Book!Mark, Holds
<1>4. AwareOfOverlap'
  BY DEF AwareOfOverlap
<1>5. Sees'
  BY DEF Sees
<1>6. Covered'
  BY DEF Covered, Covers, Book!Rows
<1>7. Settled'
  BY DEF Settled
<1>8. Book!NoGhosts'
  BY DEF Book!NoGhosts, Book!Rows
<1> QED
  BY <1>1, <1>2, <1>3, <1>4, <1>5, <1>6, <1>7, <1>8

LEMMA BookValidate ==
  ASSUME BookInv, NEW r \in Book!Requests, Book!Validate(r)
  PROVE  BookInv'
<1> USE BookFacts DEF BookInv, Book!TypeOK, Book!Validate, Book!table, Book!history, Book!Go, Book!Running,
       Book!Ended, Book!Requests, Book!Saves, Book!Deletions, Book!Contacts, Book!Phases, Swept, Book!Known
<1>1. Book!TypeOK'
  BY DEF Book!Rows
<1>2. Aims'
  BY DEF Aims
<1>3. Holds'
  BY DEF Holds
<1>4. AwareOfOverlap'
  BY DEF AwareOfOverlap
<1>5. Sees'
  BY DEF Sees
<1>6. Covered'
  BY DEF Covered, Covers, Book!Rows
<1>7. Settled'
  BY DEF Settled
<1>8. Book!NoGhosts'
  BY DEF Book!NoGhosts, Book!Rows
<1> QED
  BY <1>1, <1>2, <1>3, <1>4, <1>5, <1>6, <1>7, <1>8

\* The snapshot of a request is all it will have to delete.
LEMMA BookSweep ==
  ASSUME BookInv, NEW r \in Book!Requests, Book!Sweep(r)
  PROVE  BookInv'
<1> USE BookFacts DEF BookInv, Book!TypeOK, Book!Sweep, Book!table, Book!history, Book!Go, Book!Running,
       Book!Ended, Book!Requests, Book!Saves, Book!Deletions, Book!Contacts, Book!Phases, Swept, Book!Scope, Book!Rows
<1>1. Book!TypeOK'
  BY DEF Book!Rows
<1>2. Aims'
  BY DEF Aims
<1>3. Holds'
  BY DEF Holds
<1>4. AwareOfOverlap'
  BY DEF AwareOfOverlap
<1>5. Sees'
  BY DEF Sees
<1>6. Covered'
  BY DEF Covered, Covers, Book!Rows
<1>7. Settled'
  BY DEF Settled
<1>8. Book!NoGhosts'
  BY DEF Book!NoGhosts, Book!Rows
<1> QED
  BY <1>1, <1>2, <1>3, <1>4, <1>5, <1>6, <1>7, <1>8

\* A row leaves the list as it is locked, or as another row took its place.
LEMMA BookStrike ==
  ASSUME BookInv, NEW r \in Book!Requests, NEW p \in Book!Pairs, Book!Strike(r, p)
  PROVE  BookInv'
<1> USE BookFacts DEF BookInv, Book!TypeOK, Book!Strike, Book!table, Book!history, Book!Go, Book!Running,
       Book!Ended, Book!Requests, Book!Saves, Book!Deletions, Book!Contacts, Book!Phases, Swept, Book!Free
<1>1. Book!TypeOK'
  BY DEF Book!Rows
<1>2. Aims'
  BY DEF Aims
<1>3. Holds'
  BY DEF Holds
<1>4. AwareOfOverlap'
  BY DEF AwareOfOverlap
<1>5. Sees'
  BY DEF Sees
<1>6. Covered'
  BY DEF Covered, Covers, Book!Rows
<1>7. Settled'
  BY DEF Settled
<1>8. Book!NoGhosts'
  BY DEF Book!NoGhosts, Book!Rows
<1> QED
  BY <1>1, <1>2, <1>3, <1>4, <1>5, <1>6, <1>7, <1>8

LEMMA BookInsert ==
  ASSUME BookInv, NEW r \in Book!Requests, Book!Insert(r)
  PROVE  BookInv'
<1> USE BookFacts DEF BookInv, Book!TypeOK, Book!Insert, Book!table, Book!history, Book!Go, Book!Running,
       Book!Ended, Book!Requests, Book!Saves, Book!Deletions, Book!Contacts, Book!Phases, Swept, Book!Insertable, Book!New
<1>1. Book!TypeOK'
  BY DEF Book!Rows
<1>2. Aims'
  BY DEF Aims
<1>3. Holds'
  BY DEF Holds
<1>4. AwareOfOverlap'
  BY DEF AwareOfOverlap
<1>5. Sees'
  BY DEF Sees
<1>6. Covered'
  BY DEF Covered, Covers, Book!Rows
<1>7. Settled'
  BY DEF Settled
<1>8. Book!NoGhosts'
  BY DEF Book!NoGhosts, Book!Rows
<1> QED
  BY <1>1, <1>2, <1>3, <1>4, <1>5, <1>6, <1>7, <1>8

\* What a commit shows is settled by what it locked, and by what overlapped it.
LEMMA BookCommit ==
  ASSUME BookInv, NEW r \in Book!Requests, Book!Commit(r)
  PROVE  BookInv'
<1> USE BookFacts
<1> DEFINE new == Book!New(r)
<1>1. /\ r \in Book!Running /\ step[r] = "inserted" /\ left[r] = {}
      /\ step' = [step EXCEPT ![r] = "done"]
      /\ UNCHANGED <<aimedAt, left, met, tangled>>
      /\ \A t \in Book!Requests : t # r => step'[t] = step[t]
      /\ step'[r] = "done" /\ Book!Running' = Book!Running \ {r}
  BY DEF Book!Commit, Book!Running, Book!Ended, BookInv, Holds, Book!TypeOK, Book!Go
<1>2. /\ r \in Book!Saves \cup Book!Deletions
      /\ r \in Book!Saves => r \notin Book!Deletions
      /\ r \in Book!Saves => aimedAt[r] \in Creates /\ new = {aimedAt[r]} \X Asked[r] /\ Asked[r] \subseteq Groups
      /\ r \in Book!Deletions => new = {}
      /\ new \subseteq Book!Pairs
      /\ written' = IF r \in Creates THEN written \cup {r} ELSE written
      /\ r \in Book!Saves => aimedAt[r] \in written'
      /\ r \in Book!Deletions => aimedAt[r] \in written \cup Groups
      /\ r \in Creates => aimedAt[r] = r
      /\ gone' = IF r \in Book!Deletions THEN gone \cup {aimedAt[r]} ELSE gone
      /\ saved' = IF r \in Book!Saves THEN [saved EXCEPT ![aimedAt[r]] = r] ELSE saved
  BY <1>1 DEF Book!Commit, Book!New, BookInv, Aims, Book!TypeOK, Book!Requests, Book!Saves,
              Book!Deletions, Book!Contacts
<1>3. member' \in [Book!Pairs -> Book!Saves \cup {NoRequest}]
  BY <1>2 DEF Book!Commit, BookInv, Book!TypeOK
<1>4. \A p \in Book!Pairs :
        member'[p] = IF p \in new THEN r ELSE IF rowOf[p] = r THEN NoRequest ELSE member[p]
  BY DEF Book!Commit, Book!Locked, BookInv, Book!TypeOK
<1>5. /\ rowOf' \in [Creates \cup Groups \cup Book!Pairs -> Book!Requests \cup {NoRequest}]
      /\ \A p \in Book!Pairs : rowOf'[p] = IF rowOf[p] = r THEN NoRequest ELSE rowOf[p]
  BY DEF Book!Commit, Book!Unlock, BookInv, Book!TypeOK, Book!Contacts
<1> HIDE DEF new
\* A membership that is there afterwards is a new one, or was there and not locked.
<1>6. \A p \in Book!Rows' :
        /\ p \in Book!Pairs
        /\ \/ p \in new /\ r \in Book!Saves /\ member'[p] = r /\ p[1] = aimedAt[r] /\ p[2] \in Asked[r]
           \/ p \in Book!Rows /\ rowOf[p] # r /\ member'[p] = member[p]
  BY <1>2, <1>4 DEF Book!Rows
<1>7. Book!TypeOK'
  <2>1. written' \subseteq Creates /\ gone' \subseteq written' \cup Groups
    BY <1>2 DEF BookInv, Book!TypeOK, Book!Contacts
  <2>2. \A p \in Book!Rows' : p[1] \in written'
    BY <1>2, <1>6 DEF BookInv, Book!TypeOK
  <2>3. saved' \in [Creates -> Book!Saves \cup {NoRequest}]
    BY <1>2 DEF BookInv, Book!TypeOK, Book!Contacts
  <2> QED
    BY <1>1, <1>3, <1>5, <2>1, <2>2, <2>3 DEF BookInv, Book!TypeOK, Book!Contacts, Book!Phases
<1>8. Aims'
  BY <1>1, <1>2 DEF BookInv, Aims, Book!TypeOK, Book!Contacts, Book!Deletions, Book!Requests, Book!Saves
<1>9. Holds'
  <2>1. \A p \in Book!Pairs : rowOf[p] # NoRequest => rowOf[p] \in Book!Requests
    BY DEF BookInv, Book!TypeOK
  <2> QED
    BY <1>1, <1>5, <2>1 DEF BookInv, Holds, Swept
<1>10. AwareOfOverlap'
  BY <1>1 DEF BookInv, AwareOfOverlap
<1>11. Sees'
  <2> SUFFICES ASSUME NEW s \in (Book!Saves \cap Book!Running) \ met, s # r
               PROVE  /\ aimedAt[s] \notin gone'
                      /\ step[s] \in {"valid"} \cup Swept => Asked[s] \cap gone' = {}
    BY <1>1 DEF Sees, Book!Running
  <2>1. r \notin Book!Deletions
    BY <1>1 DEF BookInv, AwareOfOverlap
  <2> QED
    BY <1>2, <2>1 DEF BookInv, Sees
<1>12. Covered'
  <2> SUFFICES ASSUME NEW t \in Book!Requests \ (met \cup tangled), t # r, step[t] \in Swept,
                      NEW p \in Book!Rows', aimedAt[t] \in {p[1], p[2]},
                      t \in Book!Deletions => member'[p] \notin met
               PROVE  <<p, member'[p]>> \in left[t] \/ rowOf'[p] = t
    BY <1>1 DEF Covered, Covers, Swept
  <2>1. t \in Book!Running
    BY DEF Swept, Book!Running, Book!Ended
  <2>2. CASE p \in new /\ r \in Book!Saves /\ member'[p] = r /\ p[1] = aimedAt[r]
    <3>1. CASE t \in Book!Deletions
      BY <1>1, <2>1, <2>2, <3>1 DEF BookInv, AwareOfOverlap
    <3>2. CASE t \in Book!Saves
      <4>1. aimedAt[t] \in Creates
        BY <2>1, <3>2 DEF BookInv, Aims, Book!TypeOK, Book!Saves, Book!Contacts
      <4>2. aimedAt[t] = aimedAt[r]
        BY <1>6, <2>2, <4>1
      <4> QED
        BY <1>1, <2>1, <2>2, <3>2, <4>2 DEF BookInv, AwareOfOverlap
    <3> QED
      BY <3>1, <3>2 DEF Book!Requests
  <2>3. CASE p \in Book!Rows /\ rowOf[p] # r /\ member'[p] = member[p]
    BY <1>5, <1>6, <2>3 DEF BookInv, Covered, Covers
  <2> QED
    BY <1>6, <2>2, <2>3
<1>13. Book!NoGhosts'
  <2> SUFFICES ASSUME NEW p \in Book!Rows', {p[1], p[2]} \cap gone' # {}
               PROVE  member'[p] \in met'
    BY DEF Book!NoGhosts
  <2>1. CASE p \in new /\ r \in Book!Saves /\ member'[p] = r /\ p[1] = aimedAt[r] /\ p[2] \in Asked[r]
    BY <1>1, <1>2, <2>1 DEF BookInv, Sees, Swept
  <2>2. CASE p \in Book!Rows /\ rowOf[p] # r /\ member'[p] = member[p]
    <3>1. CASE {p[1], p[2]} \cap gone # {}
      BY <1>1, <2>2, <3>1 DEF BookInv, Book!NoGhosts
    <3>2. CASE r \in Book!Deletions /\ aimedAt[r] \in {p[1], p[2]}
      <4>1. r \notin met \cup tangled
        BY <1>2, <3>2 DEF BookInv, Book!TypeOK
      <4> QED
        BY <1>1, <2>2, <3>2, <4>1 DEF BookInv, Covered, Covers, Swept
    <3> QED
      BY <1>2, <3>1, <3>2
  <2> QED
    BY <1>6, <2>1, <2>2
<1>14. Settled'
  <2> SUFFICES ASSUME NEW c \in written' \ gone', saved'[c] \notin met \cup tangled, NEW g \in Groups
               PROVE  member'[<<c, g>>] = IF g \in Asked[saved'[c]] \ gone' THEN saved'[c] ELSE NoRequest
    BY <1>1 DEF Settled
  <2> DEFINE p == <<c, g>>
  <2>1. c \in Creates /\ p \in Book!Pairs /\ p[1] = c /\ p[2] = g /\ c \notin Groups /\ g \notin Creates
    BY <1>2 DEF BookInv, Book!TypeOK, Book!Contacts
  <2> HIDE DEF p
  <2>2. CASE r \in Book!Saves /\ c = aimedAt[r]
    <3>1. saved'[c] = r /\ r \notin met \cup tangled
      BY <1>2, <2>1, <2>2 DEF BookInv, Book!TypeOK, Book!Contacts
    <3>2. gone' = gone /\ Asked[r] \cap gone = {}
      BY <1>1, <1>2, <2>2, <3>1 DEF BookInv, Sees, Swept
    <3>3. p \in new <=> g \in Asked[r]
      BY <1>2, <2>1, <2>2 DEF p, new
    <3>4. p \in Book!Rows => rowOf[p] = r
      <4>1. Covers(r) /\ r \notin Book!Deletions
        BY <1>1, <2>2, <3>1 DEF BookInv, Covered, Swept
      <4> QED
        BY <1>1, <2>1, <2>2, <4>1 DEF Covers
    <3>5. member'[p] = IF g \in Asked[r] THEN r ELSE NoRequest
      BY <1>4, <2>1, <3>3, <3>4 DEF Book!Rows
    <3> QED
      BY <3>1, <3>2, <3>5 DEF p
  <2>3. CASE ~(r \in Book!Saves /\ c = aimedAt[r])
    <3>1. c \in written /\ c \notin gone /\ saved'[c] = saved[c]
      BY <1>2, <2>1, <2>3 DEF BookInv, Book!TypeOK, Book!Contacts, Book!Saves
    <3>2. member[p] = IF g \in Asked[saved[c]] \ gone THEN saved[c] ELSE NoRequest
      BY <3>1 DEF BookInv, Settled, p
    <3>3. p \notin new
      BY <1>2, <2>1, <2>3 DEF p
    <3>4. CASE r \in Book!Deletions /\ aimedAt[r] = g
      <4>1. r \notin met \cup tangled
        BY <1>2, <3>4 DEF BookInv, Book!TypeOK
      <4>2. p \in Book!Rows => rowOf[p] = r
        <5>1. Covers(r) /\ member[p] \in {saved[c], NoRequest}
          BY <1>1, <3>2, <4>1 DEF BookInv, Covered, Swept
        <5>2. p \in Book!Rows => member[p] \notin met
          BY <2>1, <3>1, <5>1, <1>1 DEF Book!Rows
        <5> QED
          BY <1>1, <2>1, <3>4, <5>1, <5>2 DEF Covers
      <4>3. member'[p] = NoRequest
        BY <1>4, <2>1, <3>3, <4>2 DEF Book!Rows
      <4> QED
        BY <1>2, <3>4, <4>3 DEF p
    <3>5. CASE ~(r \in Book!Deletions /\ aimedAt[r] = g)
      <4>1. aimedAt[r] # g /\ aimedAt[r] # c
        BY <1>2, <2>1, <2>3, <3>5
      <4>2. rowOf[p] # r
        BY <2>1, <4>1 DEF BookInv, Holds
      <4>3. member'[p] = member[p] /\ (g \in gone' <=> g \in gone)
        BY <1>2, <1>4, <2>1, <3>3, <4>1, <4>2
      <4> QED
        BY <3>1, <3>2, <4>3 DEF p
    <3> QED
      BY <3>4, <3>5
  <2> QED
    BY <2>2, <2>3
<1> QED
  BY <1>7, <1>8, <1>9, <1>10, <1>11, <1>12, <1>13, <1>14 DEF BookInv

LEMMA BookFail ==
  ASSUME BookInv, NEW r \in Book!Requests, Book!Fail(r)
  PROVE  BookInv'
<1> USE BookFacts DEF BookInv, Book!TypeOK, Book!Fail, Book!table, Book!history, Book!Go, Book!Running,
       Book!Ended, Book!Requests, Book!Saves, Book!Deletions, Book!Contacts, Book!Phases, Swept, Book!Unlock
<1>1. Book!TypeOK'
  BY DEF Book!Rows
<1>2. Aims'
  BY DEF Aims
<1>3. Holds'
  BY DEF Holds
<1>4. AwareOfOverlap'
  BY DEF AwareOfOverlap
<1>5. Sees'
  BY DEF Sees
<1>6. Covered'
  BY DEF Covered, Covers, Book!Rows
<1>7. Settled'
  BY DEF Settled
<1>8. Book!NoGhosts'
  BY DEF Book!NoGhosts, Book!Rows
<1> QED
  BY <1>1, <1>2, <1>3, <1>4, <1>5, <1>6, <1>7, <1>8

LEMMA BookInit ==
  ASSUME Book!Init
  PROVE  BookInv
<1> USE BookFacts DEF Book!Init, Book!Running, Book!Rows
<1>1. Book!TypeOK
  BY DEF Book!TypeOK, Book!Phases
<1>2. Aims /\ Holds /\ AwareOfOverlap /\ Sees /\ Covered /\ Settled /\ Book!NoGhosts
  BY DEF Aims, Holds, AwareOfOverlap, Sees, Covered, Settled, Book!NoGhosts, Swept, Book!Requests, Book!Deletions
<1> QED
  BY <1>1, <1>2 DEF BookInv

LEMMA BookIdle ==
  ASSUME BookInv, UNCHANGED bookVars
  PROVE  BookInv'
BY DEF bookVars, BookInv, Book!TypeOK, Aims, Holds, AwareOfOverlap, Sees, Covered, Covers, Settled,
       Book!NoGhosts, Book!Rows, Book!Running

LEMMA BookStep ==
  ASSUME BookInv, Book!Next
  PROVE  BookInv'
<1>1. CASE Book!Rest
  BY <1>1, BookIdle DEF Book!Rest, Book!vars, Book!table, Book!history, bookVars
<1> QED
  BY <1>1, BookLoad, BookDraft, BookMark, BookValidate, BookSweep, BookStrike, BookInsert, BookCommit,
     BookFail DEF Book!Next

LEMMA BookTheorem == SpecPart => [](part = "contacts" => BookInv)
<1> DEFINE I == part = "contacts" => BookInv
<1>1. InitPart => I
  BY BookInit DEF InitPart
<1>2. I /\ [NextPart]_<<part, vars, bookVars>> => I'
  BY BookStep, BookIdle DEF NextPart
<1> QED
  BY <1>1, <1>2, PTL DEF SpecPart

\* No membership survives its contact or its group, but for those of saves that
\* overlapped the deletion (contact_repo.soft_delete, delete_group).
THEOREM GhostTheorem == SpecPart => []NoGhosts
<1>1. (part = "contacts" => BookInv) => NoGhosts
  BY DEF BookInv, NoGhosts
<1> QED
  BY <1>1, BookTheorem, PTL

\* A save that nothing overlapped leaves the contact in the groups it asked for
\* (contact_repo.set_groups).
THEOREM SettlesTheorem == SpecPart => []LoneSaveSettles
<1>1. ASSUME BookInv PROVE Book!LoneSaveSettles
  <2> SUFFICES ASSUME NEW c \in written \ gone, saved[c] \notin met \cup tangled
               PROVE  {g \in Groups : member[<<c, g>>] # NoRequest} = Asked[saved[c]] \ gone
    BY DEF Book!LoneSaveSettles
  <2>1. saved[c] \in Book!Saves /\ Asked[saved[c]] \subseteq Groups /\ saved[c] # NoRequest
    BY <1>1, BookFacts DEF BookInv, Aims, Book!Requests
  <2>2. \A g \in Groups : member[<<c, g>>] = IF g \in Asked[saved[c]] \ gone THEN saved[c] ELSE NoRequest
    BY <1>1 DEF BookInv, Settled
  <2> QED
    BY <2>1, <2>2
<1>2. (part = "contacts" => BookInv) => LoneSaveSettles
  BY <1>1 DEF LoneSaveSettles
<1> QED
  BY <1>2, BookTheorem, PTL
=============================================================================
