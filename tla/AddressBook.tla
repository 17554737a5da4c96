---------------------------- MODULE AddressBook ----------------------------
(***************************************************************************)
(* The contacts of an account and the groups they are in.                  *)
(*                                                                         *)
(* A request is a READ COMMITTED transaction.  Saving a contact replaces   *)
(* its memberships: the groups are looked up, the committed memberships of *)
(* the contact are deleted, row lock by row lock, and the new ones are     *)
(* inserted.  Deleting a contact or a group marks the row and deletes its  *)
(* memberships in the same way.  A delete neither sees nor waits for rows  *)
(* that another request has inserted and not committed; an insert of a row *)
(* that is there fails on the primary key (contact_id, group_id).          *)
(* All look-ups are by account, so one account is modelled.                 *)
(***************************************************************************)
EXTENDS FiniteSets

CONSTANTS
  Groups,
  Creates,       (* create_contact requests; the row each may insert        *)
  Updates,       (* update_contact requests that name the groups            *)
  Renames,       (* those among them that change a column as well          *)
  ContactDeletes, GroupDeletes,
  Asked,         (* the groups each create and update asks for             *)
  NoRequest, Nothing

Contacts == Creates
Saves == Creates \cup Updates
Deletions == ContactDeletes \cup GroupDeletes
Requests == Saves \cup Deletions
Pairs == Contacts \X Groups

AddressBookAssumption ==
  /\ Renames \subseteq Updates /\ Creates \cap Updates = {}
  /\ Saves \cap Deletions = {} /\ ContactDeletes \cap GroupDeletes = {}
  /\ Asked \in [Saves -> SUBSET Groups]
  /\ Groups \cap Contacts = {} /\ Pairs \cap (Contacts \cup Groups) = {}
  /\ NoRequest \notin Requests /\ Nothing \notin Contacts \cup Groups

VARIABLES
  written,    (* committed contacts                                        *)
  gone,       (* contacts and groups with deleted_at                       *)
  member,     (* ContactGroupMember: the save that committed each row      *)
  locker,     (* who locks each row of contacts, groups and memberships    *)
  phase,      (* where each request is                                     *)
  target,     (* the contact or group each request has loaded              *)
  todo,       (* memberships a request still has to delete                 *)
  saved,      (* the save of each contact that committed last              *)
  crossed,    (* saves that overlapped a deletion                          *)
  tangled     (* saves that overlapped a save of the same contact          *)

table == <<written, gone, member>>
history == <<saved, crossed, tangled>>
vars == <<table, locker, phase, target, todo, history>>

Phases == {"waiting", "loaded", "valid", "marked", "sweeping", "inserted",
           "done", "refused", "failed"}
Ended == {"done", "refused", "failed"}
Running == {r \in Requests : phase[r] \notin Ended \cup {"waiting"}}

Rows == {p \in Pairs : member[p] # NoRequest}
Free(r, x) == locker[x] \in {r, NoRequest}
Locked(r) == {x \in DOMAIN locker : locker[x] = r}
Go(r, p) == phase' = [phase EXCEPT ![r] = p]

Siblings(r, c) == {s \in Saves \cap Running : target[s] = c} \ {r}

-----------------------------------------------------------------------------

\* The row each request works on is looked up, if it is live.
Loadable(r) ==
  IF r \in GroupDeletes THEN Groups \ gone ELSE written \ gone

Load(r) ==
  /\ r \notin Creates /\ phase[r] = "waiting"
  /\ \E x \in Loadable(r) :
       /\ target' = [target EXCEPT ![r] = x]
       /\ tangled' = IF r \in Updates /\ Siblings(r, x) # {}
                     THEN tangled \cup Siblings(r, x) \cup {r} ELSE tangled
       /\ crossed' = IF r \in Deletions THEN crossed \cup (Saves \cap Running)
                     ELSE IF Deletions \cap Running # {} THEN crossed \cup {r} ELSE crossed
  /\ Go(r, "loaded")
  /\ UNCHANGED <<table, locker, todo, saved>>

\* A request starts to create its contact.
Draft(r) ==
  /\ r \in Creates /\ phase[r] = "waiting"
  /\ target' = [target EXCEPT ![r] = r]
  /\ crossed' = IF Deletions \cap Running # {} THEN crossed \cup {r} ELSE crossed
  /\ Go(r, "loaded")
  /\ UNCHANGED <<table, locker, todo, saved, tangled>>

\* A save that changes a column, and a deletion, lock the row they update.
Mark(r) ==
  /\ phase[r] = "loaded" /\ r \in Renames \cup Deletions
  /\ Free(r, target[r])
  /\ locker' = [locker EXCEPT ![target[r]] = r]
  /\ Go(r, "marked")
  /\ UNCHANGED <<table, target, todo, history>>

\* Mutant: the look-up of a group finds deleted ones.
KnownEver(r) == Asked[r] \subseteq Groups
Known(r) == Asked[r] \cap gone = {}

Validate(r) ==
  /\ r \in Saves
  /\ phase[r] = IF r \in Renames THEN "marked" ELSE "loaded"
  /\ Go(r, IF Known(r) THEN "valid" ELSE "refused")
  /\ locker' = IF Known(r) THEN locker
               ELSE [x \in DOMAIN locker |-> IF locker[x] = r THEN NoRequest ELSE locker[x]]
  /\ UNCHANGED <<table, target, todo, history>>

\* Mutant: the groups are added to those the contact is in.
ScopeAdds(r) == IF r \in Saves THEN {} ELSE {p \in Pairs : target[r] \in {p[1], p[2]}}
Scope(r) == {p \in Pairs : target[r] \in {p[1], p[2]}}

\* The deletion of the memberships takes its snapshot.
Sweep(r) ==
  /\ phase[r] = IF r \in Saves THEN "valid" ELSE "marked"
  /\ todo' = [todo EXCEPT ![r] = {<<p, member[p]>> : p \in Rows \cap Scope(r)}]
  /\ Go(r, "sweeping")
  /\ UNCHANGED <<table, locker, target, history>>

\* A row that is deleted by now no longer qualifies, nor does a row that took
\* its place.
Strike(r, p) ==
  /\ phase[r] = "sweeping" /\ Free(r, p)
  /\ \E s \in Saves :
       /\ <<p, s>> \in todo[r]
       /\ todo' = [todo EXCEPT ![r] = @ \ {<<p, s>>}]
       /\ locker' = IF member[p] = s THEN [locker EXCEPT ![p] = r] ELSE locker
  /\ UNCHANGED <<table, phase, target, history>>

New(r) == IF r \in Saves THEN {target[r]} \X Asked[r] ELSE {}

\* The primary key: a row may be inserted if it is absent or deleted by the
\* same request, and no other request is inserting or deleting it.
Insertable(r, p) ==
  /\ Free(r, p) /\ (p \in Rows => locker[p] = r)
  /\ \A q \in Saves \ {r} : phase[q] = "inserted" => p \notin New(q)

Insert(r) ==
  /\ phase[r] = "sweeping" /\ todo[r] = {}
  /\ \A p \in New(r) : Insertable(r, p)
  /\ Go(r, "inserted")
  /\ UNCHANGED <<table, locker, target, todo, history>>

Unlock(r) ==
  locker' = [x \in DOMAIN locker |-> IF locker[x] = r THEN NoRequest ELSE locker[x]]

Commit(r) ==
  /\ phase[r] = "inserted"
  /\ written' = IF r \in Creates THEN written \cup {r} ELSE written
  /\ gone' = IF r \in Deletions THEN gone \cup {target[r]} ELSE gone
  /\ member' = [p \in Pairs |-> IF p \in New(r) THEN r
                                ELSE IF p \in Locked(r) THEN NoRequest ELSE member[p]]
  /\ saved' = IF r \in Saves THEN [saved EXCEPT ![target[r]] = r] ELSE saved
  /\ Go(r, "done")
  /\ Unlock(r)
  /\ UNCHANGED <<target, todo, crossed, tangled>>

\* Mutant: each statement is committed by itself.
FailKeepsRows(r) ==
  /\ r \in Running
  /\ member' = [p \in Pairs |-> IF phase[r] = "inserted" /\ p \in New(r) THEN r ELSE member[p]]
  /\ Go(r, "failed")
  /\ Unlock(r)
  /\ UNCHANGED <<written, gone, target, todo, history>>

\* A key that is taken, the victim of a deadlock, an error or a crash.
Fail(r) ==
  /\ r \in Running
  /\ Go(r, "failed")
  /\ Unlock(r)
  /\ UNCHANGED <<table, target, todo, history>>

\* Requests that never come, or find nothing to act on.
Rest == Running = {} /\ UNCHANGED vars

Init ==
  /\ written = {} /\ gone = {}
  /\ member = [p \in Pairs |-> NoRequest]
  /\ locker = [x \in Contacts \cup Groups \cup Pairs |-> NoRequest]
  /\ phase = [r \in Requests |-> "waiting"]
  /\ target = [r \in Requests |-> Nothing]
  /\ todo = [r \in Requests |-> {}]
  /\ saved = [c \in Contacts |-> NoRequest]
  /\ crossed = {} /\ tangled = {}

Next ==
  \/ \E r \in Requests :
       \/ Load(r) \/ Draft(r) \/ Mark(r) \/ Validate(r) \/ Sweep(r)
       \/ Insert(r) \/ Commit(r) \/ Fail(r)
       \/ \E p \in Pairs : Strike(r, p)
  \/ Rest

Spec == Init /\ [][Next]_vars

-----------------------------------------------------------------------------
(* What the address book promises.                                         *)

\* Every variable keeps its shape; memberships are of contacts that were
\* committed.
TypeOK ==
  /\ written \subseteq Contacts /\ gone \subseteq written \cup Groups
  /\ member \in [Pairs -> Saves \cup {NoRequest}]
  /\ \A p \in Rows : p[1] \in written
  /\ locker \in [Contacts \cup Groups \cup Pairs -> Requests \cup {NoRequest}]
  /\ phase \in [Requests -> Phases]
  /\ target \in [Requests -> Contacts \cup Groups \cup {Nothing}]
  /\ todo \in [Requests -> SUBSET (Pairs \X Saves)]
  /\ saved \in [Contacts -> Saves \cup {NoRequest}]
  /\ crossed \subseteq Saves /\ tangled \subseteq Saves

\* No membership survives the deletion of its contact or group, but for those
\* that a save committed after overlapping the deletion.
NoGhosts ==
  \A p \in Rows : {p[1], p[2]} \cap gone # {} => member[p] \in crossed

\* A save that nothing overlapped leaves the contact in exactly the groups it
\* asked for, whatever overlapping saves had left behind; they differ later by
\* deletions only.
LoneSaveSettles ==
  \A c \in written \ gone :
    saved[c] \notin crossed \cup tangled =>
      {g \in Groups : member[<<c, g>>] # NoRequest} = Asked[saved[c]] \ gone
=============================================================================
