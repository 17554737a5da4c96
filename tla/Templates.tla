----------------------------- MODULE Templates -----------------------------
(***************************************************************************)
(* Edits, uses and deletions of one SMS template that overlap.             *)
(*                                                                         *)
(* A request loads the template and works on what it loaded.  Its flush    *)
(* writes the columns whose new value differs from the loaded one, takes   *)
(* the row's lock and keeps it to the end; the other columns keep what     *)
(* somebody else has committed meanwhile.                                  *)
(***************************************************************************)
EXTENDS Naturals, FiniteSets

CONSTANTS
  Edits, Uses, Deletions,  (* requests                                     *)
  Texts,
  NewText,       (* the text of each edit                                  *)
  FirstText,     (* the text the template was created with                 *)
  VariablesOf,   (* the placeholders of each text                          *)
  NoRequest

Requests == Edits \cup Uses \cup Deletions

TemplatesAssumption ==
  /\ FirstText \in Texts /\ NewText \in [Edits -> Texts]
  /\ NoRequest \notin Requests
  /\ Edits \cap Uses = {} /\ Edits \cap Deletions = {} /\ Uses \cap Deletions = {}

VARIABLES
  row,           (* the committed template                                 *)
  loaded,        (* the row each request has loaded                        *)
  phase,         (* where each request is                                  *)
  locker,        (* the request whose transaction locks the row            *)
  staleEdit,     (* history: the last edit did not see the one before it   *)
  staleUses,     (* history: uses that did not see a use before them       *)
  uses           (* history: committed uses                                *)

vars == <<row, loaded, phase, locker, staleEdit, staleUses, uses>>

\* Mutant: the placeholders are kept as they were extracted at creation.
ExtractedOnce(text) == VariablesOf[FirstText]
Extracted(text) == VariablesOf[text]

Created(text) == [text |-> text, variables |-> Extracted(text), used |-> 0, gone |-> FALSE]

Go(r, p) == phase' = [phase EXCEPT ![r] = p]

\* A deleted template is not found.
Load(r) ==
  /\ phase[r] = "waiting"
  /\ loaded' = [loaded EXCEPT ![r] = row]
  /\ Go(r, IF row.gone THEN "refused" ELSE "loaded")
  /\ UNCHANGED <<row, locker, staleEdit, staleUses, uses>>

\* What the request makes of the object it loaded.
Worked(r) ==
  CASE r \in Edits -> [loaded[r] EXCEPT !.text = NewText[r], !.variables = Extracted(NewText[r])]
    [] r \in Uses -> [loaded[r] EXCEPT !.used = @ + 1]
    [] r \in Deletions -> [loaded[r] EXCEPT !.gone = TRUE]

\* No column differs: no statement, no lock.
Flush(r) ==
  /\ phase[r] = "loaded"
  /\ \/ Worked(r) = loaded[r] /\ UNCHANGED locker
     \/ Worked(r) # loaded[r] /\ locker = NoRequest /\ locker' = r
  /\ Go(r, "flushed")
  /\ UNCHANGED <<row, loaded, staleEdit, staleUses, uses>>

Merged(r) ==
  [c \in DOMAIN row |-> IF Worked(r)[c] # loaded[r][c] THEN Worked(r)[c] ELSE row[c]]

Unlock(r) == locker' = IF locker = r THEN NoRequest ELSE locker

Commit(r) ==
  /\ phase[r] = "flushed"
  /\ row' = Merged(r)
  /\ staleEdit' = IF r \in Edits
                  THEN loaded[r].text # row.text \/ loaded[r].variables # row.variables
                  ELSE staleEdit
  /\ staleUses' = IF r \in Uses /\ loaded[r].used # row.used THEN staleUses \cup {r} ELSE staleUses
  /\ uses' = IF r \in Uses THEN uses \cup {r} ELSE uses
  /\ Go(r, "done")
  /\ Unlock(r)
  /\ UNCHANGED loaded

Rollback(r) ==
  /\ phase[r] \in {"loaded", "flushed"}
  /\ Go(r, "failed")
  /\ Unlock(r)
  /\ UNCHANGED <<row, loaded, staleEdit, staleUses, uses>>

Init ==
  /\ row = Created(FirstText)
  /\ loaded = [r \in Requests |-> Created(FirstText)]
  /\ phase = [r \in Requests |-> "waiting"]
  /\ locker = NoRequest
  /\ staleEdit = FALSE /\ staleUses = {} /\ uses = {}

Next == \E r \in Requests : Load(r) \/ Flush(r) \/ Commit(r) \/ Rollback(r)

Spec == Init /\ [][Next]_vars

-----------------------------------------------------------------------------

\* The placeholders shown with a template are those of its text, and it counts
\* every use: two overlapping edits may leave the text of one with the
\* placeholders of the other, which the next edit repairs whatever it changes,
\* and uses are lost only among uses that overlap.
TemplateSettles ==
  /\ row.variables = VariablesOf[row.text] \/ staleEdit
  /\ row.used = Cardinality(uses) \/ staleUses # {}
=============================================================================
