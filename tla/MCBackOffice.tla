---------------------------- MODULE MCBackOffice ----------------------------
(***************************************************************************)
(* Small instances of SchemaMigrations and of the back office for TLC.     *)
(* They share nothing: a behaviour is one of `part`.                       *)
(***************************************************************************)
EXTENDS SchemaMigrations, BackOffice, TLC

CONSTANTS d1, d2, o1, e1, e2, e3, t1, t2, t3, uzs

\* t1 and t2 have one placeholder, t3 another one.
Placeholders == t1 :> {1} @@ t2 :> {1} @@ t3 :> {2}
TextOfEdit == e1 :> t2 @@ e2 :> t3 @@ e3 :> t1

\* One edit is not pushed, another one sets the price the plan began with.
PriceOfEdit == e1 :> 1 @@ e2 :> 2 @@ e3 :> 0 @@ o1 :> 1

InitPart ==
  /\ part \in {"schema", "template", "pricing", "text"}
  /\ Init /\ InitOffice

NextPart ==
  \/ part = "schema" /\ Next /\ UNCHANGED <<part, officeVars>>
  \/ NextOffice /\ UNCHANGED vars

SpecPart == InitPart /\ [][NextPart]_<<part, vars, officeVars>>

DeploymentSymmetry == Permutations({d1, d2})
=============================================================================
