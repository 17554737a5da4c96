------------------------------ MODULE Identity ------------------------------
(***************************************************************************)
(* Accounts, Access and SignInState in one specification.  They share no   *)
(* state that the properties relate: a behaviour is one of a single        *)
(* component, chosen at the start, with the others at rest, so a property  *)
(* of a component is checked exactly as in a run of its own.               *)
(***************************************************************************)
EXTENDS Accounts

CONSTANTS
  Users, Scopes, Creates, Revokes, Calls, Caller, Granted, Needed, NoRequest, NoKey,
  Providers, Flows, Callbacks, Codes, Allowed, Asked, Frontend, NoFlow, NoCode

VARIABLES
  part,
  keys, revoked, withdrawn, closedOwners, held, locker, callPhase, key, late, shut,
  stored, asked, consented, spent, progress, flow, code, via, home, landed

AccessOf == INSTANCE Access WITH closed <- closedOwners, phase <- callPhase
accessVars == <<keys, revoked, withdrawn, closedOwners, held, locker, callPhase, key, late, shut>>
States == INSTANCE SignInState
stateVars == <<stored, asked, consented, spent, progress, flow, code, via, home, landed>>

ASSUME IdentityAssumption == AccessOf!AccessAssumption /\ States!SignInAssumption

InitPart ==
  /\ part \in {"accounts", "access", "states"} /\ Init
  /\ \/ part = "access" /\ AccessOf!Init
     \/ /\ part # "access"
        /\ keys = 0 /\ revoked = 0 /\ withdrawn = 0 /\ closedOwners = 0 /\ held = 0 /\ locker = 0 /\ callPhase = 0
        /\ key = 0 /\ late = 0 /\ shut = 0
  /\ \/ part = "states" /\ States!Init
     \/ /\ part # "states"
        /\ stored = 0 /\ asked = 0 /\ consented = 0 /\ spent = 0 /\ progress = 0 /\ flow = 0
        /\ code = 0 /\ via = 0 /\ home = 0 /\ landed = 0

NextPart ==
  \/ part = "accounts" /\ Next /\ UNCHANGED <<part, accessVars, stateVars>>
  \/ part = "access" /\ AccessOf!Next /\ UNCHANGED <<part, vars, stateVars>>
  \/ part = "states" /\ States!Next /\ UNCHANGED <<part, vars, accessVars>>

SpecPart == InitPart /\ [][NextPart]_<<part, vars, accessVars, stateVars>>

\* What a request was served with was valid after it began, and every variable
\* keeps its shape (Access).
ServedWasValid == part = "access" => AccessOf!ServedWasValid /\ AccessOf!TypeOK

\* A flow signs in at most once, and where it was started, and every variable
\* keeps its shape (SignInState).
FlowSignsInOnce == part = "states" => States!FlowSignsInOnce /\ States!TypeOK
=============================================================================
