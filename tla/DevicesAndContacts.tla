------------------------- MODULE DevicesAndContacts -------------------------
(***************************************************************************)
(* DevicePairing and AddressBook in one specification.  They share no      *)
(* state: a behaviour is one of either, chosen at the start, with the      *)
(* other at rest, so a property of a component is checked exactly as in a  *)
(* run of its own.                                                         *)
(***************************************************************************)
EXTENDS DevicePairing

CONSTANTS
  Groups, Creates, Updates, Renames, ContactDeletes, GroupDeletes, Asked, Nothing

VARIABLES
  part,
  written, gone, member, rowOf, step, aimedAt, left, saved, met, tangled

Book == INSTANCE AddressBook WITH
  locker <- rowOf, phase <- step, target <- aimedAt, todo <- left, crossed <- met
bookVars == <<written, gone, member, rowOf, step, aimedAt, left, saved, met, tangled>>

ASSUME DevicesAndContactsAssumption == Book!AddressBookAssumption

InitPart == part \in {"devices", "contacts"} /\ Init /\ Book!Init

NextPart ==
  \/ part = "devices" /\ Next /\ UNCHANGED <<part, bookVars>>
  \/ part = "contacts" /\ Book!Next /\ UNCHANGED <<part, vars>>

SpecPart == InitPart /\ [][NextPart]_<<part, vars, bookVars>>

\* No membership survives its contact or group but for races, and every variable
\* keeps its shape (AddressBook).
NoGhosts == part = "contacts" => Book!NoGhosts /\ Book!TypeOK

\* A save without overlap settles the groups of the contact (AddressBook).
LoneSaveSettles == part = "contacts" => Book!LoneSaveSettles
=============================================================================
