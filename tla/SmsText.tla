------------------------------- MODULE SmsText -------------------------------
(***************************************************************************)
(* How many parts an SMS has: what the service shows and what a phone sends. *)
(*                                                                         *)
(* A text in the GSM alphabet is measured in septets, any other text in    *)
(* units of 16 bits.  A text that does not fit one SMS is cut into parts,  *)
(* shorter by a header, and a character of two units is never cut.  The    *)
(* service divides a length by the size of a part; it takes a character    *)
(* outside the basic plane for one unit.  A text is typed one character at *)
(* a time, and both encodings are packed as it grows.                      *)
(***************************************************************************)
EXTENDS Naturals

CONSTANTS
  MaxChars       (* bound of the model: the longest text                   *)

\* No text that a send accepts is longer.  Beyond some ten thousand
\* characters the parts that end in front of an extension character add up to a
\* second part more.
MaxLength == 1000
SmsTextAssumption == MaxChars \in 0..MaxLength

VARIABLES
  chars,         (* characters typed                                       *)
  wide,          (* extension characters among them, in the GSM alphabet   *)
  foreign,       (* the text left the GSM alphabet                         *)
  astral,        (* characters outside the basic plane                     *)
  gsm, ucs       (* the parts so far: how many, and the units in the last  *)

vars == <<chars, wide, foreign, astral, gsm, ucs>>

Capacity(ucs2) == IF ucs2 THEN 70 ELSE 160
PartSize(ucs2) == IF ucs2 THEN 67 ELSE 153

-----------------------------------------------------------------------------
(* sms_segments.                                                           *)

Length == IF foreign THEN chars ELSE chars + wide

\* Mutant: the header of a part is forgotten.
PerSegmentWhole(length) == Capacity(foreign)
PerSegment(length) == IF length <= Capacity(foreign) THEN Capacity(foreign) ELSE PartSize(foreign)

Ceiling(a, b) == (a + b - 1) \div b
Segments == IF Length = 0 THEN 1 ELSE Ceiling(Length, PerSegment(Length))

-----------------------------------------------------------------------------
(* A phone.                                                                *)

\* A character of n units goes on the last part or starts another one.
Packed(pack, n, size) ==
  IF pack.fill + n <= size THEN [pack EXCEPT !.fill = @ + n, !.units = @ + n]
  ELSE [parts |-> pack.parts + 1, fill |-> n, units |-> pack.units + n]

Parts ==
  LET pack == IF foreign THEN ucs ELSE gsm
  IN  IF pack.units <= Capacity(foreign) THEN 1 ELSE pack.parts

Empty == [parts |-> 1, fill |-> 0, units |-> 0]

\* Septets and 16-bit units of a character of each kind; one that is not in the
\* GSM alphabet has no septets, and ends the count of them.
Septets(kind) == IF kind = "extension" THEN 2 ELSE 1
Units(kind) == IF kind = "astral" THEN 2 ELSE 1

Type(kind) ==
  /\ chars < MaxChars
  /\ chars' = chars + 1
  /\ foreign' = (foreign \/ kind \in {"other", "astral"})
  /\ wide' = IF foreign' THEN 0 ELSE wide + Septets(kind) - 1
  /\ astral' = (astral \/ kind = "astral")
  /\ gsm' = IF foreign' THEN Empty ELSE Packed(gsm, Septets(kind), PartSize(FALSE))
  /\ ucs' = Packed(ucs, Units(kind), PartSize(TRUE))

Init ==
  /\ chars = 0 /\ wide = 0 /\ foreign = FALSE /\ astral = FALSE
  /\ gsm = Empty /\ ucs = Empty

Next == \E kind \in {"basic", "extension", "other", "astral"} : Type(kind)

Spec == Init /\ [][Next]_vars

-----------------------------------------------------------------------------

\* The service never shows more parts than a phone sends.  It shows fewer only
\* for a text with characters outside the basic plane, or by one when an
\* extension character would be cut at the end of a part.
SegmentsBound ==
  /\ Segments <= Parts
  /\ ~astral => Parts <= Segments + 1
  /\ ~astral /\ (foreign \/ wide = 0) => Parts = Segments
=============================================================================
