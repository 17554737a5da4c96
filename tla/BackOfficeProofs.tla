------------------------- MODULE BackOfficeProofs --------------------------
(***************************************************************************)
(* What the back office promises: the parts of every text that a send      *)
(* accepts, the template under every set of requests, the price under      *)
(* every set of edits, and the schema under every set of migrations.       *)
(*                                                                         *)
(* A part of a text lacks one unit at most, so that short texts cannot     *)
(* gather a part.  A request writes the columns it changed of the row it   *)
(* loaded and leaves the others as they are.  An edit that changes the     *)
(* price holds the plan's row from its flush to its commit, and its push   *)
(* is in between: while nothing failed, what was pushed last is what is    *)
(* committed next.  What a migration makes of the tables it has locked is  *)
(* what it would make of any schema that is the committed one on them, so  *)
(* that commits of others do not matter to it.                             *)
(***************************************************************************)
EXTENDS SchemaMigrations, BackOffice, FiniteSetTheorems, TLAPS

-----------------------------------------------------------------------------
(* SmsText: how the parts of a text fill.                                  *)

\* A part that is full lacks one unit at most, and nothing starts an empty part.
Fills(pack, size) ==
  /\ pack \in [parts : Nat \ {0}, fill : 0..size, units : Nat]
  /\ pack.units <= size * (pack.parts - 1) + pack.fill
  /\ pack.units >= (size - 1) * (pack.parts - 1) + pack.fill
  /\ pack.fill = 0 => pack.parts = 1

\* No part lacks a unit.
Fills1(pack, size) == pack.units = size * (pack.parts - 1) + pack.fill

TextInv ==
  /\ chars \in 0..MaxChars /\ wide \in 0..chars
  /\ foreign \in BOOLEAN /\ astral \in BOOLEAN
  /\ Fills(gsm, 153) /\ Fills(ucs, 67)
  /\ astral => foreign
  /\ ucs.units >= chars /\ (~astral => ucs.units = chars /\ Fills1(ucs, 67))
  /\ foreign => wide = 0
  /\ ~foreign => gsm.units = chars + wide /\ (wide = 0 => Fills1(gsm, 153))

LEMMA PackedFills ==
  ASSUME NEW size \in {67, 153}, NEW pack, Fills(pack, size), NEW n \in {1, 2}
  PROVE  /\ Fills(Text!Packed(pack, n, size), size)
         /\ Text!Packed(pack, n, size).units = pack.units + n
         /\ Fills1(pack, size) /\ n = 1 => Fills1(Text!Packed(pack, n, size), size)
<1> DEFINE q == Text!Packed(pack, n, size)
           Good == /\ Fills(q, size) /\ q.units = pack.units + n
                   /\ (Fills1(pack, size) /\ n = 1 => Fills1(q, size))
<1> SUFFICES Good
  OBVIOUS
<1>1. /\ pack.parts \in Nat \ {0} /\ pack.fill \in 0..size /\ pack.units \in Nat
      /\ pack.units <= size * (pack.parts - 1) + pack.fill
      /\ pack.units >= (size - 1) * (pack.parts - 1) + pack.fill
      /\ pack.fill = 0 => pack.parts = 1
  BY DEF Fills
<1>2. CASE pack.fill + n <= size
  <2>1. q = [parts |-> pack.parts, fill |-> pack.fill + n, units |-> pack.units + n]
    BY <1>2 DEF Text!Packed, Fills
  <2>2. q.parts = pack.parts /\ q.fill = pack.fill + n /\ q.units = pack.units + n
    BY <2>1
  <2>3. q \in [parts : Nat \ {0}, fill : 0..size, units : Nat]
    BY <1>1, <1>2, <2>1
  <2> HIDE DEF q
  <2>4. CASE size = 67
    BY <1>1, <1>2, <2>2, <2>3, <2>4 DEF Fills, Fills1
  <2>5. CASE size = 153
    BY <1>1, <1>2, <2>2, <2>3, <2>5 DEF Fills, Fills1
  <2> QED
    BY <2>4, <2>5
<1>3. CASE pack.fill + n > size
  <2>1. q = [parts |-> pack.parts + 1, fill |-> n, units |-> pack.units + n]
    BY <1>1, <1>3 DEF Text!Packed
  <2>2. q.parts = pack.parts + 1 /\ q.fill = n /\ q.units = pack.units + n
    BY <2>1
  <2>3. q \in [parts : Nat \ {0}, fill : 0..size, units : Nat]
    BY <1>1, <2>1
  <2> HIDE DEF q
  <2>4. CASE size = 67
    BY <1>1, <1>3, <2>2, <2>3, <2>4 DEF Fills, Fills1
  <2>5. CASE size = 153
    BY <1>1, <1>3, <2>2, <2>3, <2>5 DEF Fills, Fills1
  <2> QED
    BY <2>4, <2>5
<1> QED
  BY <1>1, <1>2, <1>3

LEMMA EmptyFills ==
  /\ \A size \in {67, 153} : Fills(Text!Empty, size) /\ Fills1(Text!Empty, size)
  /\ Text!Empty.units = 0
BY DEF Text!Empty, Fills, Fills1

LEMMA TextInit ==
  ASSUME Text!Init
  PROVE  TextInv
<1>1. /\ chars = 0 /\ wide = 0 /\ foreign = FALSE /\ astral = FALSE
      /\ gsm = Text!Empty /\ ucs = Text!Empty
  BY DEF Text!Init
<1>2. MaxChars \in 0..1000
  BY BackOfficeAssumption DEF Text!SmsTextAssumption, Text!MaxLength
<1>3. chars \in 0..MaxChars /\ wide \in 0..chars
  BY <1>1, <1>2
<1>4. /\ Fills(gsm, 153) /\ Fills1(gsm, 153) /\ gsm.units = 0
      /\ Fills(ucs, 67) /\ Fills1(ucs, 67) /\ ucs.units = 0
  BY <1>1, EmptyFills
<1>5. gsm.units = chars + wide /\ ucs.units = chars /\ ucs.units >= chars
  BY <1>1, <1>4
<1>6. foreign \in BOOLEAN /\ astral \in BOOLEAN /\ (astral => foreign) /\ (foreign => wide = 0)
  BY <1>1
<1> QED
  BY <1>3, <1>4, <1>5, <1>6 DEF TextInv

LEMMA TextStep ==
  ASSUME TextInv, NEW kind \in {"basic", "extension", "other", "astral"}, Text!Type(kind)
  PROVE  TextInv'
<1> USE DEF TextInv
<1>1. /\ chars' = chars + 1 /\ chars' \in 0..MaxChars
      /\ foreign' = (foreign \/ kind \in {"other", "astral"})
      /\ astral' = (astral \/ kind = "astral")
      /\ wide' = IF foreign' THEN 0 ELSE wide + Text!Septets(kind) - 1
  BY BackOfficeAssumption DEF Text!Type, Text!SmsTextAssumption, Text!MaxLength
<1>2. /\ Text!Septets(kind) \in {1, 2} /\ (kind # "extension" => Text!Septets(kind) = 1)
      /\ (kind = "extension" => Text!Septets(kind) = 2)
      /\ Text!Units(kind) \in {1, 2} /\ (kind # "astral" => Text!Units(kind) = 1)
  BY DEF Text!Septets, Text!Units
<1>3. /\ Fills(ucs', 67) /\ ucs'.units = ucs.units + Text!Units(kind)
      /\ Fills1(ucs, 67) /\ kind # "astral" => Fills1(ucs', 67)
  BY <1>2, PackedFills DEF Text!Type, Text!PartSize
<1>4. /\ Fills(gsm', 153)
      /\ ~foreign' => /\ gsm'.units = gsm.units + Text!Septets(kind)
                      /\ Fills1(gsm, 153) /\ kind # "extension" => Fills1(gsm', 153)
  <2>1. CASE foreign'
    BY <2>1, EmptyFills DEF Text!Type
  <2>2. CASE ~foreign'
    BY <1>2, <2>2, PackedFills DEF Text!Type, Text!PartSize
  <2> QED
    BY <2>1, <2>2
<1>5. wide' \in 0..chars' /\ foreign' \in BOOLEAN /\ astral' \in BOOLEAN
  BY <1>1, <1>2
<1>6. ucs'.units >= chars' /\ (~astral' => ucs'.units = chars' /\ Fills1(ucs', 67))
  <2>1. ucs.units \in Nat /\ chars \in Nat
    BY BackOfficeAssumption DEF Fills, Text!SmsTextAssumption, Text!MaxLength
  <2>2. ucs'.units >= chars'
    BY <1>1, <1>2, <1>3, <2>1
  <2>3. ASSUME ~astral' PROVE ucs'.units = chars' /\ Fills1(ucs', 67)
    <3>1. ~astral /\ kind # "astral"
      BY <1>1, <2>3
    <3> QED
      BY <1>1, <1>2, <1>3, <2>1, <3>1
  <2> QED
    BY <2>2, <2>3
<1>7. ~foreign' => gsm'.units = chars' + wide' /\ (wide' = 0 => Fills1(gsm', 153))
  BY <1>1, <1>2, <1>4
<1> HIDE DEF TextInv
<1> QED
  BY <1>1, <1>3, <1>4, <1>5, <1>6, <1>7 DEF TextInv

\* The number of parts of a length: sms_segments rounds up.
LEMMA CeilingIs ==
  ASSUME NEW a \in Nat, NEW b \in {67, 70, 153, 160}
  PROVE  /\ Text!Ceiling(a, b) \in Int
         /\ b * Text!Ceiling(a, b) >= a /\ b * Text!Ceiling(a, b) < a + b
BY DEF Text!Ceiling

LEMMA SegmentsFollow ==
  ASSUME TextInv
  PROVE  Text!SegmentsBound
<1> USE DEF TextInv, Fills, Fills1
<1>a. /\ gsm.parts \in Nat \ {0} /\ gsm.fill \in 0..153 /\ gsm.units \in Nat
      /\ ucs.parts \in Nat \ {0} /\ ucs.fill \in 0..67 /\ ucs.units \in Nat
  OBVIOUS
<1>0. chars <= 1000
  BY BackOfficeAssumption DEF Text!SmsTextAssumption, Text!MaxLength
<1>1. CASE foreign
  <2>1. Text!Length = chars /\ wide = 0
    BY <1>1 DEF Text!Length
  <2>2. Text!Parts = IF ucs.units <= 70 THEN 1 ELSE ucs.parts
    BY <1>1 DEF Text!Parts, Text!Capacity
  <2>3. Text!Segments = IF chars = 0 THEN 1 ELSE Text!Ceiling(chars, IF chars <= 70 THEN 70 ELSE 67)
    BY <1>1, <2>1 DEF Text!Segments, Text!PerSegment, Text!PartSize, Text!Capacity
  <2>4. CASE chars = 0
    <3>1. Text!Segments = 1
      BY <2>3, <2>4
    <3>2. Text!Parts >= 1 /\ Text!Parts \in Int /\ (~astral => Text!Parts = 1)
      BY <1>1, <1>a, <2>2, <2>4
    <3> QED
      BY <2>1, <3>1, <3>2 DEF Text!SegmentsBound
  <2>5. CASE chars \in 1..70
    <3>1. Text!Segments = 1
      <4>1. Text!Segments = Text!Ceiling(chars, 70)
        BY <2>3, <2>5
      <4>2. /\ Text!Ceiling(chars, 70) \in Int /\ 70 * Text!Ceiling(chars, 70) >= chars
            /\ 70 * Text!Ceiling(chars, 70) < chars + 70
        BY <2>5, CeilingIs
      <4> QED
        BY <2>5, <4>1, <4>2
    <3>2. Text!Parts >= 1 /\ Text!Parts \in Int /\ (~astral => Text!Parts = 1)
      BY <1>1, <1>a, <2>2, <2>5
    <3> QED
      BY <2>1, <3>1, <3>2 DEF Text!SegmentsBound
  <2>6. CASE chars > 70
    <3>1. Text!Segments = Text!Ceiling(chars, 67)
      BY <2>3, <2>6
    <3>2. /\ Text!Segments \in Int
          /\ 67 * Text!Segments >= chars /\ 67 * Text!Segments < chars + 67
      BY <2>6, <3>1, CeilingIs
    <3>3. Text!Parts = ucs.parts
      BY <1>a, <2>2, <2>6
    <3> QED
      BY <1>a, <2>1, <2>6, <3>2, <3>3 DEF Text!SegmentsBound
  <2> QED
    BY <2>4, <2>5, <2>6
<1>2. CASE ~foreign
  <2> DEFINE l == chars + wide
  <2>1. Text!Length = l /\ ~astral /\ l \in 0..2000 /\ gsm.units = l
    BY <1>0, <1>2 DEF Text!Length
  <2>2. Text!Parts = IF l <= 160 THEN 1 ELSE gsm.parts
    BY <1>2, <2>1 DEF Text!Parts, Text!Capacity
  <2>3. Text!Segments = IF l = 0 THEN 1 ELSE Text!Ceiling(l, IF l <= 160 THEN 160 ELSE 153)
    BY <1>2, <2>1 DEF Text!Segments, Text!PerSegment, Text!PartSize, Text!Capacity
  <2> HIDE DEF l
  <2>4. CASE l = 0
    BY <2>2, <2>3, <2>4 DEF Text!SegmentsBound
  <2>5. CASE l \in 1..160
    <3>a. Text!Segments = Text!Ceiling(l, 160) /\ l \in Nat
      BY <2>3, <2>5
    <3>1. /\ Text!Segments \in Int
          /\ 160 * Text!Segments >= l /\ 160 * Text!Segments < l + 160
      BY <3>a, CeilingIs
    <3>2. Text!Segments = 1 /\ Text!Parts = 1
      BY <2>2, <2>5, <3>1
    <3> QED
      BY <3>2 DEF Text!SegmentsBound
  <2>6. CASE l > 160
    <3>1. Text!Segments = Text!Ceiling(l, 153) /\ Text!Parts = gsm.parts
      BY <2>1, <2>2, <2>3, <2>6
    <3>2. /\ Text!Segments \in Int
          /\ 153 * Text!Segments >= l /\ 153 * Text!Segments < l + 153
      BY <2>1, <2>6, <3>1, CeilingIs
    <3> QED
      BY <1>2, <1>a, <2>1, <2>6, <3>1, <3>2 DEF Text!SegmentsBound
  <2> QED
    BY <2>1, <2>4, <2>5, <2>6
<1> QED
  BY <1>1, <1>2

\* For every text that a send accepts (SendIn.text), the service shows what a
\* phone sends, but for characters that cannot be cut (sms_segments).
THEOREM SegmentsTheorem == SpecOffice => []SegmentsBound
<1>1. InitOffice => TextInv
  BY TextInit DEF InitOffice
<1>2. TextInv /\ [NextOffice]_<<part, officeVars>> => TextInv'
  <2>1. ASSUME TextInv, UNCHANGED textVars PROVE TextInv'
    BY <2>1 DEF textVars, TextInv
  <2> QED
    BY <2>1, TextStep DEF NextOffice, officeVars, Text!Next
<1>3. TextInv => SegmentsBound
  BY SegmentsFollow DEF SegmentsBound
<1> QED
  BY <1>1, <1>2, <1>3, PTL DEF SpecOffice

-----------------------------------------------------------------------------
(* Templates: what a commit merges.                                        *)

Drafts == [text : Texts, variables : {VariablesOf[t] : t \in Texts}, used : Nat, gone : BOOLEAN]

TemplateInv ==
  /\ row \in Drafts
  /\ loaded \in [OneTemplate!Requests -> Drafts]
  /\ stand \in [OneTemplate!Requests -> {"waiting", "loaded", "flushed", "done", "refused", "failed"}]
  /\ IsFiniteSet(uses) /\ \A r \in uses : stand[r] = "done"
  /\ OneTemplate!TemplateSettles

\* A request writes the column it is for, and keeps the others as they are.
LEMMA MergedIs ==
  ASSUME TemplateInv, NEW r \in OneTemplate!Requests
  PROVE  /\ OneTemplate!Merged(r) \in Drafts
         /\ r \in Edits /\ loaded[r].text = row.text /\ loaded[r].variables = row.variables =>
              OneTemplate!Merged(r).variables = VariablesOf[OneTemplate!Merged(r).text]
         /\ r \notin Edits => /\ OneTemplate!Merged(r).text = row.text
                              /\ OneTemplate!Merged(r).variables = row.variables
         /\ OneTemplate!Merged(r).used = IF r \in Uses THEN loaded[r].used + 1 ELSE row.used
<1> DEFINE w == OneTemplate!Worked(r)
           m == OneTemplate!Merged(r)
<1>1. /\ row \in Drafts /\ loaded[r] \in Drafts
      /\ DOMAIN row = {"text", "variables", "used", "gone"}
  BY DEF TemplateInv, Drafts
<1>2. /\ r \in Edits => w = [loaded[r] EXCEPT !.text = NewText[r], !.variables = VariablesOf[NewText[r]]]
      /\ r \in Edits => NewText[r] \in Texts
      /\ r \in Uses => w = [loaded[r] EXCEPT !.used = @ + 1]
      /\ r \in Deletions => w = [loaded[r] EXCEPT !.gone = TRUE]
      /\ r \in Edits \cup Uses \cup Deletions
      /\ r \in Uses => r \notin Edits /\ r \notin Deletions
      /\ r \in Deletions => r \notin Edits
  BY BackOfficeAssumption
  DEF OneTemplate!Worked, OneTemplate!Extracted, OneTemplate!Requests, OneTemplate!TemplatesAssumption
<1>3. /\ w \in Drafts
      /\ r \notin Edits => w.text = loaded[r].text /\ w.variables = loaded[r].variables
      /\ r \in Edits => w.text = NewText[r] /\ w.variables = VariablesOf[NewText[r]]
      /\ r \in Uses => w.used = loaded[r].used + 1 /\ w.used # loaded[r].used
      /\ r \notin Uses => w.used = loaded[r].used
  <2>1. CASE r \in Edits
    BY <1>1, <1>2, <2>1 DEF Drafts
  <2>2. CASE r \in Uses
    BY <1>1, <1>2, <2>2 DEF Drafts
  <2>3. CASE r \in Deletions
    BY <1>1, <1>2, <2>3 DEF Drafts
  <2> QED
    BY <1>2, <2>1, <2>2, <2>3
<1>4. m = [text |-> IF w.text # loaded[r].text THEN w.text ELSE row.text,
           variables |-> IF w.variables # loaded[r].variables THEN w.variables ELSE row.variables,
           used |-> IF w.used # loaded[r].used THEN w.used ELSE row.used,
           gone |-> IF w.gone # loaded[r].gone THEN w.gone ELSE row.gone]
  BY <1>1 DEF OneTemplate!Merged
<1>5. /\ m.text = IF w.text # loaded[r].text THEN w.text ELSE row.text
      /\ m.variables = IF w.variables # loaded[r].variables THEN w.variables ELSE row.variables
      /\ m.used = IF w.used # loaded[r].used THEN w.used ELSE row.used
  BY <1>4
<1>6. m \in Drafts
  BY <1>1, <1>3, <1>4 DEF Drafts
<1> HIDE DEF w, m
<1>7. /\ r \in Edits /\ loaded[r].text = row.text /\ loaded[r].variables = row.variables =>
           m.variables = VariablesOf[m.text]
      /\ r \notin Edits => m.text = row.text /\ m.variables = row.variables
      /\ m.used = IF r \in Uses THEN loaded[r].used + 1 ELSE row.used
  BY <1>3, <1>5
<1> QED
  BY <1>6, <1>7 DEF m

LEMMA TemplateInit ==
  ASSUME OneTemplate!Init
  PROVE  TemplateInv
<1>1. OneTemplate!Created(FirstText) \in Drafts
  BY BackOfficeAssumption
  DEF OneTemplate!Created, OneTemplate!Extracted, Drafts, OneTemplate!TemplatesAssumption
<1>2. IsFiniteSet(uses) /\ OneTemplate!Cardinality(uses) = 0
  BY FS_EmptySet DEF OneTemplate!Init, OneTemplate!Cardinality, Cardinality
<1>3. row.variables = VariablesOf[row.text] /\ row.used = 0
  BY DEF OneTemplate!Init, OneTemplate!Created, OneTemplate!Extracted
<1> QED
  BY <1>1, <1>2, <1>3 DEF TemplateInv, OneTemplate!Init, OneTemplate!TemplateSettles

LEMMA TemplateStep ==
  ASSUME TemplateInv, OneTemplate!Next
  PROVE  TemplateInv'
<1> PICK r \in OneTemplate!Requests :
      OneTemplate!Load(r) \/ OneTemplate!Flush(r) \/ OneTemplate!Commit(r) \/ OneTemplate!Rollback(r)
  BY DEF OneTemplate!Next
<1>a. \A S : OneTemplate!Cardinality(S) = Cardinality(S)
  BY DEF OneTemplate!Cardinality, Cardinality
<1>1. CASE OneTemplate!Load(r) \/ OneTemplate!Flush(r) \/ OneTemplate!Rollback(r)
  <2>1. /\ UNCHANGED <<row, staleEdit, staleUses, uses>>
        /\ loaded' \in [OneTemplate!Requests -> Drafts]
        /\ stand' \in [OneTemplate!Requests -> {"waiting", "loaded", "flushed", "done", "refused", "failed"}]
        /\ \A q \in uses : stand'[q] = "done"
    <3>1. CASE OneTemplate!Load(r)
      BY <3>1 DEF OneTemplate!Load, OneTemplate!Go, TemplateInv
    <3>2. CASE OneTemplate!Flush(r)
      BY <3>2 DEF OneTemplate!Flush, OneTemplate!Go, TemplateInv
    <3>3. CASE OneTemplate!Rollback(r)
      BY <3>3 DEF OneTemplate!Rollback, OneTemplate!Go, TemplateInv
    <3> QED
      BY <1>1, <3>1, <3>2, <3>3
  <2>2. OneTemplate!TemplateSettles'
    BY <1>a, <2>1 DEF TemplateInv, OneTemplate!TemplateSettles
  <2> QED
    BY <2>1, <2>2 DEF TemplateInv
<1>2. CASE OneTemplate!Commit(r)
  <2> USE <1>2 DEF OneTemplate!Commit
  <2>1. row' \in Drafts /\ loaded' = loaded
    BY MergedIs
  <2>2. /\ stand' \in [OneTemplate!Requests -> {"waiting", "loaded", "flushed", "done", "refused", "failed"}]
        /\ r \notin uses /\ \A q \in uses' : stand'[q] = "done"
    BY DEF OneTemplate!Go, TemplateInv
  <2>3. row'.variables = VariablesOf[row'.text] \/ staleEdit'
    BY MergedIs DEF TemplateInv, OneTemplate!TemplateSettles
  <2>4. IsFiniteSet(uses') /\ Cardinality(uses') = IF r \in Uses THEN Cardinality(uses) + 1 ELSE Cardinality(uses)
    BY <2>2, FS_AddElement DEF TemplateInv
  <2>5. row'.used = Cardinality(uses') \/ staleUses' # {}
    <3>1. row'.used = IF r \in Uses THEN loaded[r].used + 1 ELSE row.used
      BY MergedIs
    <3>2. row.used = Cardinality(uses) \/ staleUses # {}
      BY <1>a DEF TemplateInv, OneTemplate!TemplateSettles
    <3> QED
      BY <2>4, <3>1, <3>2
  <2> QED
    BY <1>a, <2>1, <2>2, <2>3, <2>4, <2>5 DEF TemplateInv, OneTemplate!TemplateSettles
<1> QED
  BY <1>1, <1>2

\* For any number of requests of any texts, placeholders and uses go wrong by
\* overlaps only (template_service, template_repo.update_fields).
THEOREM TemplateTheorem == SpecOffice => []TemplateSettles
<1>1. InitOffice => TemplateInv
  BY TemplateInit DEF InitOffice
<1>2. TemplateInv /\ [NextOffice]_<<part, officeVars>> => TemplateInv'
  <2>1. ASSUME TemplateInv, UNCHANGED templateVars PROVE TemplateInv'
    <3>1. \A S : OneTemplate!Cardinality(S) = Cardinality(S)
      BY DEF OneTemplate!Cardinality, Cardinality
    <3> QED
      BY <2>1, <3>1 DEF templateVars, TemplateInv, OneTemplate!TemplateSettles
  <2> QED
    BY <2>1, TemplateStep DEF NextOffice, officeVars
<1>3. TemplateInv => TemplateSettles
  BY DEF TemplateInv, TemplateSettles
<1> QED
  BY <1>1, <1>2, <1>3, PTL DEF SpecOffice

-----------------------------------------------------------------------------
(* PlanPricing: pushes are made in the order of the commits.               *)

\* An edit that changes the price holds the row from its flush to its end, and
\* one that has pushed and holds it pushed last.
PriceInv ==
  /\ phase \in [PriceEdits -> {"waiting", "loaded", "flushed", "pushed", "done", "failed"}]
  /\ drift \in BOOLEAN
  /\ \A e \in PriceEdits : phase[e] \in {"flushed", "pushed"} /\ Pricing!Changes(e) => locker = e
  /\ ~drift =>
       IF \E e \in PriceEdits : phase[e] = "pushed" /\ Pricing!Changes(e)
       THEN \A e \in PriceEdits : phase[e] = "pushed" /\ Pricing!Changes(e) => polar = Pricing!Charged(NewPrice[e])
       ELSE polar = Pricing!Charged(price)

LEMMA PriceInit ==
  ASSUME Pricing!Init
  PROVE  PriceInv
BY BackOfficeAssumption DEF Pricing!PricingAssumption, Pricing!Init, PriceInv

LEMMA PriceStep ==
  ASSUME PriceInv, Pricing!Next
  PROVE  PriceInv'
<1> USE BackOfficeAssumption
    DEF Pricing!PricingAssumption, PriceInv, Pricing!Changes, Pricing!Go, Pricing!Unlock
<1>1. ASSUME NEW e \in PriceEdits, Pricing!Load(e) PROVE PriceInv'
  BY <1>1 DEF Pricing!Load
<1>2. ASSUME NEW e \in PriceEdits, Pricing!Flush(e) PROVE PriceInv'
  BY <1>2 DEF Pricing!Flush
<1>3. ASSUME NEW e \in PriceEdits, Pricing!Push(e) PROVE PriceInv'
  BY <1>3 DEF Pricing!Push, Pricing!Outdated
<1>4. ASSUME NEW e \in PriceEdits, Pricing!PushFails(e) PROVE PriceInv'
  BY <1>4 DEF Pricing!PushFails
<1>5. ASSUME NEW e \in PriceEdits, Pricing!Commit(e) PROVE PriceInv'
  BY <1>5 DEF Pricing!Commit
<1>6. ASSUME NEW e \in PriceEdits, Pricing!Rollback(e) PROVE PriceInv'
  BY <1>6 DEF Pricing!Rollback
<1>7. ASSUME NEW c \in late, Pricing!Arrives(c) PROVE PriceInv'
  BY <1>7 DEF Pricing!Arrives
<1> QED
  BY <1>1, <1>2, <1>3, <1>4, <1>5, <1>6, <1>7 DEF Pricing!Next

\* For any number of edits, any prices and any configured currency, Polar has the
\* plan's figure in hundredths, but for the failures that are named
\* (admin_service.update_plan, polar_service.sync_product_price).
THEOREM PriceTheorem == SpecOffice => []PricesAgree
<1>1. InitOffice => PriceInv
  BY PriceInit DEF InitOffice
<1>2. PriceInv /\ [NextOffice]_<<part, officeVars>> => PriceInv'
  <2>1. ASSUME PriceInv, UNCHANGED pricingVars PROVE PriceInv'
    BY <2>1 DEF pricingVars, PriceInv, Pricing!Changes, Pricing!Charged
  <2> QED
    BY <2>1, PriceStep DEF NextOffice, officeVars
<1>3. PriceInv => PricesAgree
  BY DEF PriceInv, PricesAgree, Pricing!PricesAgree, Pricing!Charged, Pricing!ToMinor
<1> QED
  BY <1>1, <1>2, <1>3, PTL DEF SpecOffice

-----------------------------------------------------------------------------
(* SchemaMigrations: what a run has worked on is what it commits.          *)

Names == Tables(Models) \cup {Versions}

RunShape ==
  /\ schema \in Schemas
  /\ tableLock \in [Names -> Runs \cup {NoRun}]
  /\ since \in [Runs -> 0..Newest] /\ to \in [Runs -> 0..Newest]
  /\ pos \in [Runs -> Nat \ {0}]
  /\ stage \in [Runs -> {"idle", "running", "serving", "done", "killed", "refused", "failed"}]
  /\ DOMAIN own = Runs
  /\ \A r \in Running : pos[r] <= Len(Statements(r)) + 1
  /\ \A r \in Running \cap Deployments : to[r] = Newest

\* Only runs hold locks, and what a run changed is in tables it has locked.
ChangesAreLocked ==
  /\ \A t \in Names : tableLock[t] # NoRun => tableLock[t] \in Running
  /\ \A r \in Runs : \A f \in own[r] : f[1] \in Names /\ tableLock[f[1]] = r

\* Schema s is the committed one on the tables that r has locked.
Alike(s, r) ==
  \A f \in s \cup schema : tableLock[f[1]] = r => (f \in s <=> f \in schema)

\* Were any such schema committed when the run is done, it would be the one that
\* the statements so far have worked on.
Worked ==
  \A r \in Running, s \in Schemas : Alike(s, r) =>
    LET t == Traces[<<since[r], to[r], s>>]
    IN /\ t[pos[r]] = {f \in s : tableLock[f[1]] # r} \cup own[r]
       /\ \A k \in 1..(pos[r] - 1) : Finds(Statements(r)[k], t[k])

\* A server that is not behind a downgrade has the newest revision, and so has one
\* that found it and has nothing to do.
ServersAreNew ==
  \A d \in Deployments \ lowered :
    stage[d] = "serving" \/ (stage[d] = "running" /\ since[d] = Newest) => Revision(schema) = Newest

\* A run that nothing overlapped is alone, with the revision it found.
AloneAsFound ==
  \A r \in Runs \ overlapped :
    /\ stage[r] # "failed"
    /\ stage[r] = "running" => Running = {r} /\ since[r] = Revision(schema)

SchemaInv == RunShape /\ ChangesAreLocked /\ Worked /\ ServersAreNew /\ AloneAsFound

LEMMA SchemaInit == Init => SchemaInv
<1> SUFFICES ASSUME Init PROVE SchemaInv
  OBVIOUS
<1> USE DEF Init
<1>1. Running = {}
  BY DEF Running
<1>2. RunShape
  BY <1>1, ShapesAssumption DEF RunShape, Names, Newest
<1>3. ChangesAreLocked /\ Worked
  BY <1>1 DEF ChangesAreLocked, Worked, Names
<1>4. ServersAreNew /\ AloneAsFound
  BY DEF ServersAreNew, AloneAsFound, Runs
<1> QED
  BY <1>2, <1>3, <1>4 DEF SchemaInv

-----------------------------------------------------------------------------
(* What a run sees.                                                        *)

\* What ScriptsAssumption says of a run.
LEMMA TracesAre ==
  ASSUME RunShape, NEW r \in Running, NEW s \in Schemas
  PROVE  LET o == Statements(r)
             t == Traces[<<since[r], to[r], s>>]
         IN /\ Len(o) \in Nat /\ t[1] = s
            /\ \A k \in 1..Len(o) :
                 /\ t[k + 1] = After(o[k], t[k])
                 /\ o[k].op \in DDL /\ \A f \in o[k].facts : f[1] = o[k].table
                 /\ Locks(o[k], t[k]) \subseteq Names
            /\ \A k \in 1..(Len(o) + 1) : Tables(t[k]) \subseteq Names
            /\ IF since[r] = to[r] THEN Len(o) = 0
               ELSE IF Revision(s) = since[r]
               THEN /\ t[Len(o) + 1] \in Schemas /\ Revision(t[Len(o) + 1]) = to[r]
                    /\ \A k \in 1..Len(o) : Fits(o[k], t[k])
               ELSE \E k \in 1..Len(o) : ~Finds(o[k], t[k])
<1>1. since[r] \in 0..Newest /\ to[r] \in 0..Newest
  BY DEF RunShape, Running
<1> HIDE DEF Newest
<1> QED
  BY <1>1, ScriptsAssumption DEF Statements, Names

\* The same of one of its statements.
LEMMA StepsAre ==
  ASSUME RunShape, NEW r \in Running, NEW s \in Schemas, NEW k \in 1..Len(Statements(r))
  PROVE  /\ Traces[<<since[r], to[r], s>>][k + 1]
               = After(Statements(r)[k], Traces[<<since[r], to[r], s>>][k])
         /\ Statements(r)[k].op \in DDL
         /\ \A f \in Statements(r)[k].facts : f[1] = Statements(r)[k].table
         /\ Locks(Statements(r)[k], Traces[<<since[r], to[r], s>>][k]) \subseteq Names
BY TracesAre

\* Its view is what its statements have made of the committed schema.
LEMMA ViewIs ==
  ASSUME SchemaInv, NEW r \in Running
  PROVE  /\ View(r) = Traces[<<since[r], to[r], schema>>][pos[r]]
         /\ Tables(View(r)) \subseteq Names
         /\ \A k \in 1..(pos[r] - 1) :
              Finds(Statements(r)[k], Traces[<<since[r], to[r], schema>>][k])
<1>1. Alike(schema, r) /\ schema \in Schemas
  BY DEF Alike, SchemaInv, RunShape
<1>2. View(r) = Traces[<<since[r], to[r], schema>>][pos[r]]
  BY <1>1 DEF SchemaInv, Worked, View
<1>3. pos[r] \in 1..(Len(Statements(r)) + 1)
  BY TracesAre, <1>1 DEF SchemaInv, RunShape, Running
<1>4. Tables(View(r)) \subseteq Names
  BY <1>1, <1>2, <1>3, TracesAre DEF SchemaInv
<1> QED
  BY <1>1, <1>2, <1>4 DEF SchemaInv, Worked

\* A trace begins with the schema it is of, and names known tables only.
LEMMA ScriptBegins ==
  ASSUME NEW i \in 0..Newest, NEW j \in 0..Newest, NEW s \in Schemas
  PROVE  /\ Len(Scripts[<<i, j>>]) \in Nat /\ Traces[<<i, j, s>>][1] = s
         /\ \A k \in 1..(Len(Scripts[<<i, j>>]) + 1) : Tables(Traces[<<i, j, s>>][k]) \subseteq Names
<1>1. Len(Scripts[<<i, j>>]) \in Nat /\ Traces[<<i, j, s>>][1] = s
  BY ScriptsAssumption
<1>2. ASSUME NEW k \in 1..(Len(Scripts[<<i, j>>]) + 1)
      PROVE  Tables(Traces[<<i, j, s>>][k]) \subseteq Names
  BY ScriptsAssumption DEF Names
<1> QED
  BY <1>1, <1>2

LEMMA SchemasAreNamed ==
  ASSUME NEW s \in Schemas
  PROVE  \A f \in s : f[1] \in Names
<1>1. 0 \in 0..Newest
  BY DEF Newest
<1>2. /\ Len(Scripts[<<0, 0>>]) \in Nat /\ Traces[<<0, 0, s>>][1] = s
      /\ \A k \in 1..(Len(Scripts[<<0, 0>>]) + 1) : Tables(Traces[<<0, 0, s>>][k]) \subseteq Names
  BY <1>1, ScriptBegins
<1>3. 1 \in 1..(Len(Scripts[<<0, 0>>]) + 1)
  BY <1>2
<1> QED
  BY <1>2, <1>3 DEF Tables

\* A step of others leaves what run q has worked on as it is.
LEMMA WorkedKeeps ==
  ASSUME RunShape, RunShape', Worked, NEW q \in Running,
         since'[q] = since[q], to'[q] = to[q], pos'[q] = pos[q], own'[q] = own[q],
         \A t \in Names : tableLock'[t] = q <=> tableLock[t] = q,
         \A f \in schema \cup schema' : tableLock[f[1]] = q => (f \in schema <=> f \in schema'),
         NEW s \in Schemas, Alike(s, q)'
  PROVE  LET t == Traces[<<since'[q], to'[q], s>>]
         IN /\ t[pos'[q]] = {f \in s : tableLock'[f[1]] # q} \cup own'[q]
            /\ \A k \in 1..(pos'[q] - 1) : Finds(Statements(q)'[k], t[k])
<1>1. \A f \in s \cup schema \cup schema' : f[1] \in Names
  BY SchemasAreNamed DEF RunShape
<1>2. Alike(s, q)
  BY <1>1 DEF Alike
<1>3. Statements(q)' = Statements(q)
  BY DEF Statements
<1>4. {f \in s : tableLock'[f[1]] # q} = {f \in s : tableLock[f[1]] # q}
  BY <1>1
<1> QED
  BY <1>2, <1>3, <1>4 DEF Worked

-----------------------------------------------------------------------------
(* A run begins.                                                           *)

LEMMA StartKeeps ==
  ASSUME SchemaInv, NEW r \in Runs, Start(r)
  PROVE  SchemaInv'
<1> USE DEF Start
<1>1. Running' = Running \cup {r}
  BY DEF SchemaInv, RunShape, Running
<1>2. Revision(schema) \in 0..Newest /\ Newest \in 0..Newest
  BY ShapesAssumption DEF SchemaInv, RunShape, Newest
<1>3. RunShape'
  <2>1. to' \in [Runs -> 0..Newest] /\ (r \in Deployments => to'[r] = Newest)
    <3>1. PICK aim \in IF r \in Deployments THEN {Newest} ELSE Aims : to' = [to EXCEPT ![r] = aim]
      OBVIOUS
    <3>2. aim \in 0..Newest
      BY <1>2, <3>1, SchemaMigrationsAssumption
    <3> QED
      BY <3>1, <3>2 DEF SchemaInv, RunShape
  <2>2. \A q \in Runs : q # r => Statements(q)' = Statements(q) /\ to'[q] = to[q]
    BY DEF SchemaInv, RunShape, Statements
  <2>3. since'[r] \in 0..Newest /\ to'[r] \in 0..Newest
    BY <1>2, <2>1 DEF SchemaInv, RunShape
  <2>4. Len(Statements(r)') \in Nat
    BY <2>3, ShapesAssumption, ScriptBegins DEF Statements
  <2>5. since' \in [Runs -> 0..Newest] /\ pos' \in [Runs -> Nat \ {0}] /\ pos'[r] = 1
    BY <1>2 DEF SchemaInv, RunShape
  <2>6. stage' \in [Runs -> {"idle", "running", "serving", "done", "killed", "refused", "failed"}]
    BY DEF SchemaInv, RunShape
  <2>7. \A q \in Running' : pos'[q] <= Len(Statements(q)') + 1
    BY <1>1, <2>2, <2>4, <2>5 DEF SchemaInv, RunShape, Running
  <2> QED
    BY <1>1, <2>1, <2>2, <2>5, <2>6, <2>7 DEF SchemaInv, RunShape, Running
<1>4. ChangesAreLocked'
  BY <1>1 DEF SchemaInv, ChangesAreLocked
<1>5. Worked'
  <2> SUFFICES ASSUME NEW q \in Running', NEW s \in Schemas, Alike(s, q)'
               PROVE  LET t == Traces[<<since'[q], to'[q], s>>]
                      IN /\ t[pos'[q]] = {f \in s : tableLock'[f[1]] # q} \cup own'[q]
                         /\ \A k \in 1..(pos'[q] - 1) : Finds(Statements(q)'[k], t[k])
    BY DEF Worked
  <2>1. CASE q # r
    <3>1. /\ since'[q] = since[q] /\ to'[q] = to[q] /\ pos'[q] = pos[q]
          /\ q \in Running
      BY <2>1, <1>1 DEF SchemaInv, RunShape, Running
    <3> QED
      BY <3>1, <1>3, WorkedKeeps DEF SchemaInv
  <2>2. CASE q = r
    <3>1. \A f \in s : f[1] \in Names
      BY SchemasAreNamed
    <3>2. \A t \in Names : tableLock[t] # r
      BY SchemaMigrationsAssumption DEF SchemaInv, ChangesAreLocked
    <3>3. own[r] = {}
      BY <3>2 DEF SchemaInv, ChangesAreLocked
    <3>4. pos'[r] = 1
      BY DEF SchemaInv, RunShape
    <3>5. Traces[<<since'[r], to'[r], s>>][1] = s
      <4>1. since'[r] \in 0..Newest /\ to'[r] \in 0..Newest
        BY <1>3 DEF RunShape
      <4>2. \A i, j \in 0..Newest : Traces[<<i, j, s>>][1] = s
        BY ScriptBegins
      <4> HIDE DEF Start
      <4> QED
        BY <4>1, <4>2
    <3> QED
      BY <2>2, <3>1, <3>2, <3>3, <3>4, <3>5
  <2> QED
    BY <2>1, <2>2
<1>6. ServersAreNew'
  <2> SUFFICES ASSUME NEW d \in Deployments \ lowered',
                      stage'[d] = "serving" \/ (stage'[d] = "running" /\ since'[d] = Newest)
               PROVE  Revision(schema) = Newest
    BY DEF ServersAreNew
  <2>1. CASE d = r
    BY <2>1 DEF SchemaInv, RunShape
  <2>2. CASE d # r
    BY <2>2 DEF SchemaInv, RunShape, ServersAreNew, Runs
  <2> QED
    BY <2>1, <2>2
<1>7. AloneAsFound'
  <2>1. CASE Running = {}
    BY <2>1, <1>1 DEF SchemaInv, RunShape, AloneAsFound
  <2>2. CASE Running # {}
    <3>1. Running' \subseteq overlapped' /\ overlapped \subseteq overlapped'
      BY <2>2, <1>1
    <3>2. \A q \in Runs \ overlapped' : stage'[q] = stage[q] /\ q \notin Running'
      BY <3>1, <2>2 DEF SchemaInv, RunShape
    <3> QED
      BY <3>1, <3>2 DEF SchemaInv, AloneAsFound, Running
  <2> QED
    BY <2>1, <2>2
<1> QED
  BY <1>3, <1>4, <1>5, <1>6, <1>7 DEF SchemaInv
-----------------------------------------------------------------------------
(* A run executes a statement.                                             *)

\* A statement changes its own table only, and by what it finds there.
LEMMA StatementIsLocal ==
  ASSUME NEW o, o.op \in DDL, \A f \in o.facts : f[1] = o.table, NEW v, NEW w,
         \A f \in v \cup w : f[1] = o.table => (f \in v <=> f \in w)
  PROVE  /\ \A f : f[1] # o.table => (f \in After(o, v) <=> f \in v)
         /\ \A f : f[1] = o.table => (f \in After(o, v) <=> f \in After(o, w))
         /\ Finds(o, v) <=> Finds(o, w)
<1>1. \A f : f[1] # o.table => (f \in After(o, v) <=> f \in v)
  BY DEF DDL, After
<1>2. \A f : f[1] = o.table => (f \in After(o, v) <=> f \in After(o, w))
  BY DEF DDL, After
<1>3. Finds(o, v) <=> Finds(o, w)
  BY DEF Finds, Tables
<1> QED
  BY <1>1, <1>2, <1>3

LEMMA ExecuteKeeps ==
  ASSUME SchemaInv, NEW r \in Runs, Execute(r)
  PROVE  SchemaInv'
<1> DEFINE o == Statement(r)
           v == View(r)
           n == Len(Statements(r))
<1>1. /\ r \in Running /\ pos[r] \in 1..n /\ n \in Nat
      /\ \A t \in Locks(o, v) : tableLock[t] \in {r, NoRun}
      /\ Possible(o, v)
  <2>1. /\ r \in Running /\ pos[r] <= n /\ Possible(o, v)
        /\ \A t \in Locks(o, v) : tableLock[t] \in {r, NoRun}
    BY DEF Execute, Ready
  <2>2. n \in Nat
    BY <2>1, TracesAre DEF SchemaInv, RunShape
  <2> QED
    BY <2>1, <2>2 DEF SchemaInv, RunShape
<1>2. /\ tableLock' = [t \in Names |-> IF t \in Locks(o, v) THEN r ELSE tableLock[t]]
      /\ own' = [own EXCEPT ![r] = {f \in After(o, v) : tableLock'[f[1]] = r}]
      /\ pos' = [pos EXCEPT ![r] = @ + 1]
      /\ UNCHANGED <<schema, stage, since, to, social, overlapped, lowered>>
  BY DEF Execute, SchemaInv, RunShape
<1>3. /\ Running' = Running /\ schema \in Schemas
      /\ \A q \in Runs : Statements(q)' = Statements(q)
  BY <1>2 DEF Running, Statements, SchemaInv, RunShape
<1>4. /\ o.op \in DDL /\ \A f \in o.facts : f[1] = o.table
      /\ Locks(o, v) \subseteq Names /\ o.table \in Locks(o, v)
      /\ Tables(v) \subseteq Names
  <2>1. v = Traces[<<since[r], to[r], schema>>][pos[r]] /\ Tables(v) \subseteq Names
    BY <1>1, ViewIs
  <2>2. o.table \in Locks(o, v)
    BY DEF Locks
  <2>3. /\ o.op \in DDL /\ \A f \in o.facts : f[1] = o.table
        /\ Locks(o, Traces[<<since[r], to[r], schema>>][pos[r]]) \subseteq Names
    <3> HIDE DEF v
    <3> QED
      BY <1>1, <1>3, StepsAre DEF Statement, SchemaInv
  <2> QED
    BY <2>1, <2>2, <2>3
<1>5. r # NoRun /\ \A t \in Names : tableLock[t] = r => tableLock'[t] = r
  BY <1>2, SchemaMigrationsAssumption DEF SchemaInv, RunShape
<1>6. \A q \in Runs \ {r}, t \in Names : tableLock'[t] = q <=> tableLock[t] = q
  BY <1>1, <1>2, <1>4, SchemaMigrationsAssumption
<1>7. \A f : f[1] # o.table => (f \in After(o, v) <=> f \in v)
  BY <1>4, StatementIsLocal
<1>8. RunShape'
  <2>1. tableLock' \in [Names -> Runs \cup {NoRun}]
    BY <1>1, <1>2 DEF SchemaInv, RunShape, Running
  <2>2. pos' \in [Runs -> Nat \ {0}] /\ DOMAIN own' = Runs
    BY <1>2 DEF SchemaInv, RunShape
  <2>3. \A q \in Running' : pos'[q] <= Len(Statements(q)') + 1
    BY <1>1, <1>2, <1>3 DEF SchemaInv, RunShape, Running
  <2> QED
    BY <1>2, <1>3, <2>1, <2>2, <2>3 DEF SchemaInv, RunShape, Running
<1>9. ChangesAreLocked'
  <2>1. \A t \in Names : tableLock'[t] # NoRun => tableLock'[t] \in Running'
    BY <1>1, <1>2, <1>3 DEF SchemaInv, ChangesAreLocked
  <2>2. ASSUME NEW q \in Runs, NEW f \in own'[q] PROVE f[1] \in Names /\ tableLock'[f[1]] = q
    <3>1. CASE q = r
      <4>1. f \in After(o, v) /\ tableLock'[f[1]] = r
        BY <1>2, <2>2, <3>1 DEF SchemaInv, RunShape
      <4>2. f[1] \in Names
        BY <4>1, <1>4, <1>7 DEF Tables
      <4> QED
        BY <3>1, <4>1, <4>2
    <3>2. CASE q # r
      <4>1. f \in own[q]
        BY <1>2, <2>2, <3>2 DEF SchemaInv, RunShape
      <4> QED
        BY <4>1, <1>6, <3>2 DEF SchemaInv, ChangesAreLocked
    <3> QED
      BY <3>1, <3>2
  <2> QED
    BY <2>1, <2>2 DEF ChangesAreLocked
<1>10. Worked'
  <2> SUFFICES ASSUME NEW q \in Running', NEW s \in Schemas, Alike(s, q)'
               PROVE  LET t == Traces[<<since'[q], to'[q], s>>]
                      IN /\ t[pos'[q]] = {f \in s : tableLock'[f[1]] # q} \cup own'[q]
                         /\ \A k \in 1..(pos'[q] - 1) : Finds(Statements(q)'[k], t[k])
    BY DEF Worked
  <2>1. CASE q # r
    <3>1. /\ since'[q] = since[q] /\ to'[q] = to[q] /\ pos'[q] = pos[q] /\ own'[q] = own[q]
          /\ q \in Running /\ q \in Runs \ {r} /\ schema' = schema
      BY <1>2, <1>3, <2>1 DEF SchemaInv, RunShape, Running
    <3>2. \A t \in Names : tableLock'[t] = q <=> tableLock[t] = q
      BY <1>6, <3>1
    <3> QED
      BY <3>1, <3>2, <1>8, WorkedKeeps DEF SchemaInv
  <2>2. CASE q = r
    <3> DEFINE t == Traces[<<since[r], to[r], s>>]
               w == {f \in s : tableLock[f[1]] # r} \cup own[r]
    <3>1. \A f \in s \cup schema : f[1] \in Names
      BY <1>3, SchemasAreNamed
    <3>2. \A f \in own[r] : f[1] \in Names /\ tableLock[f[1]] = r
      BY DEF SchemaInv, ChangesAreLocked
    <3>3. Alike(s, r)
      BY <2>2, <3>1, <1>2, <1>5 DEF Alike
    <3>4. t[pos[r]] = w /\ \A k \in 1..(pos[r] - 1) : Finds(Statements(r)[k], t[k])
      BY <1>1, <3>3 DEF SchemaInv, Worked
    <3>5. t[pos[r] + 1] = After(o, w)
      <4>1. t[pos[r] + 1] = After(o, t[pos[r]])
        <5> HIDE DEF w, v
        <5> QED
          BY <1>1, StepsAre DEF SchemaInv, Statement
      <4> QED
        BY <3>4, <4>1
    <3>6. v = {f \in schema : tableLock[f[1]] # r} \cup own[r]
      BY DEF View
    <3>7. \A f \in v \cup w : tableLock'[f[1]] = r => (f \in v <=> f \in w)
      <4>1. \A f \in s \cup schema : tableLock'[f[1]] = r => (f \in s <=> f \in schema)
        BY <2>2, <1>2 DEF Alike
      <4> QED
        BY <3>6, <4>1
    <3>8. tableLock'[o.table] = r
      BY <1>2, <1>4
    <3>9. /\ \A f : f[1] # o.table => (f \in After(o, w) <=> f \in w)
          /\ \A f : f[1] = o.table => (f \in After(o, w) <=> f \in After(o, v))
          /\ Finds(o, w) <=> Finds(o, v)
      <4>1. \A f \in w \cup v : f[1] = o.table => (f \in w <=> f \in v)
        BY <3>7, <3>8
      <4> HIDE DEF w, v, o
      <4> QED
        BY <1>4, <4>1, StatementIsLocal
    <3>10. After(o, w) = {f \in s : tableLock'[f[1]] # r} \cup {f \in After(o, v) : tableLock'[f[1]] = r}
      <4>1. ASSUME NEW f PROVE f \in After(o, w) <=> \/ f \in s /\ tableLock'[f[1]] # r
                                                     \/ f \in After(o, v) /\ tableLock'[f[1]] = r
        <5>1. CASE tableLock'[f[1]] = r
          BY <5>1, <3>7, <3>9, <1>7
        <5>2. CASE tableLock'[f[1]] # r
          <6>1. f[1] # o.table
            BY <3>8, <5>2
          <6>2. f \in w <=> f \in s
            BY <5>2, <3>1, <3>2, <1>5
          <6> QED
            BY <5>2, <6>1, <6>2, <3>9
        <5> QED
          BY <5>1, <5>2
      <4> QED
        BY <4>1
    <3>11. Finds(o, v)
      BY <1>1 DEF Possible, Fits, Finds
    <3>12. pos'[r] = pos[r] + 1 /\ own'[r] = {f \in After(o, v) : tableLock'[f[1]] = r}
      BY <1>2 DEF SchemaInv, RunShape
    <3>13. \A k \in 1..(pos'[r] - 1) : Finds(Statements(r)'[k], t[k])
      <4> SUFFICES ASSUME NEW k \in 1..(pos'[r] - 1) PROVE Finds(Statements(r)[k], t[k])
        BY <1>3
      <4>1. CASE k = pos[r]
        BY <4>1, <3>4, <3>9, <3>11 DEF Statement
      <4>2. CASE k # pos[r]
        BY <4>2, <1>1, <3>4, <3>12
      <4> QED
        BY <4>1, <4>2
    <3> HIDE DEF w, v
    <3> QED
      BY <2>2, <1>2, <3>5, <3>10, <3>12, <3>13
  <2> QED
    BY <2>1, <2>2
<1>11. ServersAreNew' /\ AloneAsFound'
  BY <1>2, <1>3 DEF SchemaInv, ServersAreNew, AloneAsFound
<1> QED
  BY <1>8, <1>9, <1>10, <1>11 DEF SchemaInv
-----------------------------------------------------------------------------
(* A run ends.                                                             *)

LEMMA EndKeeps ==
  ASSUME SchemaInv, NEW r \in Running, NEW p \in {"serving", "done", "killed", "refused", "failed"},
         End(r, p), schema' \in Schemas,
         \A f \in schema \cup schema' : tableLock[f[1]] # r => (f \in schema <=> f \in schema')
  PROVE  RunShape' /\ ChangesAreLocked' /\ Worked' /\ Running' = Running \ {r} /\ stage'[r] = p
<1> USE DEF End
<1>1. r \in Runs /\ Running' = Running \ {r} /\ stage'[r] = p
  BY DEF SchemaInv, RunShape, Running
<1>2. \A q \in Running' : /\ q \in Running /\ q # r
                          /\ since'[q] = since[q] /\ to'[q] = to[q] /\ pos'[q] = pos[q]
                          /\ own'[q] = own[q] /\ Statements(q)' = Statements(q)
  BY <1>1 DEF SchemaInv, RunShape, Running, Statements
<1>3. RunShape'
  <2>1. tableLock' \in [Names -> Runs \cup {NoRun}]
    BY DEF SchemaInv, RunShape
  <2>2. /\ since' \in [Runs -> 0..Newest] /\ to' \in [Runs -> 0..Newest]
        /\ pos' \in [Runs -> Nat \ {0}] /\ DOMAIN own' = Runs
    <3>1. 0 \in 0..Newest /\ 1 \in Nat \ {0}
      BY DEF Newest
    <3>2. since' \in [Runs -> 0..Newest] /\ to' \in [Runs -> 0..Newest]
      BY <3>1 DEF SchemaInv, RunShape
    <3>3. pos' \in [Runs -> Nat \ {0}] /\ DOMAIN own' = Runs
      BY <3>1 DEF SchemaInv, RunShape
    <3> QED
      BY <3>2, <3>3
  <2>3. stage' \in [Runs -> {"idle", "running", "serving", "done", "killed", "refused", "failed"}]
    BY DEF SchemaInv, RunShape
  <2>4. /\ \A q \in Running' : pos'[q] <= Len(Statements(q)') + 1
        /\ \A q \in Running' \cap Deployments : to'[q] = Newest
    BY <1>2 DEF SchemaInv, RunShape
  <2> QED
    BY <2>1, <2>2, <2>3, <2>4 DEF RunShape
<1>4. ChangesAreLocked'
  <2>1. \A t \in Names : tableLock'[t] # NoRun => tableLock'[t] = tableLock[t] /\ tableLock[t] # r
    BY DEF SchemaInv, RunShape
  <2>2. ASSUME NEW q \in Runs, NEW f \in own'[q] PROVE f[1] \in Names /\ tableLock'[f[1]] = q
    <3>1. q # r /\ f \in own[q]
      BY <2>2, <1>1 DEF SchemaInv, RunShape
    <3> QED
      BY <3>1 DEF SchemaInv, RunShape, ChangesAreLocked
  <2> QED
    BY <1>1, <2>1, <2>2 DEF SchemaInv, ChangesAreLocked
<1>5. Worked'
  <2> SUFFICES ASSUME NEW q \in Running', NEW s \in Schemas, Alike(s, q)'
               PROVE  LET t == Traces[<<since'[q], to'[q], s>>]
                      IN /\ t[pos'[q]] = {f \in s : tableLock'[f[1]] # q} \cup own'[q]
                         /\ \A k \in 1..(pos'[q] - 1) : Finds(Statements(q)'[k], t[k])
    BY DEF Worked
  <2>1. q \in Running /\ q # r /\ q \in Runs
    BY <1>2 DEF Running
  <2>2. \A t \in Names : tableLock'[t] = q <=> tableLock[t] = q
    BY <2>1, SchemaMigrationsAssumption DEF SchemaInv, RunShape
  <2>3. \A f \in schema \cup schema' : tableLock[f[1]] = q => (f \in schema <=> f \in schema')
    BY <2>1
  <2> HIDE DEF End
  <2> QED
    BY <1>2, <1>3, <2>1, <2>2, <2>3, WorkedKeeps DEF SchemaInv
<1> QED
  BY <1>1, <1>3, <1>4, <1>5

\* A run that ends without a commit leaves the schema.
LEMMA RollbackKeeps ==
  ASSUME SchemaInv, NEW r \in Runs, Break(r) \/ Kill(r)
  PROVE  SchemaInv'
<1>1. PICK p \in {"killed", "refused", "failed"} : End(r, p) /\ (p = "failed" => Break(r) /\ Statement(r).op # "tighten")
  BY DEF Break, Kill
<1>2. r \in Running /\ UNCHANGED <<schema, social, overlapped, lowered>>
  BY DEF Break, Kill, Ready
<1>3. RunShape' /\ ChangesAreLocked' /\ Worked' /\ Running' = Running \ {r} /\ stage'[r] = p
  BY <1>1, <1>2, EndKeeps DEF SchemaInv, RunShape
<1>4. \A q \in Runs \ {r} : stage'[q] = stage[q] /\ since'[q] = since[q]
  BY <1>1 DEF End, SchemaInv, RunShape
<1>5. ServersAreNew'
  BY <1>2, <1>3, <1>4 DEF SchemaInv, ServersAreNew, Runs
<1>6. p = "failed" => r \in overlapped
  <2> SUFFICES ASSUME p = "failed", r \notin overlapped PROVE FALSE
    OBVIOUS
  <2>1. Ready(r) /\ ~Possible(Statement(r), View(r)) /\ Statement(r).op # "tighten"
    BY <1>1 DEF Break
  <2>2. ~Fits(Statement(r), View(r))
    BY <2>1 DEF Possible
  <2>3. schema \in Schemas /\ pos[r] \in Nat \ {0} /\ pos[r] <= Len(Statements(r))
    BY <2>1 DEF Ready, SchemaInv, RunShape
  <2>4. Len(Statements(r)) \in Nat
    BY <1>2, <2>3, TracesAre DEF SchemaInv
  <2>5. since[r] = Revision(schema)
    BY <1>2 DEF SchemaInv, AloneAsFound, Running
  <2>6. Fits(Statements(r)[pos[r]], Traces[<<since[r], to[r], schema>>][pos[r]])
    BY <1>2, <2>3, <2>4, <2>5, TracesAre DEF SchemaInv
  <2> QED
    BY <1>2, <2>2, <2>6, ViewIs DEF Statement
<1>7. AloneAsFound'
  <2> SUFFICES ASSUME NEW q \in Runs \ overlapped'
               PROVE  /\ stage'[q] # "failed"
                      /\ stage'[q] = "running" => Running' = {q} /\ since'[q] = Revision(schema)'
    BY DEF AloneAsFound
  <2>1. CASE q = r
    BY <2>1, <1>1, <1>2, <1>3, <1>6
  <2>2. CASE q # r
    <3>1. stage'[q] = stage[q] /\ since'[q] = since[q] /\ q \in Runs \ overlapped
      BY <2>2, <1>2, <1>4
    <3>2. stage[q] # "running"
      BY <2>2, <3>1, <1>2 DEF SchemaInv, AloneAsFound
    <3> QED
      BY <3>1, <3>2 DEF SchemaInv, AloneAsFound
  <2> QED
    BY <2>1, <2>2
<1> QED
  BY <1>3, <1>5, <1>7 DEF SchemaInv

\* What a run commits is the schema of the revision it stamps, and it found the
\* revision it started from.
LEMMA CommitIs ==
  ASSUME SchemaInv, NEW r \in Runs, Commit(r)
  PROVE  /\ schema' \in Schemas
         /\ IF since[r] = to[r] THEN schema' = schema
            ELSE Revision(schema) = since[r] /\ Revision(schema') = to[r]
<1>1. r \in Running /\ pos[r] > Len(Statements(r)) /\ schema' = View(r)
  BY DEF Commit
<1> DEFINE t == Traces[<<since[r], to[r], schema>>]
           n == Len(Statements(r))
<1>2. schema \in Schemas /\ pos[r] \in Nat /\ pos[r] <= n + 1
  BY <1>1 DEF SchemaInv, RunShape
<1>3. n \in Nat /\ t[1] = schema
  BY <1>1, <1>2, TracesAre DEF SchemaInv
<1>4. pos[r] = n + 1
  BY <1>1, <1>2, <1>3
<1>5. schema' = t[n + 1] /\ \A k \in 1..n : Finds(Statements(r)[k], t[k])
  BY <1>1, <1>3, <1>4, ViewIs
<1>6. IF since[r] = to[r] THEN n = 0
      ELSE IF Revision(schema) = since[r]
      THEN t[n + 1] \in Schemas /\ Revision(t[n + 1]) = to[r]
      ELSE \E k \in 1..n : ~Finds(Statements(r)[k], t[k])
  BY <1>1, <1>2, TracesAre DEF SchemaInv
<1>7. CASE since[r] = to[r]
  BY <1>2, <1>3, <1>5, <1>6, <1>7
<1>8. CASE since[r] # to[r]
  BY <1>5, <1>6, <1>8
<1> QED
  BY <1>7, <1>8

LEMMA CommitKeeps ==
  ASSUME SchemaInv, NEW r \in Runs, Commit(r)
  PROVE  SchemaInv'
<1> DEFINE p == IF r \in Deployments THEN "serving" ELSE "done"
<1>1. /\ r \in Running /\ schema' = View(r) /\ End(r, p)
      /\ lowered' = IF to[r] < since[r] THEN Deployments \ {r} ELSE lowered
      /\ overlapped' = overlapped
  BY DEF Commit
<1>2. /\ schema' \in Schemas
      /\ IF since[r] = to[r] THEN schema' = schema
         ELSE Revision(schema) = since[r] /\ Revision(schema') = to[r]
  BY CommitIs
<1>3. \A f \in schema \cup schema' : tableLock[f[1]] # r => (f \in schema <=> f \in schema')
  BY <1>1 DEF View, SchemaInv, ChangesAreLocked
<1>4. RunShape' /\ ChangesAreLocked' /\ Worked' /\ Running' = Running \ {r} /\ stage'[r] = p
  BY <1>1, <1>2, <1>3, EndKeeps
<1>5. \A q \in Runs \ {r} : stage'[q] = stage[q] /\ since'[q] = since[q]
  BY <1>1 DEF End, SchemaInv, RunShape
<1>6. since[r] \in 0..Newest /\ to[r] \in 0..Newest /\ (r \in Deployments => to[r] = Newest)
  BY <1>1 DEF SchemaInv, RunShape
<1>7. ServersAreNew'
  <2> SUFFICES ASSUME NEW d \in Deployments \ lowered',
                      stage'[d] = "serving" \/ (stage'[d] = "running" /\ since'[d] = Newest)
               PROVE  Revision(schema') = Newest
    BY DEF ServersAreNew
  <2>1. CASE d = r
    <3>1. ~(to[r] < since[r]) /\ to[r] = Newest
      BY <2>1, <1>6 DEF Newest
    <3>2. d \in Deployments \ lowered
      BY <1>1, <3>1
    <3>3. CASE since[r] = to[r]
      BY <1>1, <1>2, <2>1, <3>1, <3>2, <3>3 DEF SchemaInv, ServersAreNew, Running
    <3> QED
      BY <1>2, <3>1, <3>3
  <2>2. CASE d # r
    <3>1. ~(to[r] < since[r]) /\ d \in Deployments \ lowered
      BY <1>1, <2>2
    <3>2. Revision(schema) = Newest
      BY <2>2, <1>5, <3>1 DEF SchemaInv, ServersAreNew, Runs
    <3> QED
      BY <1>2, <1>6, <3>1, <3>2 DEF Newest
  <2> QED
    BY <2>1, <2>2
<1>8. AloneAsFound'
  <2> SUFFICES ASSUME NEW q \in Runs \ overlapped
               PROVE  /\ stage'[q] # "failed"
                      /\ stage'[q] = "running" => Running' = {q} /\ since'[q] = Revision(schema')
    BY <1>1 DEF AloneAsFound
  <2>1. CASE q = r
    BY <2>1, <1>4
  <2>2. CASE q # r
    <3>1. stage'[q] = stage[q] /\ stage[q] # "running"
      BY <2>2, <1>1, <1>5 DEF SchemaInv, AloneAsFound
    <3> QED
      BY <3>1 DEF SchemaInv, AloneAsFound
  <2> QED
    BY <2>1, <2>2
<1> QED
  BY <1>4, <1>7, <1>8 DEF SchemaInv

-----------------------------------------------------------------------------

LEMMA SchemaStep == SchemaInv /\ [Next]_vars => SchemaInv'
<1> SUFFICES ASSUME SchemaInv, [Next]_vars PROVE SchemaInv'
  OBVIOUS
<1>1. ASSUME UNCHANGED <<schema, own, tableLock, stage, since, to, pos, overlapped, lowered>>
      PROVE  SchemaInv'
  <2>1. Running' = Running /\ \A r \in Runs : Statements(r)' = Statements(r)
    BY <1>1 DEF Running, Statements
  <2>2. RunShape' /\ ChangesAreLocked'
    BY <1>1, <2>1 DEF SchemaInv, RunShape, ChangesAreLocked, Running
  <2>3. Worked'
    BY <1>1, <2>1 DEF SchemaInv, Worked, Alike, Statements
  <2>4. ServersAreNew' /\ AloneAsFound'
    BY <1>1, <2>1 DEF SchemaInv, ServersAreNew, AloneAsFound
  <2> QED
    BY <2>2, <2>3, <2>4 DEF SchemaInv
<1>2. ASSUME NEW r \in Runs, StoreUser(r) PROVE SchemaInv'
  BY <1>1, <1>2 DEF StoreUser
<1>3. CASE UNCHANGED vars
  BY <1>1, <1>3 DEF vars
<1> QED
  BY <1>2, <1>3, StartKeeps, ExecuteKeeps, RollbackKeeps, CommitKeeps DEF Next

LEMMA SchemaHolds == Spec => []SchemaInv
BY SchemaInit, SchemaStep, PTL DEF Spec

\* The schema is that of the revision it names, whatever runs overlap, stop half
\* way or go back (migrations/env.py: one transaction).
THEOREM RevisionTheorem == Spec => []SchemaIsRevision
<1>1. SchemaInv => SchemaIsRevision
  BY ShapesAssumption DEF SchemaInv, RunShape, SchemaIsRevision
<1> QED
  BY <1>1, SchemaHolds, PTL

\* A server finds what its classes name, unless someone has downgraded the schema
\* since it was started (__main__.py).
THEOREM ServesTheorem == Spec => []ServesItsModels
<1>1. SchemaInv => ServesItsModels
  BY ShapesAssumption DEF SchemaInv, RunShape, ServersAreNew, ServesItsModels
<1> QED
  BY <1>1, SchemaHolds, PTL

\* A migration that nothing overlaps is stopped by data only (migrations/versions).
THEOREM MigrationTheorem == Spec => []OnlyDataStopsAMigration
<1>1. SchemaInv => OnlyDataStopsAMigration
  BY DEF SchemaInv, AloneAsFound, OnlyDataStopsAMigration
<1> QED
  BY <1>1, SchemaHolds, PTL
=============================================================================
