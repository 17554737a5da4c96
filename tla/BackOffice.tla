----------------------------- MODULE BackOffice -----------------------------
(***************************************************************************)
(* Templates, PlanPricing and SmsText in one specification.  They share    *)
(* nothing: a behaviour is one of a single component, chosen at the start, *)
(* with the others at rest.                                                *)
(***************************************************************************)
EXTENDS Naturals

CONSTANTS
  Edits, Uses, Deletions, Texts, NewText, FirstText, VariablesOf, NoRequest,
  PriceEdits, Prices, NewPrice, Mirrored, FirstPrice, Currency,
  MaxChars

VARIABLES
  part,
  row, loaded, stand, rowLocker, staleEdit, staleUses, uses,  \* Templates
  price, polar, late, seen, phase, locker, drift,             \* PlanPricing
  chars, wide, foreign, astral, gsm, ucs                      \* SmsText

templateVars == <<row, loaded, stand, rowLocker, staleEdit, staleUses, uses>>
pricingVars == <<price, polar, late, seen, phase, locker, drift>>
textVars == <<chars, wide, foreign, astral, gsm, ucs>>
officeVars == <<templateVars, pricingVars, textVars>>

OneTemplate == INSTANCE Templates WITH phase <- stand, locker <- rowLocker
Pricing == INSTANCE PlanPricing WITH Edits <- PriceEdits, NoEdit <- NoRequest
Text == INSTANCE SmsText

ASSUME BackOfficeAssumption ==
  /\ OneTemplate!TemplatesAssumption
  /\ Pricing!PricingAssumption
  /\ Text!SmsTextAssumption

InitOffice == OneTemplate!Init /\ Pricing!Init /\ Text!Init

NextOffice ==
  \/ part = "template" /\ OneTemplate!Next /\ UNCHANGED <<part, pricingVars, textVars>>
  \/ part = "pricing" /\ Pricing!Next /\ UNCHANGED <<part, templateVars, textVars>>
  \/ part = "text" /\ Text!Next /\ UNCHANGED <<part, templateVars, pricingVars>>

SpecOffice == InitOffice /\ [][NextOffice]_<<part, officeVars>>

-----------------------------------------------------------------------------

\* See Templates: the placeholders and the counter of a template are its own
\* but for edits and uses that overlap.
TemplateSettles == OneTemplate!TemplateSettles

\* See PlanPricing: Polar has the figure of the plan's price once no push waits.
PricesAgree == Pricing!PricesAgree

\* See SmsText: the service and a phone cut a text into the same parts.
SegmentsBound == Text!SegmentsBound
=============================================================================
