CONSTANTS
\* Two servers that start again and again, and an operator who migrates to the
\* empty schema and to a revision on the way.
  d1 = d1  d2 = d2  o1 = o1
  Deployments = {d1, d2}
  Operators = {o1}
  Aims = {0, 3}
  NoRun = NoRun
\* Three edits, two uses and a deletion of a template with three texts; four
\* edits of a plan with three prices.
  e1 = e1  e2 = e2  e3 = e3
  t1 = t1  t2 = t2  t3 = t3  uzs = uzs
  Edits = {e1, e2, e3}
  Uses = {d1, d2}
  Deletions = {o1}
  Texts = {t1, t2, t3}
  FirstText = t1
  NewText <- TextOfEdit
  VariablesOf <- Placeholders
  NoRequest = NoRequest
  PriceEdits = {e1, e2, e3, o1}
  Mirrored = {e1, e2, e3}
  Prices = {0, 1, 2}
  NewPrice <- PriceOfEdit
  FirstPrice = 0
  Currency = uzs
\* Two parts of the GSM alphabet, three of the other one.
  MaxChars = 162
SPECIFICATION SpecPart
INVARIANTS SchemaIsRevision ServesItsModels OnlyDataStopsAMigration
INVARIANTS TemplateSettles PricesAgree SegmentsBound
SYMMETRY DeploymentSymmetry
CHECK_DEADLOCK FALSE
