CONSTANTS
  None = None
  d1 = d1
  d2 = d2
  t1 = t1
  t2 = t2
  Thread = {t1, t2}
  Docs <- MCDocs
  InScope <- MCInScope
  Run <- MCRun
  Edit <- MCEdit
  Market = {"carrier_b"}
  MaxLog = 2
  MaxConfirms = 1
  MaxFiles = 2
SYMMETRY Symmetry
SPECIFICATION Spec
INVARIANT TypeOK
INVARIANT SendsWereApproved
INVARIANT ConflictsWereResolved
INVARIANT ApproveAfterDeclineHasReason
INVARIANT NothingProhibitedSent
INVARIANT ResendIsExplicit
