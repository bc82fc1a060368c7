SPECIFICATION ImportSpec
CONSTANTS
  j1 = j1
  j2 = j2
  d1 = d1
  d2 = d2
  Jobs = {j1, j2, d1, d2}
  Resumes = {r1, r2}
  Keys = {k1, k2, k3}
  None = none
  UserTypes = {"hr_replied", "recruitment_paused", "process_resumed", "rejected"}
  Times = {1, 2}
  LegacyStatuses = {"closed", "paused"}
  MaxApplications = 2
  MaxEvents = 4
  MaxResumeEvents = 3
  DraftJobs <- MCDraftJobs
  DraftForms <- MCDraftForms
  NoteForms <- MCNoteForms
  Limits <- MCAll
SYMMETRY MCSymmetry
CHECK_DEADLOCK FALSE
INVARIANTS LogIsWhole ProjectionIsClean ClosedIsFinal ImportedAsPreviewed
PROPERTY VersionNamesContents
