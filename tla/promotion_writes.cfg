SPECIFICATION PromotionSpec
CONSTANTS
  Jobs = {j1, j2}
  Resumes = {}
  Keys = {k1}
  None = none
  UserTypes = {"applied"}
  Times = {1}
  LegacyStatuses = {}
  MaxApplications = 2
  MaxEvents = 3
  MaxResumeEvents = 3
  Asked = {"hr_replied", "explicit_rejection", "user_priority", "user_explicit_request", "no_response"}
  MaxVersions = 2
  MaxPromotions = 2
SYMMETRY MCSymmetry
CHECK_DEADLOCK FALSE
INVARIANT PromotedWholeOnce
PROPERTY ProgressIsProven
