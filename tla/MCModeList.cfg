CONSTANTS
  Malformed = Malformed
  Absent = Absent
  Lines <- MCLines
  Requests <- MCRequests
  ModesValues <- MCModesValues
  Refreshes <- MCRefreshes
  Defaults <- MCDefaults
  Preferred = 1
  Kinds = {"parse", "target2"}
  SaveFails = TRUE
  MaxEvents = 3
SPECIFICATION Spec
INVARIANTS TypeOK RequestSurvives AnnouncedIsOffered AnsweredInFull
