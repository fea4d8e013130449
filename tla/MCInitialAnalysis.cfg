\* Two changes; a plan request before and one after the upload.
SPECIFICATION Spec
CONSTANTS
  Changes = {c1, c2}
  MaxInfos = 2
  Jobs = {"initial", "followup", "other"}
INVARIANTS TypeOK NoChangeStranded OverlapHasCause SuccessIsOfThisPrompt CleanAfterSuccess
PROPERTIES KeptChangeIsHandled ChangeBoxSpec
CHECK_DEADLOCK FALSE
