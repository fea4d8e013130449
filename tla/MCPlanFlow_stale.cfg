\* One plan, one question.
SPECIFICATION Spec
CONSTANTS
  MaxConnections = 1
  MaxPlans = 1
  MaxAsked = 1
  MaxTotal = 2
  MaxRevision = 2
  MaxQueue = 1
INVARIANT AnsweredQuestionWasShown
