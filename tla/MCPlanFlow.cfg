\* One connection after another, up to two plans and two questions, three together.
SPECIFICATION Spec
CONSTANTS
  MaxConnections = 1
  MaxPlans = 2
  MaxAsked = 2
  MaxTotal = 3
  MaxRevision = 2
  MaxQueue = 1
INVARIANTS TypeOK RunningListenerIsCurrent NewestPlanIsListenedTo ShownQuestionIsAnswered
PROPERTY QuestionForgottenOnlyWhenOvertaken
