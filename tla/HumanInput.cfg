\* Four asks, refused ones included, and four answers.
SPECIFICATION Spec
CONSTANTS
  MaxRequests = 4
  MaxAnswers = 4
CHECK_DEADLOCK FALSE
INVARIANTS
  OneAnswerPerAsk
  AnswersAreFresh
PROPERTY AsksEnd
