\* Two questions over two connections, one document, two limits, two days.
SPECIFICATION AssistantSpec
CONSTANTS
  Docs = {d1}
  Files = {f1}
  Questions = {q1, q2}
  PoolSize = 2
  Cap = 3
  MaxDay = 2
  Limits = {1, 2}
INVARIANTS TypeOK AnswersAreGrounded ViolationsAreReal CallsWithinCap AuditTellsOutcome
PROPERTIES QuestionsEnd
CHECK_DEADLOCK FALSE
