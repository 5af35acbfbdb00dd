\* Three days, two logical dates of which the later cleans up the first day,
\* two invocations that may overlap, one counter and one consuming request.
SPECIFICATION Spec
CONSTANTS
  Invocations = {m1, m2}
  Spenders = {q1}
  Counters = {gemini}
  Limit = 1
  MaxDay = 2
  LogicalDates = {2, 3}
INVARIANTS OneWorker StatusIsTrue CapHolds
