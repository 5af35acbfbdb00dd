\* Two rates, two requests, two days; one shift is enough to be left unpriced.
SPECIFICATION PayRatesSpec
CONSTANTS
  Rates = {p1, p2}
  Shifts = {s1}
  Requests = {q1, q2}
  MaxDay = 2
INVARIANT NeverAmbiguous
PROPERTIES SettledShiftsStayPriced RequestsEnd
