SPECIFICATION FairSpec
CONSTANTS
  Callers = {c1, c2}
  MaxId = 3
INVARIANTS SendsNeverBlock NoWaiterLeaks AnswersMatch
PROPERTY CloseWakesAll
