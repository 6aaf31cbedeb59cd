CONSTANTS
  c1 = c1
  c2 = c2
  c3 = c3
  same = same
  other = other
  NoTicket = NoTicket
  Callers = {c1, c2, c3}
  Contents = {same, other}
  Content <- MCContent
  MaxAttempts = 3
SPECIFICATION ConfirmSpec
CHECK_DEADLOCK FALSE
SYMMETRY Symmetry
INVARIANTS
  AnnouncedOnce
  AnswersAreTrue
PROPERTIES
  ImplementsOnce
