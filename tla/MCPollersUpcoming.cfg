SPECIFICATION Spec
CONSTANTS
  Issues = {i1, i2}
  Comments = {c1, c2}
  Second = 2
  CommentsPage = 1
  LookBack = 1
  MaxTime = 4
  Mails = {m1, m2, m3}
  Queried = {m1, m2}
  MaxMessages = 2
  MaxMailbox = 4
  Meetings = {e1, e2}
  AllDay = {}
  Offset <- WestOfUTC
  Window = 2
  Length = 2
  Day = 1
  MaxClock = 4
  MaxEdits = 3
SYMMETRY Symmetry
INVARIANTS NotifiedOnce
