\* Two workflows, one of them scheduled, and two loads of one or of each, by two
\* goroutines that also unload, reload and stop; a channel that one event fills.
SPECIFICATION FairSpec
CONSTANTS
  Names = {wa, wb}
  Insts = {i1, i2}
  Threads = {t1, t2}
  None = None
  Scheduled = {wa}
  Capacity = 1
  MaxEvents = 2
INVARIANTS
  TypeOK
  NoPanic
  NoHandlerInClosedVM
  HandOver
  NoLeak
  NothingLost
PROPERTIES
  ImplementsMailbox
  EventsHandled
  CallsReturn
CHECK_DEADLOCK FALSE
