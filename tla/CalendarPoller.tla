--------------------------- MODULE CalendarPoller ---------------------------
(***************************************************************************)
(* The poller of Google Calendar (internal/google/calendar_poller.go with  *)
(* ListEvents and ListUpcomingEvents of calendar_client.go).               *)
(*                                                                         *)
(* A poll first asks for what changed since the sync token, then for the   *)
(* events of the next minutes, and announces of these the ones that are    *)
(* not in notifiedUpcoming.  The calendar changes and time passes while    *)
(* the answers are under way.                                              *)
(***************************************************************************)
EXTENDS Integers, FiniteSets

CONSTANTS
  Meetings,  \* the events of the calendar
  AllDay,    \* those that have a date for a start, midnight in the zone of the calendar
  Offset,    \* how far that zone is ahead of UTC; negative west of it
  Window,    \* CalendarPoller.upcomingMins
  Length,    \* how long a meeting takes
  Day,       \* how far the first synchronisation looks back
  MaxClock,  \* bound: the end of time
  MaxEdits   \* bound: changes of the calendar

ASSUME CalendarAssumption ==
  /\ IsFiniteSet(Meetings) /\ AllDay \subseteq Meetings /\ Offset \in Int
  /\ Window \in Nat \ {0} /\ Length \in Nat \ {0}
  /\ Day \in Nat /\ MaxClock \in Nat /\ MaxEdits \in Nat

VARIABLES
  clock,
  edits,            \* Calendar: the number of changes, from 1
  start,            \* Calendar: when a meeting starts
  made,             \* Calendar: when it was created
  version,          \* Calendar: its last change, 0: not there
  gone,             \* Calendar: meetings that were cancelled
  syncToken,        \* CalendarPoller: the changes that are known, 0: none
  lastSync,         \* CalendarPoller.lastSyncTime
  notifiedUpcoming, \* CalendarPoller: the map, as pairs of a meeting and its start
  at,               \* where poll is
  asked,            \* the time in the request that is under way
  toldVersion,      \* history: the change that was announced last
  toldMade,         \* history: meetings that were announced as created
  madeAgain,        \* history: meetings that were announced as created again
  upcoming,         \* history: meetings and starts announced as upcoming
  again             \* history: when such a one was announced again

calendarVars == <<clock, edits, start, made, version, gone, syncToken, lastSync,
                  notifiedUpcoming, at, asked, toldVersion, toldMade, madeAgain, upcoming, again>>
calendar == <<edits, start, made, version, gone>>
changesTold == <<toldVersion, toldMade, madeAgain>>
upcomingTold == <<upcoming, again>>

Times == 0..MaxClock
Starts == 1..(MaxClock + Window)

CalendarTypeOK ==
  /\ clock \in Times /\ edits \in Nat \ {0}
  /\ start \in [Meetings -> {0} \cup Starts] /\ made \in [Meetings -> 0..clock]
  /\ version \in [Meetings -> 0..edits] /\ gone \subseteq Meetings
  /\ syncToken \in 0..edits /\ lastSync \in 0..clock /\ asked \in 0..clock
  /\ notifiedUpcoming \subseteq Meetings \X Int
  /\ at \in {"idle", "changes", "changed", "between", "upcoming"}
  /\ toldVersion \in [Meetings -> 0..edits] /\ toldMade \subseteq Meetings /\ madeAgain \subseteq toldMade
  /\ upcoming \subseteq Meetings \X Starts /\ again \subseteq Meetings \X Starts \X Times

CalendarInit ==
  /\ clock = 0 /\ edits = 1 /\ start = [e \in Meetings |-> 0] /\ made = [e \in Meetings |-> 0]
  /\ version = [e \in Meetings |-> 0] /\ gone = {}
  /\ syncToken = 0 /\ lastSync = 0 /\ notifiedUpcoming = {}
  /\ at = "idle" /\ asked = 0
  /\ toldVersion = [e \in Meetings |-> 0] /\ toldMade = {} /\ madeAgain = {}
  /\ upcoming = {} /\ again = {}

-----------------------------------------------------------------------------
Tick ==
  /\ clock < MaxClock
  /\ clock' = clock + 1
  /\ UNCHANGED <<calendar, syncToken, lastSync, notifiedUpcoming, at, asked, changesTold, upcomingTold>>

\* A meeting is created, or moved to another time.
Schedule(e, s) ==
  /\ edits <= MaxEdits /\ e \notin gone /\ start[e] # s /\ clock < MaxClock
  /\ edits' = edits + 1 /\ version' = [version EXCEPT ![e] = edits + 1]
  /\ start' = [start EXCEPT ![e] = s]
  /\ clock' = clock + 1 /\ made' = IF version[e] = 0 THEN [made EXCEPT ![e] = clock + 1] ELSE made
  /\ UNCHANGED <<gone, syncToken, lastSync, notifiedUpcoming, at, asked, changesTold, upcomingTold>>

Cancel(e) ==
  /\ edits <= MaxEdits /\ e \notin gone /\ version[e] # 0
  /\ edits' = edits + 1 /\ version' = [version EXCEPT ![e] = edits + 1]
  /\ gone' = gone \cup {e}
  /\ UNCHANGED <<clock, start, made, syncToken, lastSync, notifiedUpcoming, at, asked,
                 changesTold, upcomingTold>>

-----------------------------------------------------------------------------
\* The time of a request is taken before it is sent.
AskChanges ==
  /\ at = "idle"
  /\ at' = "changes" /\ asked' = clock
  /\ UNCHANGED <<clock, calendar, syncToken, lastSync, notifiedUpcoming, changesTold, upcomingTold>>

\* Mutated: the first synchronisation does not look back.
ChangedFromNow == {e \in Meetings :
                     IF syncToken = 0 THEN version[e] # 0 /\ start[e] + Length > asked
                                      ELSE version[e] > syncToken}

\* ListEvents: what changed since the token; without one, what ends after the day before.
Changed == {e \in Meetings :
              IF syncToken = 0 THEN version[e] # 0 /\ start[e] + Length > asked - Day
                               ELSE version[e] > syncToken}

\* determineCalendarEventType
New(e) == e \notin gone /\ made[e] > lastSync

\* pollChanges: announce, and keep the token of the answer.
ChangesArrive ==
  /\ at = "changes"
  /\ at' = "changed" /\ syncToken' = edits
  /\ toldVersion' = [e \in Meetings |-> IF e \in Changed THEN version[e] ELSE toldVersion[e]]
  /\ LET new == {e \in Changed : New(e)}
     IN  toldMade' = toldMade \cup new /\ madeAgain' = madeAgain \cup (toldMade \cap new)
  /\ UNCHANGED <<clock, calendar, lastSync, notifiedUpcoming, asked, upcomingTold>>

\* Mutated: the time of the request.
StampAsked ==
  /\ at = "changed"
  /\ at' = "between" /\ lastSync' = asked
  /\ UNCHANGED <<clock, calendar, syncToken, notifiedUpcoming, asked, changesTold, upcomingTold>>

Stamp ==
  /\ at = "changed"
  /\ at' = "between" /\ lastSync' = clock
  /\ UNCHANGED <<clock, calendar, syncToken, notifiedUpcoming, asked, changesTold, upcomingTold>>

\* Any error drops the token.  The poll goes on.
ChangesFail ==
  /\ at = "changes"
  /\ at' = "between" /\ syncToken' = 0
  /\ UNCHANGED <<clock, calendar, lastSync, notifiedUpcoming, asked, changesTold, upcomingTold>>

AskUpcoming ==
  /\ at = "between"
  /\ at' = "upcoming" /\ asked' = clock
  /\ UNCHANGED <<clock, calendar, syncToken, lastSync, notifiedUpcoming, changesTold, upcomingTold>>

\* ListUpcomingEvents: what ends after the time of the request and starts in the window,
\* as Calendar knows start and end.
Listed == {e \in Meetings \ gone :
             version[e] # 0 /\ start[e] + Length > asked /\ start[e] < asked + Window}

\* mapCalendarItem: a start with a time is what it says; a date is taken for midnight UTC,
\* which is Offset later than its day begins where the calendar is.
Parsed(e, s) == IF e \in AllDay THEN s + Offset ELSE s

\* Mutated: an entry goes when the meeting starts.
KeptUntilStart == {r \in notifiedUpcoming : r[2] > clock}

\* The entries that are left after the past ones were deleted.
Kept == {r \in notifiedUpcoming : r[2] >= clock}

\* pollUpcoming
UpcomingArrive ==
  /\ at = "upcoming"
  /\ LET told == {e \in Listed : \A r \in Kept : r[1] # e}
     IN  /\ notifiedUpcoming' = Kept \cup {<<e, Parsed(e, start[e])>> : e \in told}
         /\ upcoming' = upcoming \cup {<<e, start[e]>> : e \in told}
         /\ again' = again \cup {<<e, start[e], clock>> :
                                   e \in {f \in told : <<f, start[f]>> \in upcoming}}
  /\ at' = "idle"
  /\ UNCHANGED <<clock, calendar, syncToken, lastSync, asked, changesTold>>

UpcomingFail ==
  /\ at = "upcoming"
  /\ at' = "idle"
  /\ UNCHANGED <<clock, calendar, syncToken, lastSync, notifiedUpcoming, asked, changesTold, upcomingTold>>

CalendarNext ==
  \/ Tick
  \/ \E e \in Meetings : Cancel(e) \/ \E s \in Starts : Schedule(e, s)
  \/ AskChanges \/ ChangesArrive \/ Stamp \/ ChangesFail
  \/ AskUpcoming \/ UpcomingArrive \/ UpcomingFail

CalendarSpec == CalendarInit /\ [][CalendarNext]_calendarVars

-----------------------------------------------------------------------------
(***************************************************************************)
(* Properties.                                                             *)
(***************************************************************************)

\* What the token stands for was announced, also when it was dropped after errors and
\* everything was asked for again; only meetings that ended more than a day ago can be
\* missing (pollChanges).
ChangesTold ==
  \A e \in Meetings :
    syncToken # 0 /\ version[e] # 0 /\ version[e] <= syncToken /\ start[e] + Length > clock - Day
      => toldVersion[e] = version[e]

\* No meeting is announced as created twice, whatever happens between the request, the
\* answer and the time that lastSyncTime gets.
MadeOnce == madeAgain = {}

\* A meeting is announced as upcoming once for each time it is to start at, until the
\* start the poller took down has passed, also if it is moved away and back
\* (pollUpcoming).  That is the start itself, but for an event of a whole day: west of
\* UTC its entry goes before it starts, and it is announced again while it is still to come.
OnceBeforeStart == \A r \in again : r[3] > Parsed(r[1], r[2])

\* notifiedUpcoming is there "to avoid duplicates" (calendar_poller.go:24): one
\* announcement for each start.  Fails: the entry goes when the start has passed, and a
\* meeting that runs is still listed.
NotifiedOnce == again = {}
=============================================================================
