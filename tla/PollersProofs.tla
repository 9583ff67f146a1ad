--------------------------- MODULE PollersProofs ---------------------------
(***************************************************************************)
(* Proofs about the pollers of Linear, Gmail and Google Calendar, for any  *)
(* number of issues, comments, messages and meetings, any page size and    *)
(* any number of changes of the services.                                  *)
(***************************************************************************)
EXTENDS Pollers, TLAPS

-----------------------------------------------------------------------------
(***************************************************************************)
(* Gmail.                                                                  *)
(***************************************************************************)

\* What was announced lies before the history id, or was there when the recent
\* messages were read.
Behind ==
  \A m \in announced : arrived[m] <= historyID \/ arrived[m] <= seededAt

GmailInv == GmailTypeOK /\ Behind /\ MailTold /\ MailOnce

\* The invariant holds of a mailbox before the first poll.
LEMMA GmailInitInv == GmailInit => GmailInv
<1> SUFFICES ASSUME GmailInit PROVE GmailInv
  OBVIOUS
<1>1. GmailTypeOK
  <2>1. arrived \in [Mails -> 0..mailbox]
    BY DEF GmailInit
  <2>2. announced \subseteq Arrived /\ repeated \subseteq announced /\ skipped \subseteq Arrived
    BY Zenon DEF GmailInit
  <2>3. seeded \in BOOLEAN /\ seeding \in BOOLEAN
    BY Zenon DEF GmailInit
  <2>4. /\ mailbox \in Nat /\ historyID \in base..mailbox
        /\ base \in 0..mailbox /\ seededAt \in 0..mailbox
    BY DEF GmailInit
  <2> QED
    BY Zenon, <2>1, <2>2, <2>3, <2>4 DEF GmailTypeOK
<1>2. Behind /\ MailTold /\ MailOnce
  BY DEF GmailInit, Behind, MailTold, MailOnce, Arrived
<1> QED
  BY <1>1, <1>2 DEF GmailInv

\* The four parts are inductive together: no answer of the history reaches back behind
\* the id, and the id moves to the last message that was read, or to the end.
LEMMA GmailStepInv == GmailInv /\ [GmailNext]_gmailVars => GmailInv'
<1> SUFFICES ASSUME GmailInv, [GmailNext]_gmailVars PROVE GmailInv'
  OBVIOUS
<1> USE GmailAssumption DEF GmailInv
<1>1. ASSUME NEW m \in Mails, Arrive(m) PROVE GmailInv'
  BY <1>1 DEF Arrive, GmailTypeOK, Behind, MailTold, MailOnce, Arrived
<1>2. CASE Relabel
  BY <1>2 DEF Relabel, GmailTypeOK, Behind, MailTold, MailOnce, Arrived
<1>3. CASE Profile
  BY <1>3 DEF Profile, GmailTypeOK, Behind, MailTold, MailOnce, Arrived
<1>4. CASE Recent
  <2> DEFINE found == Arrived \cap Queried
             listed == {m \in found :
                          Cardinality({n \in found : arrived[n] > arrived[m]}) < MaxMessages}
  <2>1. PICK missing \in SUBSET listed :
          Announce(listed \ missing) /\ skipped' = skipped \cup missing
    BY <1>4 DEF Recent
  <2>2. listed \subseteq Arrived
    OBVIOUS
  <2> HIDE DEF listed
  <2>3. GmailTypeOK'
    <3>1. seeded' \in BOOLEAN /\ seeding' \in BOOLEAN
      BY Zenon, <1>4 DEF Recent, GmailTypeOK
    <3>2. announced' \subseteq Arrived' /\ repeated' \subseteq announced' /\ skipped' \subseteq Arrived'
      BY <1>4, <2>1, <2>2 DEF Recent, Announce, GmailTypeOK, Arrived
    <3>3. /\ mailbox' \in Nat /\ arrived' \in [Mails -> 0..mailbox'] /\ historyID' \in base'..mailbox'
          /\ base' \in 0..mailbox' /\ seededAt' \in 0..mailbox'
      BY <1>4 DEF Recent, GmailTypeOK
    <3> QED
      BY Zenon, <3>1, <3>2, <3>3 DEF GmailTypeOK
  <2>4. Behind' /\ MailOnce'
    BY <1>4, <2>1, <2>2 DEF Recent, Announce, GmailTypeOK, Behind, MailOnce, Arrived
  <2>5. MailTold'
    BY <1>4, <2>1, <2>2 DEF Recent, Announce, GmailTypeOK, MailTold, Arrived
  <2> QED
    BY <2>3, <2>4, <2>5
<1>5. CASE RecentFails
  BY <1>5 DEF RecentFails, GmailTypeOK, Behind, MailTold, MailOnce, Arrived
<1>6. CASE History
  <2>1. PICK upto \in historyID..mailbox :
          \E missing \in SUBSET Read(upto) :
            /\ Announce(Read(upto) \ missing) /\ skipped' = skipped \cup missing
            /\ historyID' = upto
    BY <1>6 DEF History
  <2>2. PICK missing \in SUBSET Read(upto) :
          /\ Announce(Read(upto) \ missing) /\ skipped' = skipped \cup missing
          /\ historyID' = upto
    BY <2>1
  <2> QED
    BY <1>6, <2>2 DEF History, Announce, Read, GmailTypeOK, Behind, MailTold, MailOnce, Arrived
<1>7. CASE HistoryFails
  BY <1>7 DEF HistoryFails, GmailTypeOK, Behind, MailTold, MailOnce, Arrived
<1>8. CASE UNCHANGED gmailVars
  BY <1>8 DEF gmailVars, GmailTypeOK, Behind, MailTold, MailOnce, Arrived
<1> QED
  BY <1>1, <1>2, <1>3, <1>4, <1>5, <1>6, <1>7, <1>8 DEF GmailNext

\* What was announced lies behind the mark, so nothing is passed over or told twice.
LEMMA GmailInvariant == GmailSpec => []GmailInv
BY GmailInitInv, GmailStepInv, PTL DEF GmailSpec

\* The poller of Gmail announces every message it can fetch that arrived after the last
\* profile and before its history id (gmail_poller.go, ListHistory).
THEOREM MailToldHolds == GmailSpec => []MailTold
BY GmailInvariant, PTL DEF GmailInv

\* It repeats only messages that were there when the recent ones were read.
THEOREM MailOnceHolds == GmailSpec => []MailOnce
BY GmailInvariant, PTL DEF GmailInv

-----------------------------------------------------------------------------
(***************************************************************************)
(* Calendar.                                                               *)
(***************************************************************************)

\* What was announced as created exists, and was created before lastSyncTime, except
\* between an answer and the time that lastSyncTime gets.
MadeBefore ==
  \A e \in toldMade : version[e] # 0 /\ (at = "changed" \/ made[e] <= lastSync)

\* A meeting that is in the calendar has a start.
Scheduled == \A e \in Meetings : version[e] # 0 => start[e] # 0

\* An announced start has passed, or notifiedUpcoming holds it.
Remembered ==
  \A r \in upcoming :
    Parsed(r[1], r[2]) < clock \/ <<r[1], Parsed(r[1], r[2])>> \in notifiedUpcoming

CalendarInv ==
  CalendarTypeOK /\ Scheduled /\ MadeBefore /\ Remembered /\ ChangesTold /\ MadeOnce /\ OnceBeforeStart

\* Whatever zone the calendar is in, the poller takes down a time.
LEMMA ParsedInt == \A e, s : s \in Int => Parsed(e, s) \in Int
BY CalendarAssumption DEF Parsed

\* The invariant holds of a calendar before the first poll.
LEMMA CalendarInitInv == CalendarInit => CalendarInv
<1> SUFFICES ASSUME CalendarInit PROVE CalendarInv
  OBVIOUS
<1>1. CalendarTypeOK
  BY CalendarAssumption DEF CalendarInit, CalendarTypeOK, Times, Starts
<1>2. Scheduled /\ MadeBefore /\ Remembered /\ ChangesTold /\ MadeOnce /\ OnceBeforeStart
  BY CalendarAssumption
     DEF CalendarInit, Scheduled, MadeBefore, Remembered, ChangesTold, MadeOnce, OnceBeforeStart
<1> QED
  BY <1>1, <1>2 DEF CalendarInv

\* The announcements of changes: the token and lastSyncTime only grow, except when the
\* token is dropped, and then all is asked for again.
LEMMA ChangesStep ==
  ASSUME CalendarInv, [CalendarNext]_calendarVars
  PROVE  CalendarTypeOK' /\ Scheduled' /\ MadeBefore' /\ ChangesTold' /\ MadeOnce'
<1> USE CalendarAssumption DEF CalendarInv
<1>1. CASE Tick
  BY <1>1 DEF Tick, calendar, changesTold, upcomingTold, CalendarTypeOK, Times, Starts,
      Scheduled, MadeBefore,
              ChangesTold, MadeOnce
<1>2. ASSUME NEW e \in Meetings, Cancel(e)
      PROVE CalendarTypeOK' /\ Scheduled' /\ MadeBefore' /\ ChangesTold' /\ MadeOnce'
  BY <1>2 DEF Cancel, changesTold, upcomingTold, CalendarTypeOK, Times, Starts, Scheduled,
      MadeBefore,
              ChangesTold, MadeOnce
<1>3. ASSUME NEW e \in Meetings, NEW s \in Starts, Schedule(e, s)
      PROVE CalendarTypeOK' /\ Scheduled' /\ MadeBefore' /\ ChangesTold' /\ MadeOnce'
  <2>1. CalendarTypeOK'
    BY <1>3 DEF Schedule, changesTold, upcomingTold, CalendarTypeOK, Times, Starts
  <2>2. Scheduled' /\ MadeBefore' /\ MadeOnce'
    BY <1>3 DEF Schedule, changesTold, CalendarTypeOK, Starts, Scheduled, MadeBefore, MadeOnce
  <2>3. ChangesTold'
    BY <1>3 DEF Schedule, changesTold, CalendarTypeOK, Times, Starts, ChangesTold
  <2> QED
    BY <2>1, <2>2, <2>3
<1>4. CASE AskChanges \/ AskUpcoming
  BY <1>4 DEF AskChanges, AskUpcoming, calendar, changesTold, upcomingTold, CalendarTypeOK, Times,
              Starts, Scheduled, MadeBefore, ChangesTold, MadeOnce
<1>5. CASE ChangesArrive
  <2>1. CalendarTypeOK'
    <3>1. toldMade' \subseteq Meetings /\ madeAgain' \subseteq toldMade'
      BY <1>5 DEF ChangesArrive, Changed, CalendarTypeOK
    <3>2. toldVersion' \in [Meetings -> 0..edits']
      BY <1>5 DEF ChangesArrive, calendar, CalendarTypeOK
    <3> QED
      BY <1>5, <3>1, <3>2 DEF ChangesArrive, calendar, upcomingTold, CalendarTypeOK, Times, Starts
  <2>2. \A e \in Changed : version[e] # 0
    BY DEF Changed, CalendarTypeOK
  <2>3. Scheduled' /\ MadeBefore' /\ MadeOnce'
    BY <1>5, <2>2 DEF ChangesArrive, New, calendar, CalendarTypeOK, Scheduled, MadeBefore, MadeOnce
  <2>4. ChangesTold'
    <3> SUFFICES ASSUME NEW e \in Meetings, version[e] # 0, start[e] + Length > clock - Day
                 PROVE  toldVersion'[e] = version[e]
      BY <1>5 DEF ChangesArrive, calendar, ChangesTold
    <3>1. CASE e \in Changed
      BY <1>5, <3>1 DEF ChangesArrive
    <3>2. CASE e \notin Changed
      <4>1. syncToken # 0 /\ version[e] <= syncToken
        BY <3>2 DEF Changed, CalendarTypeOK, Times, Starts
      <4> QED
        BY <1>5, <3>2, <4>1 DEF ChangesArrive, ChangesTold
    <3> QED
      BY <3>1, <3>2
  <2> QED
    BY <2>1, <2>3, <2>4
<1>6. CASE Stamp
  BY <1>6 DEF Stamp, calendar, changesTold, upcomingTold, CalendarTypeOK, Times, Starts,
      Scheduled, MadeBefore,
              ChangesTold, MadeOnce
<1>7. CASE ChangesFail
  BY <1>7 DEF ChangesFail, calendar, changesTold, upcomingTold, CalendarTypeOK, Times, Starts,
              Scheduled, MadeBefore, ChangesTold, MadeOnce
<1>8. CASE UpcomingArrive
  <2>1. \A e \in Listed : start[e] \in Starts
    BY DEF Listed, Scheduled, CalendarTypeOK
  <2>2. CalendarTypeOK'
    <3>1. Kept \subseteq Meetings \X Int
      BY DEF Kept, CalendarTypeOK
    <3> DEFINE fresh == {e \in Listed : \A r \in Kept : r[1] # e}
    <3>2. \A e \in fresh : e \in Meetings /\ start[e] \in Starts
      BY <2>1 DEF Listed
    <3>3. /\ notifiedUpcoming' = Kept \cup {<<e, Parsed(e, start[e])>> : e \in fresh}
          /\ upcoming' = upcoming \cup {<<e, start[e]>> : e \in fresh}
          /\ again' = again \cup {<<e, start[e], clock>> :
                                    e \in {f \in fresh : <<f, start[f]>> \in upcoming}}
          /\ at' = "idle"
          /\ UNCHANGED <<clock, calendar, syncToken, lastSync, asked, changesTold>>
      BY <1>8 DEF UpcomingArrive
    <3> HIDE DEF fresh
    <3>4. notifiedUpcoming' \subseteq Meetings \X Int
      <4>1. \A e \in fresh : Parsed(e, start[e]) \in Int
        BY <3>2, ParsedInt DEF Starts
      <4> QED
        BY <3>1, <3>2, <3>3, <4>1
    <3>5. upcoming' \subseteq Meetings \X Starts
      BY <3>2, <3>3 DEF CalendarTypeOK
    <3>6. again' \subseteq Meetings \X Starts \X Times
      <4> SUFFICES ASSUME NEW e \in fresh PROVE <<e, start[e], clock>> \in Meetings \X Starts \X Times
        BY <3>3 DEF CalendarTypeOK
      <4> QED
        BY <3>2 DEF CalendarTypeOK
    <3>7. at' \in {"idle", "changes", "changed", "between", "upcoming"}
      BY <3>3
    <3>8. UNCHANGED <<clock, edits, start, made, version, gone, syncToken, lastSync, asked,
                      toldVersion, toldMade, madeAgain>>
      BY <3>3 DEF calendar, changesTold
    <3> QED
      BY <3>4, <3>5, <3>6, <3>7, <3>8 DEF CalendarTypeOK
  <2>3. Scheduled' /\ MadeBefore' /\ ChangesTold' /\ MadeOnce'
    BY <1>8 DEF UpcomingArrive, calendar, changesTold, CalendarTypeOK, Scheduled, MadeBefore,
        ChangesTold, MadeOnce
  <2> QED
    BY <2>2, <2>3
<1>9. CASE UpcomingFail
  BY <1>9 DEF UpcomingFail, calendar, changesTold, upcomingTold, CalendarTypeOK, Times, Starts,
              Scheduled, MadeBefore, ChangesTold, MadeOnce
<1>10. CASE UNCHANGED calendarVars
  BY <1>10 DEF calendarVars, CalendarTypeOK, Times, Starts, Scheduled, MadeBefore,
      ChangesTold, MadeOnce
<1> QED
  BY <1>1, <1>2, <1>3, <1>4, <1>5, <1>6, <1>7, <1>8, <1>9, <1>10 DEF CalendarNext

\* The announcements of what is upcoming: an entry is deleted only when its start has
\* passed, and only a meeting without an entry is announced.
LEMMA UpcomingStep ==
  ASSUME CalendarInv, [CalendarNext]_calendarVars
  PROVE  Remembered' /\ OnceBeforeStart'
<1> USE CalendarAssumption DEF CalendarInv
<1>1. CASE UpcomingArrive
  <2> DEFINE fresh == {e \in Listed : \A k \in Kept : k[1] # e}
             repeats == {<<e, start[e], clock>> : e \in {f \in fresh : <<f, start[f]>> \in upcoming}}
  <2>1. /\ notifiedUpcoming' = Kept \cup {<<e, Parsed(e, start[e])>> : e \in fresh}
        /\ upcoming' = upcoming \cup {<<e, start[e]>> : e \in fresh}
        /\ again' = again \cup repeats
        /\ clock' = clock
    BY <1>1 DEF UpcomingArrive
  <2>2. \A r \in upcoming : r[1] \in Meetings /\ r[2] \in Starts /\ Parsed(r[1], r[2]) \in Int
    BY ParsedInt DEF CalendarTypeOK, Starts
  <2>3. \A r \in upcoming : Parsed(r[1], r[2]) < clock \/ <<r[1], Parsed(r[1], r[2])>> \in Kept
    <3> SUFFICES ASSUME NEW r \in upcoming, ~(Parsed(r[1], r[2]) < clock)
                 PROVE  <<r[1], Parsed(r[1], r[2])>> \in Kept
      OBVIOUS
    <3> DEFINE p == <<r[1], Parsed(r[1], r[2])>>
    <3>1. p \in notifiedUpcoming
      BY DEF Remembered
    <3>2. p[2] >= clock
      BY <2>2 DEF CalendarTypeOK, Times
    <3> HIDE DEF p
    <3> QED
      BY <3>1, <3>2 DEF Kept, p
  <2>4. Remembered'
    <3> SUFFICES ASSUME NEW r \in upcoming'
                 PROVE  Parsed(r[1], r[2]) < clock \/ <<r[1], Parsed(r[1], r[2])>> \in notifiedUpcoming'
      BY <2>1 DEF Remembered, Parsed
    <3>1. CASE r \in upcoming
      BY <3>1, <2>1, <2>3
    <3>2. CASE r \in {<<e, start[e]>> : e \in fresh}
      BY <3>2, <2>1
    <3> QED
      BY <2>1, <3>1, <3>2
  <2>5. OnceBeforeStart'
    <3> SUFFICES ASSUME NEW r \in repeats PROVE r[3] > Parsed(r[1], r[2])
      BY <2>1 DEF OnceBeforeStart, Parsed
    <3>1. PICK e \in fresh : <<e, start[e]>> \in upcoming /\ r = <<e, start[e], clock>>
      OBVIOUS
    <3>2. <<e, Parsed(e, start[e])>> \notin Kept /\ Parsed(e, start[e]) \in Int
      BY <3>1, <2>2
    <3>3. Parsed(e, start[e]) < clock
      BY <3>1, <3>2, <2>3
    <3> QED
      BY <3>1, <3>2, <3>3 DEF CalendarTypeOK, Times
  <2> QED
    BY <2>4, <2>5
<1>2. CASE Tick
  <2>1. /\ UNCHANGED <<notifiedUpcoming, upcoming, again>> /\ clock \in Int /\ clock' = clock + 1
        /\ \A r \in upcoming : Parsed(r[1], r[2]) \in Int
    BY <1>2, ParsedInt DEF Tick, upcomingTold, CalendarTypeOK, Times, Starts
  <2> QED
    BY <2>1 DEF Remembered, OnceBeforeStart, Parsed
<1>3. ASSUME NEW e \in Meetings, NEW s \in Starts, Schedule(e, s)
      PROVE Remembered' /\ OnceBeforeStart'
  <2>1. /\ UNCHANGED <<notifiedUpcoming, upcoming, again>> /\ clock \in Int /\ clock' = clock + 1
        /\ \A r \in upcoming : Parsed(r[1], r[2]) \in Int
    BY <1>3, ParsedInt DEF Schedule, upcomingTold, CalendarTypeOK, Times, Starts
  <2> QED
    BY <2>1 DEF Remembered, OnceBeforeStart, Parsed
<1>4. ASSUME NEW e \in Meetings, Cancel(e) PROVE Remembered' /\ OnceBeforeStart'
  BY <1>4 DEF Cancel, upcomingTold, Remembered, OnceBeforeStart
<1>5. CASE AskChanges \/ ChangesArrive \/ Stamp \/ ChangesFail \/ AskUpcoming \/ UpcomingFail
  BY <1>5 DEF AskChanges, ChangesArrive, Stamp, ChangesFail, AskUpcoming, UpcomingFail,
              upcomingTold, Remembered, OnceBeforeStart
<1>6. CASE UNCHANGED calendarVars
  BY <1>6 DEF calendarVars, Remembered, OnceBeforeStart
<1> QED
  BY <1>1, <1>2, <1>3, <1>4, <1>5, <1>6 DEF CalendarNext

\* An announced start has passed or is remembered; a change is told or still to be listed.
LEMMA CalendarInvariant == CalendarSpec => []CalendarInv
<1>1. CalendarInv /\ [CalendarNext]_calendarVars => CalendarInv'
  BY ChangesStep, UpcomingStep DEF CalendarInv
<1> QED
  BY CalendarInitInv, <1>1, PTL DEF CalendarSpec

\* The poller of the calendar announced every change its token stands for, whatever
\* failed before (pollChanges).
THEOREM ChangesToldHolds == CalendarSpec => []ChangesTold
BY CalendarInvariant, PTL DEF CalendarInv

\* No meeting is announced as created twice.
THEOREM MadeOnceHolds == CalendarSpec => []MadeOnce
BY CalendarInvariant, PTL DEF CalendarInv

\* A meeting is announced as upcoming once before each of its starts as the poller took
\* them down, in whatever zone the calendar is (mapCalendarItem, pollUpcoming).
THEOREM OnceBeforeStartHolds == CalendarSpec => []OnceBeforeStart
BY CalendarInvariant, PTL DEF CalendarInv

-----------------------------------------------------------------------------
(***************************************************************************)
(* Linear.                                                                 *)
(***************************************************************************)

\* The window of a query begins no later than lastSyncTime.
LEMMA FormattedEarlier == ASSUME NEW t \in Nat PROVE Formatted(t) \in Int /\ Formatted(t) <= t
<1>1. t % Second \in Int /\ 0 <= t % Second
  BY LinearAssumption
<1> QED
  BY <1>1 DEF Formatted

\* What exists was changed no earlier than it was created; a comment does not change.
LinearTimes ==
  /\ \A p \in Posts : (created[p] = 0 <=> changed[p] = 0) /\ created[p] <= changed[p]
  /\ \A c \in Comments : changed[c] = created[c] /\ told[c] \in {0, changed[c]}
  /\ lastSyncTime <= now

\* What changed since the poll's time and before the answer is known; between the two
\* answers the issues up to that time are announced.
Answering ==
  /\ polling = "issues" => \A i \in Issues : changed[i] > now => i \in moving
  /\ polling = "comments" =>
       \A i \in Issues : created[i] # 0 /\ changed[i] <= now => told[i] = changed[i]

\* The time up to which the issues are announced, and how often each was as created.
IssuesUpTo == IF polling = "comments" THEN now ELSE lastSyncTime
Counted ==
  \A i \in Issues \ moving :
    toldNew[i] = IF created[i] # 0 /\ created[i] <= IssuesUpTo THEN 1 ELSE 0

LinearInv == LinearTypeOK /\ LinearTimes /\ Answering /\ Counted /\ PostsTold

\* The invariant holds of issues and comments before the first poll.
LEMMA LinearInitInv == LinearInit => LinearInv
<1> SUFFICES ASSUME LinearInit PROVE LinearInv
  OBVIOUS
<1>1. LinearTypeOK
  BY LinearAssumption DEF LinearInit, LinearTypeOK, Posts
<1>2. LinearTimes /\ Answering /\ Counted /\ PostsTold
  BY LinearAssumption DEF LinearInit, LinearTimes, Answering, Counted, IssuesUpTo, PostsTold, Posts
<1> QED
  BY <1>1, <1>2 DEF LinearInv

\* A post that changes is ahead of what was told.
LEMMA EditStep ==
  ASSUME LinearInv, NEW p \in Posts, Edit(p)
  PROVE  LinearInv'
<1> USE LinearAssumption DEF LinearInv
<1>1. LinearTypeOK'
  BY DEF Edit, LinearTypeOK, Posts
<1>2. LinearTimes'
  BY DEF Edit, LinearTypeOK, LinearTimes, Posts
<1>3. Answering'
  BY DEF Edit, LinearTypeOK, LinearTimes, Answering, Posts
<1>4. Counted'
  BY DEF Edit, LinearTypeOK, LinearTimes, Counted, IssuesUpTo, Posts
<1>5. PostsTold'
  BY DEF Edit, LinearTypeOK, LinearTimes, PostsTold, Posts
<1> QED
  BY <1>1, <1>2, <1>3, <1>4, <1>5

\* The issues of a query are told, and the others are still due.
LEMMA IssuesArriveStep ==
  ASSUME LinearInv, IssuesArrive
  PROVE  LinearInv'
<1> USE LinearAssumption DEF LinearInv
<1>1. PICK missed \in SUBSET {i \in Issues : changed[i] > now} :
        LET issues == Matching(Issues) \ missed
        IN  /\ told' = [p \in Posts |-> IF p \in issues THEN changed[p] ELSE told[p]]
            /\ toldNew' = [i \in Issues |-> IF i \in issues /\ created[i] > lastSyncTime
                                            THEN toldNew[i] + 1 ELSE toldNew[i]]
  BY DEF IssuesArrive
<1> DEFINE issues == Matching(Issues) \ missed
<1>2. /\ told' = [p \in Posts |-> IF p \in issues THEN changed[p] ELSE told[p]]
      /\ toldNew' = [i \in Issues |-> IF i \in issues /\ created[i] > lastSyncTime
                                      THEN toldNew[i] + 1 ELSE toldNew[i]]
  BY <1>1
<1>3. issues \subseteq Issues
  BY DEF Matching
<1>4. polling = "issues" /\ polling' = "comments"
      /\ UNCHANGED <<time, created, changed, lastSyncTime, now, dropped, moving>>
  BY DEF IssuesArrive, linear
\* An issue that changed since the last poll and not after the time of this one is in the answer.
<1>5. \A i \in Issues : changed[i] # 0 /\ changed[i] <= now /\ changed[i] >= lastSyncTime => i \in issues
  <2> SUFFICES ASSUME NEW i \in Issues, changed[i] # 0, changed[i] <= now, changed[i] >= lastSyncTime
               PROVE  i \in Matching(Issues) /\ i \notin missed
    OBVIOUS
  <2>1. changed[i] \in Nat /\ lastSyncTime \in Nat /\ now \in Nat
    BY DEF LinearTypeOK, Posts
  <2> QED
    BY <2>1, FormattedEarlier DEF Matching
<1> HIDE DEF issues
<1>6. LinearTypeOK'
  BY <1>2, <1>3, <1>4 DEF LinearTypeOK, Posts
<1>7. LinearTimes'
  BY <1>2, <1>3, <1>4 DEF LinearTypeOK, LinearTimes, Posts
<1>8. Answering'
  <2> SUFFICES ASSUME NEW i \in Issues, created[i] # 0, changed[i] <= now
               PROVE  told'[i] = changed[i]
    BY <1>4 DEF Answering
  <2>1. i \in Posts /\ changed[i] \in Nat /\ lastSyncTime \in Nat /\ changed[i] # 0
    BY DEF LinearTypeOK, LinearTimes, Posts
  <2>2. CASE i \in issues
    BY <1>2, <2>1, <2>2
  <2>3. CASE i \notin issues
    BY <1>2, <1>5, <2>1, <2>3 DEF PostsTold, LinearTypeOK, Posts
  <2> QED
    BY <2>2, <2>3
<1>9. Counted'
  <2> SUFFICES ASSUME NEW i \in Issues, i \notin moving
               PROVE  toldNew'[i] = IF created[i] # 0 /\ created[i] <= now THEN 1 ELSE 0
    BY <1>4 DEF Counted, IssuesUpTo
  <2>1. /\ i \in Posts /\ changed[i] \in Nat /\ created[i] \in Nat /\ lastSyncTime \in Nat /\ now \in Nat
        /\ toldNew[i] \in Nat
    BY DEF LinearTypeOK, Posts
  <2>2. changed[i] <= now
    BY <1>4, <2>1 DEF Answering
  <2>3. /\ created[i] <= changed[i] /\ lastSyncTime <= now
        /\ created[i] = 0 <=> changed[i] = 0
    BY <2>1 DEF LinearTimes
  <2>4. toldNew[i] = IF created[i] # 0 /\ created[i] <= lastSyncTime THEN 1 ELSE 0
    BY <1>4 DEF Counted, IssuesUpTo
  <2>5. created[i] > lastSyncTime => i \in issues
    BY <1>5, <2>1, <2>2, <2>3
  <2> QED
    BY <1>2, <2>1, <2>2, <2>3, <2>4, <2>5
<1>10. PostsTold'
  BY <1>2, <1>3, <1>4 DEF PostsTold, LinearTypeOK, Posts
<1> QED
  BY <1>6, <1>7, <1>8, <1>9, <1>10

\* The comments of a query are told, and the mark moves on.
LEMMA EndPollStep ==
  ASSUME LinearInv, NEW comments \in SUBSET Comments, EndPoll(comments)
  PROVE  LinearInv'
<1> USE LinearAssumption DEF LinearInv
<1>1. LinearTypeOK'
  BY DEF EndPoll, linear, Matching, LinearTypeOK, Posts
<1>2. LinearTimes'
  BY DEF EndPoll, linear, LinearTypeOK, LinearTimes, Posts
<1>3. Answering' /\ Counted'
  BY DEF EndPoll, linear, LinearTypeOK, Answering, Counted, IssuesUpTo, Posts
<1>4. PostsTold'
  <2> SUFFICES ASSUME NEW p \in Posts, created[p] # 0, changed[p] <= now
               PROVE  told'[p] = changed[p] \/ p \in dropped'
    BY DEF EndPoll, linear, PostsTold
  <2>1. /\ told'[p] = IF p \in comments THEN changed[p] ELSE told[p]
        /\ changed[p] \in Nat /\ lastSyncTime \in Nat /\ now \in Nat /\ dropped \subseteq dropped'
    BY DEF EndPoll, LinearTypeOK
  <2>2. CASE p \in Issues
    BY <2>1, <2>2 DEF EndPoll, Answering
  <2>3. CASE p \in Comments
    <3>1. /\ changed[p] = created[p]
          /\ told[p] \in {0, changed[p]}
      BY <2>3 DEF LinearTimes
    <3>2. CASE changed[p] <= lastSyncTime
      BY <2>1, <3>2 DEF PostsTold
    <3>3. CASE changed[p] > lastSyncTime
      <4>1. p \in Matching(Comments)
        BY <2>1, <2>3, <3>1, <3>3, FormattedEarlier DEF Matching
      <4> QED
        BY <2>1, <3>1, <4>1 DEF EndPoll
    <3> QED
      BY <2>1, <3>2, <3>3
  <2> QED
    BY <2>2, <2>3 DEF Posts
<1> QED
  BY <1>1, <1>2, <1>3, <1>4

\* Every step of the poller and of the posts keeps the invariant.
LEMMA LinearStepInv == LinearInv /\ [LinearNext]_linearVars => LinearInv'
<1> SUFFICES ASSUME LinearInv, [LinearNext]_linearVars PROVE LinearInv'
  OBVIOUS
<1> USE LinearAssumption
<1>1. ASSUME NEW p \in Posts, Edit(p) PROVE LinearInv'
  BY <1>1, EditStep
<1>2. CASE Elapse
  BY <1>2 DEF Elapse, LinearInv, LinearTypeOK, LinearTimes, Answering, Counted, IssuesUpTo,
              PostsTold, Posts
<1>3. CASE BeginPoll
  BY <1>3 DEF BeginPoll, linear, LinearInv, LinearTypeOK, LinearTimes, Answering, Counted,
      IssuesUpTo,
              PostsTold, Posts
<1>4. CASE IssuesArrive
  BY <1>4, IssuesArriveStep
<1>5. CASE IssuesFail
  BY <1>5 DEF IssuesFail, linear, LinearInv, LinearTypeOK, LinearTimes, Answering, Counted,
      IssuesUpTo,
              PostsTold, Posts
<1>6. CASE CommentsArrive
  BY <1>6, EndPollStep DEF CommentsArrive, Matching
<1>7. CASE CommentsFail
  BY <1>7, EndPollStep DEF CommentsFail
<1>8. CASE UNCHANGED linearVars
  BY <1>8 DEF linearVars, LinearInv, LinearTypeOK, LinearTimes, Answering, Counted, IssuesUpTo,
              PostsTold, Posts
<1> QED
  BY <1>1, <1>2, <1>3, <1>4, <1>5, <1>6, <1>7, <1>8 DEF LinearNext

\* What changed up to the mark is told, and each new issue once.
LEMMA LinearInvariant == LinearSpec => []LinearInv
BY LinearInitInv, LinearStepInv, PTL DEF LinearSpec

\* No change of an issue falls between two windows or two pages, and no comment, unless
\* its window was given up (poll, FetchUpdatedIssues, FetchUpdatedComments).
THEOREM PostsToldHolds == LinearSpec => []PostsTold
BY LinearInvariant, PTL DEF LinearInv

\* An issue that leaves waiting polls alone is announced as created exactly once
\* (MapIssueEvent).
THEOREM CreatedOnceHolds == LinearSpec => []CreatedOnce
<1>1. LinearInv => CreatedOnce
  BY DEF LinearInv, LinearTypeOK, LinearTimes, Counted, IssuesUpTo, CreatedOnce, Posts
<1> QED
  BY <1>1, LinearInvariant, PTL

-----------------------------------------------------------------------------
\* The three pollers side by side are each a behaviour of its own specification, so all
\* that is proved above holds of Pollers.
THEOREM PartsHold == Spec => LinearSpec /\ GmailSpec /\ CalendarSpec
<1>1. Init => LinearInit /\ GmailInit /\ CalendarInit
  BY DEF Init
<1>2. [Next]_pollersVars =>
        [LinearNext]_linearVars /\ [GmailNext]_gmailVars /\ [CalendarNext]_calendarVars
  BY DEF Next, LinearStep, GmailStep, CalendarStep, pollersVars
<1> QED
  BY <1>1, <1>2, PTL DEF Spec, LinearSpec, GmailSpec, CalendarSpec

\* The variables keep their types, in every poller.
THEOREM TypeOKHolds == Spec => []TypeOK
<1>1. LinearInv /\ GmailInv /\ CalendarInv => TypeOK
  BY DEF LinearInv, GmailInv, CalendarInv, TypeOK
<1> QED
  BY <1>1, PartsHold, LinearInvariant, GmailInvariant, CalendarInvariant, PTL

\* None of the three cursors passes anything that was not announced.
THEOREM AllToldHolds == Spec => []AllTold
<1>1. PostsTold /\ MailTold /\ ChangesTold => AllTold
  BY DEF AllTold
<1> QED
  BY <1>1, PartsHold, PostsToldHolds, MailToldHolds, ChangesToldHolds, PTL

\* None of the three pollers announces anything as new twice.
THEOREM AnnouncedOnceHolds == Spec => []AnnouncedOnce
<1>1. CreatedOnce /\ MailOnce /\ MadeOnce => AnnouncedOnce
  BY DEF AnnouncedOnce
<1> QED
  BY <1>1, PartsHold, CreatedOnceHolds, MailOnceHolds, MadeOnceHolds, PTL
=============================================================================
