------------------------------ MODULE Pollers ------------------------------
(***************************************************************************)
(* The pollers of the Linear agent and of the Google agent, checked in one *)
(* run.  They run in agents of their own, or in goroutines of one agent    *)
(* (google/agent.go, Run), and share nothing but onEvent: a behaviour is   *)
(* that of one of them, while the others stay where they start.            *)
(***************************************************************************)
EXTENDS LinearPoller, GmailPoller, CalendarPoller

VARIABLE service  \* the poller that runs

pollersVars == <<service, linearVars, gmailVars, calendarVars>>

TypeOK == LinearTypeOK /\ GmailTypeOK /\ CalendarTypeOK

Init ==
  /\ service \in {"linear", "gmail", "calendar"}
  /\ LinearInit /\ GmailInit /\ CalendarInit

LinearStep == service = "linear" /\ LinearNext /\ UNCHANGED <<service, gmailVars, calendarVars>>
GmailStep == service = "gmail" /\ GmailNext /\ UNCHANGED <<service, linearVars, calendarVars>>
CalendarStep == service = "calendar" /\ CalendarNext /\ UNCHANGED <<service, linearVars, gmailVars>>

Next == LinearStep \/ GmailStep \/ CalendarStep

Spec == Init /\ [][Next]_pollersVars

-----------------------------------------------------------------------------
(***************************************************************************)
(* Properties.                                                             *)
(***************************************************************************)

\* What the cursor of a poller has passed (the time of the last poll, the history
\* id, the sync token) was announced, wherever requests failed or were answered
\* late, except what the code gives up knowingly (see the parts).
AllTold == PostsTold /\ MailTold /\ ChangesTold

\* What is announced as new is announced once: an issue as created although windows
\* overlap, a mail unless the poller was seeded again, a meeting as created.
AnnouncedOnce == CreatedOnce /\ MailOnce /\ MadeOnce
=============================================================================
