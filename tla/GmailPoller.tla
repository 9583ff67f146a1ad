----------------------------- MODULE GmailPoller -----------------------------
(***************************************************************************)
(* The poller of Gmail (internal/google/gmail_poller.go with GetProfile,   *)
(* ListMessages and ListHistory of gmail_client.go).                       *)
(*                                                                         *)
(* A mailbox counts its changes in a history id.  The first poll seeds:    *)
(* it takes the id from the profile and then announces recent messages.    *)
(* Later polls ask for the messages that were added after the id.  Any     *)
(* error that leaves a poll without a message makes the next one seed.     *)
(***************************************************************************)
EXTENDS Integers, FiniteSets

CONSTANTS
  Mails,
  Queried,      \* those that match the configured query
  MaxMessages,  \* GmailPoller.maxMessages, 20
  MaxMailbox    \* bound: the history id at which the mailbox stops changing

ASSUME GmailAssumption ==
  /\ IsFiniteSet(Mails) /\ Queried \subseteq Mails
  /\ MaxMessages \in Nat \ {0} /\ MaxMailbox \in Nat

VARIABLES
  mailbox,       \* Gmail: the history id of the mailbox
  arrived,       \* Gmail: the history id of a message's arrival, 0: not there
  historyID, seeded, \* GmailPoller
  seeding,       \* seed has the profile and asks for recent messages
  base,          \* history: the id of the last profile
  seededAt,      \* history: the id when the recent messages were read last
  announced,     \* history: messages that were announced
  repeated,      \* history: messages that were announced again
  skipped        \* history: messages that could not be fetched

gmailVars == <<mailbox, arrived, historyID, seeded, seeding, base, seededAt,
               announced, repeated, skipped>>

Arrived == {m \in Mails : arrived[m] # 0}

GmailTypeOK ==
  /\ mailbox \in Nat /\ arrived \in [Mails -> 0..mailbox]
  /\ historyID \in base..mailbox /\ base \in 0..mailbox /\ seededAt \in 0..mailbox
  /\ seeded \in BOOLEAN /\ seeding \in BOOLEAN
  /\ announced \subseteq Arrived /\ repeated \subseteq announced /\ skipped \subseteq Arrived

GmailInit ==
  /\ mailbox = 0 /\ arrived = [m \in Mails |-> 0]
  /\ historyID = 0 /\ seeded = FALSE /\ seeding = FALSE /\ base = 0 /\ seededAt = 0
  /\ announced = {} /\ repeated = {} /\ skipped = {}

-----------------------------------------------------------------------------
Arrive(m) ==
  /\ mailbox < MaxMailbox /\ arrived[m] = 0
  /\ mailbox' = mailbox + 1 /\ arrived' = [arrived EXCEPT ![m] = mailbox + 1]
  /\ UNCHANGED <<historyID, seeded, seeding, base, seededAt, announced, repeated, skipped>>

\* A change that adds no message: it has an id, but is not in the answer of the history.
Relabel ==
  /\ mailbox < MaxMailbox
  /\ mailbox' = mailbox + 1
  /\ UNCHANGED <<arrived, historyID, seeded, seeding, base, seededAt, announced, repeated, skipped>>

\* onEvent for each of the messages.
Announce(mails) ==
  /\ announced' = announced \cup mails
  /\ repeated' = repeated \cup (mails \cap announced)

\* Mutated: the id to come instead of the current one.
ProfileNext ==
  /\ ~seeded /\ ~seeding
  /\ historyID' = mailbox + 1 /\ base' = mailbox /\ seeded' = TRUE /\ seeding' = TRUE
  /\ UNCHANGED <<mailbox, arrived, seededAt, announced, repeated, skipped>>

\* seed, GetProfile.  If it fails nothing changes.
Profile ==
  /\ ~seeded /\ ~seeding
  /\ historyID' = mailbox /\ base' = mailbox /\ seeded' = TRUE /\ seeding' = TRUE
  /\ UNCHANGED <<mailbox, arrived, seededAt, announced, repeated, skipped>>

\* seed, ListMessages: the newest that match the query, less those that cannot be fetched.
Recent ==
  /\ seeding
  /\ LET found == Arrived \cap Queried
         listed == {m \in found :
                      Cardinality({n \in found : arrived[n] > arrived[m]}) < MaxMessages}
     IN  \E missing \in SUBSET listed :
           Announce(listed \ missing) /\ skipped' = skipped \cup missing
  /\ seeding' = FALSE /\ seededAt' = mailbox
  /\ UNCHANGED <<mailbox, arrived, historyID, seeded, base>>

RecentFails ==
  /\ seeding
  /\ seeding' = FALSE
  /\ UNCHANGED <<mailbox, arrived, historyID, seeded, base, seededAt, announced, repeated, skipped>>

\* What ListHistory returns with the id "upto": the messages added since historyID, in
\* their order, until there are enough of them, until a page fails, or all of them.
\* Messages that cannot be fetched are passed over.
Read(upto) == {m \in Arrived : arrived[m] > historyID /\ arrived[m] <= upto}
Returned(upto, missing) ==
  LET got == Read(upto) \ missing
      record == \E m \in Read(upto) : arrived[m] = upto
  IN  /\ missing \subseteq Read(upto)
      /\ \/ Cardinality(got) = MaxMessages /\ \E m \in got : arrived[m] = upto
         \/ Cardinality(got) \in 1..(MaxMessages - 1) /\ record
         \/ Cardinality(got) < MaxMessages /\ upto = mailbox

\* Mutated: the id of the mailbox, also when there are more messages.
HistoryToEnd ==
  /\ seeded /\ ~seeding
  /\ \E upto \in historyID..mailbox : \E missing \in SUBSET Read(upto) :
       /\ Returned(upto, missing)
       /\ Announce(Read(upto) \ missing) /\ skipped' = skipped \cup missing
  /\ historyID' = mailbox
  /\ UNCHANGED <<mailbox, arrived, seeded, seeding, base, seededAt>>

\* Mutated: the id stays when there is more to come.
HistoryStays ==
  /\ seeded /\ ~seeding
  /\ \E upto \in historyID..mailbox : \E missing \in SUBSET Read(upto) :
       /\ Returned(upto, missing)
       /\ Announce(Read(upto) \ missing) /\ skipped' = skipped \cup missing
       /\ historyID' = IF upto = mailbox THEN upto ELSE historyID
  /\ UNCHANGED <<mailbox, arrived, seeded, seeding, base, seededAt>>

\* poll
History ==
  /\ seeded /\ ~seeding
  /\ \E upto \in historyID..mailbox : \E missing \in SUBSET Read(upto) :
       /\ Returned(upto, missing)
       /\ Announce(Read(upto) \ missing) /\ skipped' = skipped \cup missing
       /\ historyID' = upto
  /\ UNCHANGED <<mailbox, arrived, seeded, seeding, base, seededAt>>

\* An error, whatever it is, and no message before it; or the agent starts anew.
HistoryFails ==
  /\ seeded /\ ~seeding
  /\ seeded' = FALSE
  /\ UNCHANGED <<mailbox, arrived, historyID, seeding, base, seededAt, announced, repeated, skipped>>

GmailNext ==
  \/ \E m \in Mails : Arrive(m)
  \/ Relabel \/ Profile \/ Recent \/ RecentFails \/ History \/ HistoryFails

GmailSpec == GmailInit /\ [][GmailNext]_gmailVars

-----------------------------------------------------------------------------
(***************************************************************************)
(* Properties.                                                             *)
(***************************************************************************)

\* Every message that arrived after the last profile and up to historyID was announced,
\* however many arrive at once and wherever an answer breaks off, unless it could not
\* be fetched (poll, ListHistory).
MailTold ==
  \A m \in Arrived \ skipped : base < arrived[m] /\ arrived[m] <= historyID => m \in announced

\* No message is announced twice because of the history: those that are were there when
\* the recent messages were read.
MailOnce == \A m \in repeated : arrived[m] <= seededAt
=============================================================================
