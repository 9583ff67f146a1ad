----------------------------- MODULE Dashboard -----------------------------
(***************************************************************************)
(* The event feed of the web dashboard (internal/web).                     *)
(*                                                                         *)
(* The NATS callback publishes one event after the other: under the lock   *)
(* it enters the ring of recent events and the set of clients is copied,   *)
(* then, outside the lock, the event is sent to every client of the copy,  *)
(* or dropped where the channel is full.  A browser loads the page, which  *)
(* shows the ring, and then opens the event stream; when the stream breaks *)
(* it opens another one, on a new channel.                                 *)
(*                                                                         *)
(* Events are numbered in the order in which they are published.           *)
(***************************************************************************)
EXTENDS Naturals, Sequences, FiniteSets

CONSTANTS
  Viewers,     \* browsers
  Known,       \* those with the right credentials, all if none are asked for
  RingSize,    \* events of the ring (50)
  Slots,       \* events a client's channel holds (64)
  MaxClients,  \* maxSSEClients
  MaxEvents,   \* bound: events published
  MaxOpens     \* bound: streams a browser opens

ASSUME KnownAssumption == Known \subseteq Viewers
ASSUME RingAssumption == RingSize \in Nat \ {0} /\ Slots \in Nat \ {0}
ASSUME DashboardBounds == MaxClients \in Nat /\ MaxEvents \in Nat /\ MaxOpens \in Nat

VARIABLES
  published,  \* number of events published, and the newest one
  ring,       \* EventBus.ring, 0: nothing yet
  ringPos,    \* EventBus.ringPos
  ringLen,    \* EventBus.ringLen
  clients,    \* EventBus.clients: the browsers whose stream is registered
  copied,     \* Publish: the streams still to be sent the newest event
  open,       \* per browser: number of streams it opened; the last is the current one
  queue,      \* per browser: the channel of its current stream
  since,      \* per browser: number of events published when it loaded the page, None before
  page,       \* per browser: the events on the page
  got,        \* per browser: the events its streams delivered
  missed      \* history: per browser: events it had no room or no stream for

bus == <<published, ring, ringPos, ringLen, copied>>
dashboardVars == <<published, ring, ringPos, ringLen, clients, copied, open, queue, since,
                   page, got, missed>>

Feed == 1..MaxEvents
NotYet == MaxEvents + 1

DashboardTypeOK ==
  /\ published \in 0..MaxEvents
  /\ ring \in [0..(RingSize - 1) -> 0..MaxEvents]
  /\ ringPos \in 0..(RingSize - 1) /\ ringLen \in 0..RingSize
  /\ clients \subseteq Viewers
  /\ copied \subseteq Viewers \X (0..MaxOpens)
  /\ open \in [Viewers -> 0..MaxOpens]
  /\ queue \in [Viewers -> Seq(Feed)]
  /\ since \in [Viewers -> 0..NotYet]
  /\ page \in [Viewers -> Seq(Feed)] /\ got \in [Viewers -> Seq(Feed)]
  /\ missed \in [Viewers -> SUBSET Feed]

DashboardInit ==
  /\ published = 0
  /\ ring = [i \in 0..(RingSize - 1) |-> 0] /\ ringPos = 0 /\ ringLen = 0
  /\ clients = {} /\ copied = {}
  /\ open = [v \in Viewers |-> 0]
  /\ queue = [v \in Viewers |-> <<>>]
  /\ since = [v \in Viewers |-> NotYet]
  /\ page = [v \in Viewers |-> <<>>] /\ got = [v \in Viewers |-> <<>>]
  /\ missed = [v \in Viewers |-> {}]

-----------------------------------------------------------------------------
(***************************************************************************)
(* EventBus.                                                               *)
(***************************************************************************)

\* Mutated: the oldest event is looked for one place too far.
RecentShifted ==
  LET start == (ringPos - ringLen + RingSize + 1) % RingSize
  IN  [i \in 1..ringLen |-> ring[(start + i - 1) % RingSize]]

\* Recent: the ring from its oldest event on.  The code skips a place that is still
\* empty; that there is none among the first ringLen is for DashboardTypeOK to show,
\* since a page holds events only.
Recent ==
  LET start == (ringPos - ringLen + RingSize) % RingSize
  IN  [i \in 1..ringLen |-> ring[(start + i - 1) % RingSize]]

\* Those who have the page and no stream do not see the event.
Publish ==
  /\ published < MaxEvents /\ copied = {}
  /\ published' = published + 1
  /\ ring' = [ring EXCEPT ![ringPos] = published + 1]
  /\ ringPos' = (ringPos + 1) % RingSize
  /\ ringLen' = IF ringLen < RingSize THEN ringLen + 1 ELSE ringLen
  /\ copied' = {<<v, open[v]>> : v \in clients}
  /\ missed' = [v \in Viewers |-> IF v \in clients THEN missed[v]
                                                   ELSE missed[v] \cup {published + 1}]
  /\ UNCHANGED <<clients, open, queue, since, page, got>>

\* Mutated: a full channel makes room by dropping its oldest event.
SendMakesRoom(v, k) ==
  /\ <<v, k>> \in copied
  /\ copied' = copied \ {<<v, k>>}
  /\ IF v \in clients /\ k = open[v]
     THEN /\ queue' = [queue EXCEPT ![v] =
                         Append(IF Len(@) < Slots THEN @ ELSE Tail(@), published)]
          /\ UNCHANGED missed
     ELSE /\ missed' = [missed EXCEPT ![v] = @ \cup {published}]
          /\ UNCHANGED queue
  /\ UNCHANGED <<published, ring, ringPos, ringLen, clients, open, since, page, got>>

\* The event goes into the channel of the copy, unless it is full; a stream that
\* ended meanwhile has a channel nobody reads.
Send(v, k) ==
  /\ <<v, k>> \in copied
  /\ copied' = copied \ {<<v, k>>}
  /\ IF v \in clients /\ k = open[v] /\ Len(queue[v]) < Slots
     THEN queue' = [queue EXCEPT ![v] = Append(@, published)] /\ UNCHANGED missed
     ELSE missed' = [missed EXCEPT ![v] = @ \cup {published}] /\ UNCHANGED queue
  /\ UNCHANGED <<published, ring, ringPos, ringLen, clients, open, since, page, got>>

-----------------------------------------------------------------------------
(***************************************************************************)
(* The pages.                                                              *)
(***************************************************************************)

\* securityMiddleware: without the credentials a request is answered by 401.
Admitted(v) == v \in Known

\* handleDashboard: the page shows what is in the ring now.
LoadPage(v) ==
  /\ Admitted(v) /\ since[v] = NotYet
  /\ since' = [since EXCEPT ![v] = published]
  /\ page' = [page EXCEPT ![v] = Recent]
  /\ missed' = [missed EXCEPT ![v] = {}]
  /\ UNCHANGED <<bus, clients, open, queue, got>>

\* handleEventStream subscribes with a new channel, unless there are too many.
OpenStream(v) ==
  /\ Admitted(v) /\ since[v] # NotYet
  /\ v \notin clients /\ open[v] < MaxOpens
  /\ Cardinality(clients) < MaxClients
  /\ clients' = clients \cup {v}
  /\ open' = [open EXCEPT ![v] = @ + 1]
  /\ UNCHANGED <<bus, queue, since, page, got, missed>>

\* It writes an event of the channel to the browser.
Deliver(v) ==
  /\ v \in clients /\ queue[v] # <<>>
  /\ got' = [got EXCEPT ![v] = Append(@, Head(queue[v]))]
  /\ queue' = [queue EXCEPT ![v] = Tail(@)]
  /\ UNCHANGED <<bus, clients, open, since, page, missed>>

\* The browser is gone: whatever the channel holds, the handler may end, and
\* unsubscribes.
EndStream(v) ==
  /\ v \in clients
  /\ clients' = clients \ {v}
  /\ missed' = [missed EXCEPT ![v] = @ \cup {queue[v][i] : i \in DOMAIN queue[v]}]
  /\ queue' = [queue EXCEPT ![v] = <<>>]
  /\ UNCHANGED <<bus, open, since, page, got>>

-----------------------------------------------------------------------------
DashboardNext ==
  \/ Publish
  \/ \E v \in Viewers :
       \/ \E k \in 1..MaxOpens : Send(v, k)
       \/ LoadPage(v) \/ OpenStream(v) \/ Deliver(v) \/ EndStream(v)

DashboardSpec == DashboardInit /\ [][DashboardNext]_dashboardVars

-----------------------------------------------------------------------------
(***************************************************************************)
(* Properties.                                                             *)
(***************************************************************************)

Increasing(s) == \A i, j \in DOMAIN s : i < j => s[i] < s[j]
InSeq(s) == {s[i] : i \in DOMAIN s}

\* A page shows the newest RingSize events of the moment it was made, in order.  From
\* then on a browser sees every event once and in order, whatever streams it
\* opens and leaves while events are being sent, except those that came when it
\* had no stream or when its channel was full.
Followed ==
  \A v \in Viewers : since[v] # NotYet =>
    /\ Increasing(page[v] \o got[v] \o queue[v])
    /\ InSeq(page[v]) = {e \in 1..since[v] : e + RingSize > since[v]}
    /\ InSeq(got[v] \o queue[v]) \cup missed[v]
         \cup {e \in {published} : \E k \in 1..MaxOpens : <<v, k>> \in copied}
       = (since[v] + 1)..published
=============================================================================
