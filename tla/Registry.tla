------------------------------ MODULE Registry ------------------------------
(***************************************************************************)
(* How the daemon knows its agents (internal/registry, pkg/agent).         *)
(*                                                                         *)
(* An agent process connects to the NATS server inside the daemon,         *)
(* publishes one registration and then a heartbeat every 30 seconds.  The  *)
(* registry keeps in memory what it hears; each of its two subscriptions   *)
(* has a goroutine of its own, so a heartbeat may overtake a registration. *)
(* The daemon may stop and start again: the agents' NATS clients reconnect *)
(* by themselves, and publish what they held back meanwhile; nothing       *)
(* published while nobody is subscribed is kept.                           *)
(*                                                                         *)
(* Several processes may bear one name, one after the other or together.   *)
(***************************************************************************)
EXTENDS Naturals, Sequences

CONSTANTS
  Procs,       \* processes of agents
  AgentNames,  \* names of agents
  NameOf,      \* the name each process was given
  Nobody,      \* no process
  MaxHandled,  \* bound: events and errors a process counts
  MaxBeats,    \* bound: heartbeats of a process on their way at a time
  MaxStops     \* bound: times the daemon stops

ASSUME NameOfAssumption == NameOf \in [Procs -> AgentNames]
ASSUME NobodyAssumption == Nobody \notin Procs
ASSUME RegistryBounds == MaxHandled \in Nat /\ MaxBeats \in Nat /\ MaxStops \in Nat

VARIABLES
  server,     \* the daemon: "off", "nats" (the server accepts connections), "on" (subscribed)
  stops,      \* times the daemon stopped
  listed,     \* registry: the names in the map
  meta,       \* registry: the process whose registration is in the entry
  status,     \* registry: the status of the last heartbeat, "" before the first
  shown,      \* registry: the counter of the last heartbeat
  proc,       \* per process: "new", "running", "gone"
  linked,     \* the processes connected to the server
  handled,    \* per process: events and errors it counted
  announced,  \* the processes whose registration is on its way
  beats,      \* per process: the counters of the heartbeats on their way
  heard       \* history: the processes whose registration this registry received

entries == <<listed, meta, status, shown>>
agentSide == <<proc, linked, handled>>
inFlight == <<announced, beats>>
registryVars == <<server, stops, listed, meta, status, shown, proc, linked, handled,
                  announced, beats, heard>>

RegistryTypeOK ==
  /\ server \in {"off", "nats", "on"} /\ stops \in 0..MaxStops
  /\ listed \subseteq AgentNames
  /\ meta \in [AgentNames -> Procs \cup {Nobody}]
  /\ status \in [AgentNames -> {"", "running"}]
  /\ shown \in [AgentNames -> 0..MaxHandled]
  /\ proc \in [Procs -> {"new", "running", "gone"}]
  /\ linked \subseteq Procs
  /\ handled \in [Procs -> 0..MaxHandled]
  /\ announced \subseteq Procs
  /\ beats \in [Procs -> Seq(0..MaxHandled)]
  /\ heard \subseteq Procs

Unlisted ==
  /\ listed = {}
  /\ meta = [n \in AgentNames |-> Nobody]
  /\ status = [n \in AgentNames |-> ""]
  /\ shown = [n \in AgentNames |-> 0]

RegistryInit ==
  /\ server = "off" /\ stops = 0
  /\ Unlisted
  /\ proc = [p \in Procs |-> "new"] /\ linked = {}
  /\ handled = [p \in Procs |-> 0]
  /\ announced = {} /\ beats = [p \in Procs |-> <<>>]
  /\ heard = {}

-----------------------------------------------------------------------------
(***************************************************************************)
(* The daemon.                                                             *)
(***************************************************************************)

\* natsserver.New: the server accepts connections.
StartNats ==
  /\ server = "off"
  /\ server' = "nats"
  /\ UNCHANGED <<stops, entries, agentSide, inFlight, heard>>

\* registry.New: the map is empty, both subscriptions are there.
StartRegistry ==
  /\ server = "nats"
  /\ server' = "on"
  /\ UNCHANGED <<stops, entries, agentSide, inFlight, heard>>

\* The daemon ends: the map and what is on its way in the server are lost.
StopDaemon ==
  /\ server # "off" /\ stops < MaxStops
  /\ server' = "off" /\ stops' = stops + 1
  /\ listed' = {}
  /\ meta' = [n \in AgentNames |-> Nobody]
  /\ status' = [n \in AgentNames |-> ""]
  /\ shown' = [n \in AgentNames |-> 0]
  /\ linked' = {} /\ heard' = {}
  /\ announced' = {} /\ beats' = [p \in Procs |-> <<>>]
  /\ UNCHANGED <<proc, handled>>

\* handleRegistration: the entry is made, or its registration replaced.
HandleRegistration(p) ==
  LET n == NameOf[p] IN
  /\ server = "on" /\ p \in announced /\ p \in linked
  /\ announced' = announced \ {p}
  /\ listed' = listed \cup {n}
  /\ meta' = [meta EXCEPT ![n] = p]
  /\ heard' = heard \cup {p}
  /\ UNCHANGED <<server, stops, status, shown, agentSide, beats>>

\* Mutated: a heartbeat makes a new entry whether there is one or not.
HandleHeartbeatReplaces(p) ==
  LET n == NameOf[p] IN
  /\ server = "on" /\ beats[p] # <<>> /\ p \in linked
  /\ beats' = [beats EXCEPT ![p] = Tail(@)]
  /\ listed' = listed \cup {n}
  /\ meta' = [meta EXCEPT ![n] = Nobody]
  /\ status' = [status EXCEPT ![n] = "running"]
  /\ shown' = [shown EXCEPT ![n] = Head(beats[p])]
  /\ UNCHANGED <<server, stops, agentSide, announced, heard>>

\* Mutated: the heartbeat of an agent that is not in the map is ignored.
HandleHeartbeatKnown(p) ==
  LET n == NameOf[p] IN
  /\ server = "on" /\ beats[p] # <<>> /\ p \in linked
  /\ beats' = [beats EXCEPT ![p] = Tail(@)]
  /\ IF n \in listed
     THEN /\ status' = [status EXCEPT ![n] = "running"]
          /\ shown' = [shown EXCEPT ![n] = Head(beats[p])]
     ELSE UNCHANGED <<status, shown>>
  /\ UNCHANGED <<server, stops, listed, meta, agentSide, announced, heard>>

\* handleHeartbeat: the entry, made with the bare name if it is not there, gets
\* the heartbeat.
HandleHeartbeat(p) ==
  LET n == NameOf[p] IN
  /\ server = "on" /\ beats[p] # <<>> /\ p \in linked
  /\ beats' = [beats EXCEPT ![p] = Tail(@)]
  /\ listed' = listed \cup {n}
  /\ status' = [status EXCEPT ![n] = "running"]
  /\ shown' = [shown EXCEPT ![n] = Head(beats[p])]
  /\ UNCHANGED <<server, stops, meta, agentSide, announced, heard>>

-----------------------------------------------------------------------------
(***************************************************************************)
(* An agent process.  What it publishes while it is not connected stays in *)
(* its NATS client; what it publishes to a server without a registry goes  *)
(* nowhere.                                                                *)
(***************************************************************************)

Nowhere(p) == p \in linked /\ server = "nats"

\* agent.New: connect, or give up; register; the heartbeats begin.
StartAgent(p) ==
  /\ proc[p] = "new" /\ server # "off"
  /\ proc' = [proc EXCEPT ![p] = "running"]
  /\ linked' = linked \cup {p}
  /\ announced' = IF server = "on" THEN announced \cup {p} ELSE announced
  /\ UNCHANGED <<server, stops, entries, handled, beats, heard>>

\* sendHeartbeat, at once and at every tick.
Beat(p) ==
  /\ proc[p] = "running" /\ Len(beats[p]) < MaxBeats
  /\ beats' = IF Nowhere(p) THEN beats ELSE [beats EXCEPT ![p] = Append(@, handled[p])]
  /\ UNCHANGED <<server, stops, entries, agentSide, announced, heard>>

\* RecordEvent or RecordError.
Record(p) ==
  /\ proc[p] = "running" /\ handled[p] < MaxHandled
  /\ handled' = [handled EXCEPT ![p] = @ + 1]
  /\ UNCHANGED <<server, stops, entries, proc, linked, inFlight, heard>>

\* The client reconnects and publishes what it held back.
Reconnect(p) ==
  /\ proc[p] = "running" /\ p \notin linked /\ server # "off"
  /\ linked' = linked \cup {p}
  /\ beats' = IF server = "nats" THEN [beats EXCEPT ![p] = <<>>] ELSE beats
  /\ UNCHANGED <<server, stops, entries, proc, handled, announced, heard>>

\* Close drains the connection, or drops what it held back when there is none.
CloseConn(p) ==
  /\ proc[p] = "running"
  /\ proc' = [proc EXCEPT ![p] = "gone"]
  /\ beats' = IF p \in linked THEN beats ELSE [beats EXCEPT ![p] = <<>>]
  /\ UNCHANGED <<server, stops, entries, linked, handled, announced, heard>>

\* The process dies with what its client has not yet written.
Crash(p) ==
  /\ proc[p] = "running"
  /\ proc' = [proc EXCEPT ![p] = "gone"]
  /\ announced' \in {announced, announced \ {p}}
  /\ \E k \in 0..Len(beats[p]) : beats' = [beats EXCEPT ![p] = SubSeq(@, 1, k)]
  /\ UNCHANGED <<server, stops, entries, linked, handled, heard>>

-----------------------------------------------------------------------------
RegistryNext ==
  \/ StartNats \/ StartRegistry \/ StopDaemon
  \/ \E p \in Procs :
       \/ HandleRegistration(p) \/ HandleHeartbeat(p)
       \/ StartAgent(p) \/ Beat(p) \/ Record(p) \/ Reconnect(p) \/ CloseConn(p) \/ Crash(p)

RegistrySpec == RegistryInit /\ [][RegistryNext]_registryVars

-----------------------------------------------------------------------------
(***************************************************************************)
(* Properties.                                                             *)
(***************************************************************************)

\* Once this registry has received the registration of a process, the entry of
\* its name keeps the capabilities of a process of that name, however the
\* heartbeats of that name and of earlier processes interleave with it.
Capable ==
  \A p \in heard :
    LET n == NameOf[p] IN n \in listed /\ meta[n] \in heard /\ NameOf[meta[n]] = n

\* An agent that runs is listed as running, with the counters it has, again and
\* again: also after the daemon was restarted, although an agent registers only once.
Shown ==
  []<>(\A p \in Procs :
         server = "on" /\ proc[p] = "running" =>
           LET n == NameOf[p] IN
           /\ n \in listed /\ status[n] = "running"
           /\ \E q \in Procs : NameOf[q] = n /\ shown[n] = handled[q])

=============================================================================
