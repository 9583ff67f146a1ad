\* Every part of the daemon on a small instance.
SPECIFICATION SekiadFairSpec
CONSTANTS
  t1 = t1
  t2 = t2
  k1 = k1
  name = name
  \* Daemon
  Scripts = {script}
  Handlers = {handler}
  Timeouts = {t1, t2}
  ApiKeys = {k1}
  NoKey = NoKey
  Default <- DefaultSettings
  BadSecret = BadSecret
  BadFile = BadFile
  ConfigFiles <- TheFiles
  Deployments <- TheDeployments
  MaxReloads <- TheReloads
  \* Loader
  Names = {wa, wb}
  Manifest = Manifest
  Main = Main
  Flushers = {f1}
  Api = {a1}
  Overlap = FALSE
  None = None
  MaxEdits = 3
  \* Conversation
  Keys = {c1}
  Workflows = {w1, w2}
  maxHistory = 2
  ttl = 1
  CallLimit = 1
  MaxMessages = 5
  \* Registry
  Procs = {p1, p2}
  AgentNames = {name}
  NameOf <- OneName
  Nobody = Nobody
  MaxHandled = 1
  MaxBeats = 2
  MaxStops = 2
  \* Dashboard
  Viewers = {v1, v2}
  Known = {v1, v2}
  RingSize = 2
  Slots = 1
  MaxClients = 2
  MaxEvents = 4
  MaxOpens = 2
  \* Sentinel
  MaxActions = 2
INVARIANTS
  SekiadTypeOK
  Applied
  Orderly
  Tracked
  RecentHistory
  Dialogue
  Capable
  Followed
PROPERTIES
  StopEnds
  KeepsOld
  Converges
  Evicted
  Shown
  SentinelEnds
CHECK_DEADLOCK FALSE
