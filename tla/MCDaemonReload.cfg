\* Two reloads of the configuration overlap.
SPECIFICATION DaemonSpec
CONSTANTS
  t1 = t1
  t2 = t2
  k1 = k1
  Scripts = {script}
  Handlers = {handler}
  Timeouts = {t1, t2}
  ApiKeys = {k1}
  NoKey = NoKey
  Default <- DefaultSettings
  BadSecret = BadSecret
  BadFile = BadFile
  ConfigFiles <- TheFiles
  Deployments <- TheDeployments
  MaxReloads <- TheReloads
INVARIANT AppliedAlways
CHECK_DEADLOCK FALSE
