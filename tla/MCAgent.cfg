SPECIFICATION FairAgentSpec
CONSTANTS
  Mounts = {root, data}
  Root = root
  Sizes = {1}
  MaxRegisterRetries = 1
  DefaultTimeout = 10
  Seconds = {0, 30}
  Retries = {0}
  Responsive = {root}
CHECK_DEADLOCK FALSE
INVARIANTS
  AgentTypeOK
  SuccessIsVerified
  SettingsAreSensible
PROPERTIES
  HandedOutIsFinal
  KeepsCollecting
