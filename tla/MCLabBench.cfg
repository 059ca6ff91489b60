CONSTANTS
  org1 = org1   ana = ana   card = card   scope1 = scope1
  e1 = e1   e2 = e2
  spectra = spectra   soc = soc   beacon = beacon   target = target
  q1 = q1
  spectraExec = spectraExec   socExec = socExec   beaconExec = beaconExec
  None = None
  Modules <- MCModules
  Executors = {spectraExec, socExec}
  Proposal <- MCProposal
  ModuleAlias <- MCModuleAlias
  TargetAlias <- MCTargetAlias
  Experiment = {e1, e2}
  Operator <- MCOperator
  Source <- MCSource
  Scope <- MCScope
  Steps = 2
  MayFail = TRUE
  Device = {card}
  Profiles = {"assistant", "lab"}
  MaxLab = 1
  MaxPresses = 1
  OperatorOf <- MCOperatorOf
  EdgeOrg = org1
  RequestId = {q1}
  MaxRequests = 1
  Past = 1
  ConfirmTTL = 1
  ReportTTL = 3
  MaxTime = 2
SPECIFICATION Spec
INVARIANTS
  ShownIsConfirmed
  DisplayNotAhead
  ConfirmationSuffices
PROPERTIES
  ConfirmedByPress
  Implements
\* When the clock has reached its bound and every experiment has ended, all
\* calls are rejected or answered: the laboratory may stop.
CHECK_DEADLOCK FALSE
