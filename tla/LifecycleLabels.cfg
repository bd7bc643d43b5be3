CONSTANTS
  vm = vm
  jobs = jobs
  q1 = q1
  q2 = q2
  ModuleNames <- MCModules
  Requests <- MCRequests
  MalformedNames <- MCMalformed
  Numbers <- MCNumbers
  Defaults <- MCDefaults
  Invocations <- LabelInvocations
  MaxSignals = 2
SPECIFICATION Spec
INVARIANTS AcceptedLabelsRegister
