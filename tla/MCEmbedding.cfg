SPECIFICATION Spec
CONSTANTS
  MaxLoads = 3
  MaxRunners = 2
  MlLoads = {1, 2}
  WebKit = FALSE
  GpuApi = TRUE
  WkCalls = {1, 2}
  MaxWorkers = 2
  cq = cq
  cb1 = cb1
  cb2 = cb2
  ct = ct
  cl = cl
  Calls = {cq, cb1, cb2, ct, cl}
  CallType <- MCCallType
  GpuPostMax = 2
  TokFails = TRUE
INVARIANTS EmbNoZombie ModelFallsBack  RpcForwardAlone
PROPERTY RpcQueryServed
CHECK_DEADLOCK FALSE
