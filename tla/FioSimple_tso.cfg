SPECIFICATION Spec
CONSTANTS
  init_if = init_if
  tgt_if = tgt_if
  InitIf = init_if
  TgtIf = tgt_if
  Ifaces <- MCIfaces
  Asked <- MCAsked
  InitAgents <- MCInitAgents
  TgtAgents <- MCTgtAgents
  Count = 2
  MaxAttempts = 2
INVARIANT TsoAsAsked
