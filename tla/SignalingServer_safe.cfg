CONSTANTS
  c1 = c1
  c2 = c2
  c3 = c3
  lan = lan
  vpn = vpn
  NoConn = NoConn
  Conns = {c1, c2, c3}
  Addrs = {lan, vpn}
  AddrOf <- MCAddrOf
  MaxFailures = 1
  AutoApprove = FALSE
  PrepareYields = FALSE
SPECIFICATION Spec
INVARIANTS HandlerOwnsSlot AdmittedHoldsSecret
PROPERTY GateSpec
CHECK_DEADLOCK FALSE
