CONSTANTS
  c1 = c1
  c2 = c2
  c3 = c3
  lan = lan
  vpn = vpn
  NoConn = NoConn
  Conns = {c1, c2}
  Addrs = {lan, vpn}
  AddrOf <- MCAddrOf
  MaxFailures = 1
  AutoApprove = FALSE
  PrepareYields = TRUE
SPECIFICATION FairSpec
INVARIANT AnswerMatchesPeer
PROPERTIES SessionEnds CloseDrains
CHECK_DEADLOCK FALSE
