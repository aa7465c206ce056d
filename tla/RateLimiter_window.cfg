CONSTANTS
  lan = lan
  vpn = vpn
  NoKey = NoKey
  Keys = {lan, vpn}
  MaxFailures = 2
  Window = 2
  MaxTime = 6
SPECIFICATION Spec
INVARIANT WindowLimit
PROPERTY CounterSpec
CHECK_DEADLOCK FALSE
