SPECIFICATION Spec
CONSTANTS
  Rates = {28, 33}
  HardwareRates = {30, 33, 50}
  Period = 32
  HalfTaps = 2
  Headroom = 180
  Extra = 1
  Least = 50
  MaxPulls = 2
INVARIANTS
  TypeOK
  Seamless
  KernelCovered
PROPERTIES
  NeverDry
