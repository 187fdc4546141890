SPECIFICATION Spec
CHECK_DEADLOCK FALSE
CONSTANTS
  Callers = {r1, r2}
  NoCaller = NoCaller
  DefaultExpire = 120
  Programs <- MCPrograms
  CAFiles <- MCCAFiles
  IAMFiles <- MCIAMFiles
  RSAKeys <- MCRSAKeys
INVARIANTS
  RefreshRecovers
  HandledOnce
  CAEnforced
  OneIdentity
PROPERTIES
  TokenNeverGoesBack
  RoundTripReturns
