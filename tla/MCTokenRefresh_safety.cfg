SPECIFICATION FairSpec
CONSTANTS
  Callers = {a, b, c}
  NoCaller = NoCaller
  Margin = 1
  Lifetime = 2
  MaxTime = 2
INVARIANTS TypeOK NoDataRace SendsGoodToken SomebodyMoves
PROPERTIES OneRefreshPerExpiry CallsReturn
