SPECIFICATION FairSpec
CONSTANTS
  MaxPersonas = 2
  MaxProcs = 2
  Domain = {"localhost", "mail"}
  MaxCuts = 2
INVARIANTS TypeOK DomainsAgree GatewaysReachable
PROPERTIES ServiceReturns
