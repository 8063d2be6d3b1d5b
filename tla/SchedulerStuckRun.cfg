SPECIFICATION FairSpec
CONSTANTS
  ann = ann
  bob = bob
  digest = digest
  news = news
  Persona = {ann, bob}
  PersonaSeq <- MCPersonaSeq
  g1 = g1
  g2 = g2
  Resp = {digest, news}
  PersonaOf <- MCPersonaOf
  Procs = {g1}
  MaxConcurrent = 2
  FileStates = {"enabled", "absent"}
  StartFaults = FALSE
  MaxRuns = 2
  MaxCrashes = 0
PROPERTY RunningRunsResolve
