SPECIFICATION FairSpec
CONSTANTS
  ann = ann
  bob = bob
  digest = digest
  news = news
  Persona = {ann, bob}
  PersonaSeq <- MCPersonaSeq
  g1 = g1
  g2 = g2
  Resp = {digest, news}
  PersonaOf <- MCPersonaOf
  Procs = {g1}
  MaxConcurrent = 2
  FileStates = {"enabled", "malformed"}
  StartFaults = FALSE
  MaxRuns = 3
  MaxCrashes = 1
PROPERTIES QueuedRunsResolve RunningRunsResolve
