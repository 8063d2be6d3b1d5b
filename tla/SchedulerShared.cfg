SPECIFICATION Spec
CONSTANTS
  ann = ann
  bob = bob
  digest = digest
  news = news
  Persona = {ann, bob}
  PersonaSeq <- MCPersonaSeq
  g1 = g1
  g2 = g2
  Resp = {digest, news}
  PersonaOf <- MCPersonaOf
  Procs = {g1, g2}
  MaxConcurrent = 1
  FileStates = {"enabled", "malformed"}
  StartFaults = TRUE
  MaxRuns = 2
  MaxCrashes = 1
INVARIANTS TypeOK OneOpenRun CapRespected OverlapIsRecovered
PROPERTY LedgerSpec
