\* Two threads of the server and one of a command beside it; six versions, four
\* compactions and two restarts; two databases, one of them drifted to, two acts of
\* the operator and one boot that dies or save that fails; three starts of two
\* versions of the code; two backup daemons, a command and one restore that fail or
\* die once; four spawned processes and two terminals.
CONSTANTS
  Parts = {"database", "context", "config", "artifacts", "migrations", "backups", "service"}
  Server = server
  Cli = cli_process
  serve1 = s1
  serve2 = s2
  cli = c1
  Threads = {s1, s2, c1}
  ProcessOf <- TwoProcesses
  MaxCalls = 2
  MaxSteps = 3
  MaxCrashes = 1
  Tasks = {t1}
  ThrashLimit = 2
  MaxVersions = 6
  MaxRecords = 4
  MaxRestarts = 2
  Databases = {d1, d2}
  Groups = {g1}
  Keys = {k1, k2}
  None = none
  Env = from_environment
  MaxMoves = 2
  MaxFaults = 1
  Keepers = {p1, p2}
  Nothing = nothing
  Contents = {x1, x2}
  Documents = {doc1, doc2}
  MaxStores = 3
  MaxEdits = 5
  MaxDeaths = 2
  early = early
  late = late
  later = later
  Starters = {early, late, later}
  ShippedBy <- Shipped
  MaxFailed = 2
  Daemons = {embedded, standalone}
  Embedded = embedded
  Command = command_line
  Missing = missing
  Retention = 1
  MaxCommits = 1
  MaxArchives = 2
  MaxHours = 1
  MaxMishaps = 1
  Terminals = {term1, term2}
  MaxSpawns = 4
SPECIFICATION Spec
INVARIANTS TransactionAtomic   EvidenceSound MigratedOnce  
CHECK_DEADLOCK FALSE
