----------------------------- MODULE MCStorage -----------------------------
(***************************************************************************)
(* What stays on the host: the transactions of the database, its schema,   *)
(* its backups and the process that serves it; the context versions of an  *)
(* execution, the configuration with the secrets it refers to, and the     *)
(* artifacts and documents of a project.  They share no state here, so a   *)
(* behaviour moves one of them and the others stay where they start.       *)
(***************************************************************************)
EXTENDS Database, ContextVersions, ConfigSync, Artifacts, Migrations, Backups, ServiceProcess

CONSTANTS
  Parts,               \* the parts to explore
  Server, Cli,         \* two processes
  serve1, serve2, cli, \* their threads
  early, late, later   \* processes that start up

VARIABLE part

TwoProcesses == [t \in {serve1, serve2, cli} |-> IF t = cli THEN Cli ELSE Server]
Shipped == [p \in {early, late, later} |-> IF p = early THEN 1 ELSE 3]

vars == <<part, dbVars, contextVars, configVars, artifactVars, migrationVars, backupVars, hostVars>>

\* The databases are alike, and so are the keys: a boot starts with one of them.
Init ==
  /\ DatabaseInit /\ ContextInit /\ ConfigInit /\ ArtifactsInit
  /\ MigrationsInit /\ BackupsInit /\ ServiceInit /\ part \in Parts
  /\ engine = (CHOOSE d \in Databases : TRUE) /\ key = (CHOOSE k \in Keys : TRUE)
  /\ part # "config" => env = {}
  /\ part # "artifacts" => oneByOne
  /\ part # "service" => orderly

Knowledge == <<contextVars, artifactVars>>
Host == <<migrationVars, backupVars, hostVars>>

Transactions == part = "database" /\ DatabaseNext /\ UNCHANGED <<part, Knowledge, configVars, Host>>
Compactions  == part = "context" /\ ContextNext /\ UNCHANGED <<part, dbVars, configVars, artifactVars, Host>>
Boots        == part = "config" /\ ConfigNext /\ UNCHANGED <<part, dbVars, Knowledge, Host>>
Curation     == part = "artifacts" /\ ArtifactsNext /\ UNCHANGED <<part, dbVars, contextVars, configVars, Host>>
StartUps     == part = "migrations" /\ MigrationsNext /\ UNCHANGED <<part, dbVars, Knowledge, configVars, backupVars, hostVars>>
Copies       == part = "backups" /\ BackupsNext /\ UNCHANGED <<part, dbVars, Knowledge, configVars, migrationVars, hostVars>>
Commands     == part = "service" /\ ServiceNext /\ UNCHANGED <<part, dbVars, Knowledge, configVars, migrationVars, backupVars>>

Next == Transactions \/ Compactions \/ Boots \/ Curation \/ StartUps \/ Copies \/ Commands

Spec == Init /\ [][Next]_vars
=============================================================================
