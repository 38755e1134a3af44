-------------------------- MODULE CatalogMigration --------------------------
(***************************************************************************)
(* `nh catalog migrate`: a catalog.toml of an earlier version is backed up *)
(* and replaced by the bundled one, with no lock, while the operator may   *)
(* write the file, another migration may run, and a process may die        *)
(* anywhere.                                                               *)
(***************************************************************************)
EXTENDS PrivateState

CONSTANTS
  MaxMigrations,     \* bound: migrations, each a process of its own
  MaxCatalogEdits,   \* bound: times the operator writes or removes the file
  MaxMigrationDeaths \* bound: migrations that die halfway

VARIABLES
  cmCatalog,  \* catalog.toml: historical, bundled, custom or absent
  cmBackup,   \* catalog.toml.nh-backup-<version>
  cmStages,   \* the staging files of each process
  cmAt,       \* how far each process is
  cmSaid,     \* how it ended
  cmTrusted,  \* what ~/.nosis/catalog.toml holds
  cmKept,     \* ghost: the operator's last text, unless it was written in a gap
  cmEdits, cmDeaths

migrationVars == <<cmCatalog, cmBackup, cmStages, cmAt, cmSaid, cmTrusted, cmKept, cmEdits, cmDeaths>>

Migrations == 1 .. MaxMigrations
Purposes == {"backup", "replacement", "restore"}
Contents(purpose) == IF purpose = "replacement" THEN "bundled" ELSE "historical"

MigrationInit ==
  /\ cmCatalog \in {"historical", "bundled", "custom"}
  /\ cmBackup = "absent"
  /\ cmStages = [m \in Migrations |-> {}]
  /\ cmAt = [m \in Migrations |-> "new"] /\ cmSaid = [m \in Migrations |-> "nothing"]
  /\ cmTrusted \in {"absent", "custom"}
  /\ cmKept = "nothing" /\ cmEdits = 0 /\ cmDeaths = 0

MigrationAt(m, where) == cmAt[m] = where
MigrationGoes(m, where) == cmAt' = [cmAt EXCEPT ![m] = where] /\ UNCHANGED cmSaid
MigrationEnds(m, what) ==
  cmAt' = [cmAt EXCEPT ![m] = "ended"] /\ cmSaid' = [cmSaid EXCEPT ![m] = what]
CatalogStays == UNCHANGED <<cmCatalog, cmBackup, cmKept>>
World == UNCHANGED <<cmTrusted, cmEdits, cmDeaths>>

----------------------------------------------------------------------------
\* Only a catalog known from an earlier version, and only if the operator says yes
Consent(m) ==
  /\ MigrationAt(m, "new")
  /\ \/ cmCatalog = "historical" /\ cmBackup = "absent" /\ MigrationGoes(m, "staging")
     \/ MigrationEnds(m, "unchanged")
  /\ CatalogStays /\ UNCHANGED cmStages /\ World

NextPurpose(m) == CASE cmStages[m] = {} -> "backup"
                    [] cmStages[m] = {"backup"} -> "replacement"
                    [] cmStages[m] = {"backup", "replacement"} -> "restore"

StageFile(m) ==
  /\ MigrationAt(m, "staging")
  /\ \/ /\ cmStages[m] # Purposes
        /\ cmStages' = [cmStages EXCEPT ![m] = @ \cup {NextPurpose(m)}]
        /\ UNCHANGED <<cmAt, cmSaid>>
     \/ cmStages[m] # Purposes /\ MigrationGoes(m, "failed") /\ UNCHANGED cmStages
     \/ cmStages[m] = Purposes /\ MigrationGoes(m, "staged") /\ UNCHANGED cmStages
  /\ CatalogStays /\ World

MUT_PublishBackupLater(m) ==
  /\ MigrationAt(m, "staged")
  /\ MigrationGoes(m, "backed_up")
  /\ CatalogStays /\ UNCHANGED cmStages /\ World

\* A hard link, which never replaces a backup that another run has made
PublishBackup(m) ==
  /\ MigrationAt(m, "staged")
  /\ \/ /\ cmBackup = "absent" /\ cmBackup' = Contents("backup")
        /\ MigrationGoes(m, "backed_up")
     \/ MigrationGoes(m, "failed") /\ UNCHANGED cmBackup
  /\ UNCHANGED <<cmCatalog, cmStages, cmKept>> /\ World

MUT_RecheckNothing(m) ==
  /\ MigrationAt(m, "backed_up") /\ MigrationGoes(m, "rechecked")
  /\ CatalogStays /\ UNCHANGED cmStages /\ World

\* The file is read again, and its size, time and mode are compared
RecheckSource(m) ==
  /\ MigrationAt(m, "backed_up")
  /\ MigrationGoes(m, IF cmCatalog = "historical" THEN "rechecked" ELSE "failed")
  /\ CatalogStays /\ UNCHANGED cmStages /\ World

RemoveCatalog(m) ==
  /\ MigrationAt(m, "rechecked")
  /\ \/ /\ cmCatalog # "absent" /\ cmCatalog' = "absent"
        /\ MigrationGoes(m, "removed")
     \/ MigrationGoes(m, "failed") /\ UNCHANGED cmCatalog
  /\ UNCHANGED <<cmBackup, cmStages, cmKept>> /\ World

\* Hard links again: a file the operator has put there meanwhile stays
PublishReplacement(m) ==
  /\ MigrationAt(m, "removed")
  /\ \/ /\ cmCatalog = "absent" /\ cmCatalog' = Contents("replacement")
        /\ MigrationGoes(m, "published")
     \/ MigrationGoes(m, "restoring") /\ UNCHANGED cmCatalog
  /\ UNCHANGED <<cmBackup, cmStages, cmKept>> /\ World

RestoreCatalog(m) ==
  /\ MigrationAt(m, "restoring") /\ MigrationGoes(m, "failed")
  /\ \/ cmCatalog = "absent" /\ cmCatalog' = Contents("restore")
     \/ UNCHANGED cmCatalog
  /\ UNCHANGED <<cmBackup, cmStages, cmKept>> /\ World

\* Each stage is unlinked, or its failure is reported
RemoveStages(m) ==
  /\ cmAt[m] \in {"published", "failed"}
  /\ MigrationEnds(m, IF MigrationAt(m, "published") THEN "migrated" ELSE "error")
  /\ \E left \in SUBSET cmStages[m] : cmStages' = [cmStages EXCEPT ![m] = left]
  /\ CatalogStays /\ World

----------------------------------------------------------------------------
\* A text written between the last check and the removal is gone
EditCatalog ==
  /\ cmEdits < MaxCatalogEdits /\ cmEdits' = cmEdits + 1
  /\ \E text \in {"custom", "absent"} :
       /\ cmCatalog' = text
       /\ cmKept' = IF text = "custom" /\ \A m \in Migrations : ~MigrationAt(m, "rechecked")
                    THEN "custom" ELSE "nothing"
  /\ UNCHANGED <<cmBackup, cmStages, cmAt, cmSaid, cmTrusted, cmDeaths>>

MigrationDies(m) ==
  /\ cmAt[m] \notin {"new", "ended"} /\ cmDeaths < MaxMigrationDeaths
  /\ cmDeaths' = cmDeaths + 1 /\ MigrationEnds(m, "died")
  /\ CatalogStays /\ UNCHANGED <<cmStages, cmTrusted, cmEdits>>

Migrate(m) ==
  \/ Consent(m) \/ StageFile(m) \/ PublishBackup(m) \/ RecheckSource(m) \/ RemoveCatalog(m)
  \/ PublishReplacement(m) \/ RestoreCatalog(m) \/ RemoveStages(m) \/ MigrationDies(m)

MigrationNext == (\E m \in Migrations : Migrate(m)) \/ EditCatalog

MigrationSpec == MigrationInit /\ [][MigrationNext]_migrationVars

----------------------------------------------------------------------------
\* find_catalog: the bundled text, or the very text the operator trusts
Accepted == cmCatalog # "absent" /\ cmCatalog \in {"bundled", cmTrusted}

(* A migration never leaves the project without its catalog and without a  *)
(* backup of it, wherever it fails or dies; what the operator writes       *)
(* meanwhile stays, up to the gap between the last check and the removal;  *)
(* and a catalog that was migrated, and not touched since, is one the      *)
(* commands accept.                                                        *)
CatalogSurvives ==
  /\ cmCatalog = "absent" /\ cmEdits = 0 => cmBackup = "historical"
  /\ cmKept = "custom" => cmCatalog = "custom"
  /\ cmEdits = 0 /\ (\E m \in Migrations : cmSaid[m] = "migrated") => Accepted

(* Neither a saved preference nor the catalog is lost by an update of it.  *)
SavedValueSurvives == PreferenceSurvives /\ CatalogSurvives
============================================================================
