----------------------------- MODULE StoreOpen -----------------------------
(***************************************************************************)
(* Opening the database: the constructor of SqliteStore                     *)
(* (src/store/sqlite.ts) creates the tables, adds the columns later         *)
(* versions brought, rebuilds the sessions table whose CHECK does not know  *)
(* 'starting', finds the master key of the vaults (src/crypto) and encrypts *)
(* the credentials an older version stored as they were.  It is one         *)
(* synchronous call, every statement of which is durable when it returns:   *)
(* the process may die between any two, and the next one starts over.       *)
(***************************************************************************)
EXTENDS Integers, FiniteSets

CONSTANTS
    OldSessions,   \* rows of an older version's database, each with a container
    OldCreds,      \* credentials it stored in plain text
    NewCreds,      \* credentials added since
    Columns,       \* the columns of ALTER TABLE, numbered as the constructor goes
    InSchema,      \* those a new table has at once
    EnvKeys, NoKey,   \* values of OPENCLAW_VAULT_KEY
    Plain, Absent,    \* a credential under no key, one that is not there
    Rotates,       \* BOOLEAN: may the operator change it between two starts?
    MaxBoots       \* bound

ASSUME OpenAssumption ==
    /\ IsFiniteSet(Columns) /\ Columns \subseteq Nat /\ InSchema \subseteq Columns
    /\ OldCreds \cap NewCreds = {}
    /\ {NoKey, Plain} \cap (EnvKeys \cup 1 .. MaxBoots) = {} /\ Plain # Absent
    /\ Rotates \in BOOLEAN /\ MaxBoots \in Nat \ {0}

VARIABLES
    tables,    \* on disk: the rows of each table, {} if there is no such table
    columns,   \* on disk: the added columns that are there
    starting,  \* on disk: does the sessions table know the status 'starting'?
    secret,    \* on disk: the key in kv_secrets, NoKey if there is none
    stored,    \* on disk: per credential the key it is under, Plain or Absent
    opening,   \* how far the constructor is
    found,     \* PRAGMA table_info: the columns it has found
    tx,        \* the tables as the open transaction has left them, {} if none
    masterKey, \* the key in use
    envKey,    \* OPENCLAW_VAULT_KEY
    boots      \* starts so far

openDisk == <<tables, columns, starting, secret, stored>>
openProc == <<opening, found, tx, masterKey, envKey, boots>>
openVars == <<openDisk, openProc>>

StoredCreds  == OldCreds \cup NewCreds
Generated    == 1 .. MaxBoots            \* a start generates at most one key
MasterKeys   == EnvKeys \cup Generated
TableNames   == {"sessions", "boxes", "sessions_new", "boxes_new"}

OpenTypeOK ==
    /\ \A t \in TableNames : tables[t] \subseteq SUBSET OldSessions /\ Cardinality(tables[t]) <= 1
    /\ columns \subseteq Columns /\ found \subseteq Columns /\ starting \in BOOLEAN
    /\ secret \in Generated \cup {NoKey} /\ masterKey \in MasterKeys \cup {NoKey}
    /\ stored \in [StoredCreds -> MasterKeys \cup {Plain, Absent}]
    /\ opening \in {"down", "schema", "columns", "rebuild", "masterKey", "encrypt", "open"}
    /\ Cardinality(tx) <= 1 /\ (tx # {} => opening = "rebuild")
    /\ envKey \in EnvKeys \cup {NoKey} /\ boots \in 0 .. MaxBoots

(* No database, or that of an older version: the columns of its time.       *)
NoDatabase == [t \in TableNames |-> {}]
OldDatabase == [NoDatabase EXCEPT !["sessions"] = {OldSessions}, !["boxes"] = {OldSessions}]

OpenInit ==
    /\ \/ /\ tables = NoDatabase /\ columns = {} /\ starting = FALSE
          /\ stored = [c \in StoredCreds |-> Absent]
       \/ /\ tables = OldDatabase /\ starting \in BOOLEAN
          /\ \E n \in Columns \cup {0} : columns = {c \in Columns : c <= n}
          /\ stored = [c \in StoredCreds |-> IF c \in OldCreds THEN Plain ELSE Absent]
    /\ secret = NoKey /\ opening = "down" /\ found = {} /\ tx = {} /\ masterKey = NoKey
    /\ envKey \in EnvKeys \cup {NoKey} /\ boots = 0

----------------------------------------------------------------------------
StartProcess ==
    /\ opening = "down" /\ boots < MaxBoots
    /\ opening' = "schema" /\ boots' = boots + 1
    /\ IF Rotates /\ boots > 0 THEN envKey' \in EnvKeys \cup {NoKey} ELSE envKey' = envKey
    /\ UNCHANGED <<openDisk, found, tx, masterKey>>

(* CREATE TABLE IF NOT EXISTS, for each table, then PRAGMA table_info.      *)
CreateSchema ==
    /\ opening = "schema" /\ opening' = "columns"
    /\ tables' = [t \in TableNames |->
                     IF t \in {"sessions", "boxes"} /\ tables[t] = {} THEN {{}} ELSE tables[t]]
    /\ starting' = (starting \/ tables["sessions"] = {})
    /\ columns' = columns \cup (IF tables["sessions"] = {} THEN InSchema ELSE {})
    /\ found' = columns'
    /\ UNCHANGED <<secret, stored, tx, masterKey, envKey, boots>>

(* The columns it has not found and not added yet.                          *)
Lacking == Columns \ (found \cup columns)

AddColumn ==
    /\ opening = "columns" /\ Lacking # {}
    /\ columns' = columns \cup {CHOOSE c \in Lacking : \A d \in Lacking : c <= d}
    /\ UNCHANGED <<tables, starting, secret, stored, openProc>>

ColumnsDone ==
    /\ opening = "columns" /\ Lacking = {}
    /\ opening' = IF starting THEN "masterKey" ELSE "rebuild"
    /\ UNCHANGED <<openDisk, found, tx, masterKey, envKey, boots>>

(* Mutant: no transaction around the statements of the rebuild.             *)
Statement_AutoCommit(image) == tx' = {image} /\ tables' = image

(* A statement of the transaction: the disk keeps the tables until COMMIT.  *)
Statement(image) == tx' = {image} /\ UNCHANGED tables

(* migrateSessionStatusConstraint: copy both tables, drop the old ones,     *)
(* rename the copies and commit.  Foreign keys are off: dropping sessions   *)
(* cascades nowhere.                                                        *)
CopyTables ==
    /\ opening = "rebuild" /\ tx = {}
    /\ Statement([tables EXCEPT !["sessions_new"] = tables["sessions"],
                               !["boxes_new"] = tables["boxes"]])
    /\ UNCHANGED <<columns, starting, secret, stored, opening, found, masterKey, envKey, boots>>

Image == CHOOSE image \in tx : TRUE

DropTables ==
    /\ tx # {} /\ Image["sessions"] # {}
    /\ Statement([Image EXCEPT !["sessions"] = {}, !["boxes"] = {}])
    /\ UNCHANGED <<columns, starting, secret, stored, opening, found, masterKey, envKey, boots>>

RenameTables ==
    /\ tx # {} /\ Image["sessions"] = {}
    /\ tables' = [NoDatabase EXCEPT !["sessions"] = Image["sessions_new"],
                                    !["boxes"] = Image["boxes_new"]]
    /\ starting' = TRUE /\ tx' = {} /\ opening' = "masterKey"
    /\ UNCHANGED <<columns, secret, stored, found, masterKey, envKey, boots>>

(* Mutant: a generated key is not saved.                                    *)
SavedKey_Never == secret

SavedKey == IF envKey = NoKey /\ secret = NoKey THEN boots ELSE secret

(* The environment's key first, then the saved one, then a new one.         *)
ResolveKey ==
    /\ opening = "masterKey" /\ opening' = "encrypt"
    /\ masterKey' = CASE envKey # NoKey                   -> envKey
                      [] envKey = NoKey /\ secret # NoKey -> secret
                      [] envKey = NoKey /\ secret = NoKey -> boots
    /\ secret' = SavedKey
    /\ UNCHANGED <<tables, columns, starting, stored, found, tx, envKey, boots>>

(* migratePlaintextCredentials: a ciphertext is known by its "v1:".         *)
EncryptOne ==
    /\ opening = "encrypt"
    /\ \E c \in OldCreds : stored[c] = Plain /\ stored' = [stored EXCEPT ![c] = masterKey]
    /\ UNCHANGED <<tables, columns, starting, secret, openProc>>

Opened ==
    /\ opening = "encrypt" /\ \A c \in StoredCreds : stored[c] # Plain
    /\ opening' = "open"
    /\ UNCHANGED <<openDisk, found, tx, masterKey, envKey, boots>>

(* addCredential, and updateOAuthTokens, which reads the row before.        *)
StoreCredential ==
    /\ opening = "open"
    /\ \E c \in NewCreds : stored[c] \in {Absent, masterKey} /\ stored' = [stored EXCEPT ![c] = masterKey]
    /\ UNCHANGED <<tables, columns, starting, secret, openProc>>

(* The process ends, between two statements or while it serves.             *)
Dies ==
    /\ opening # "down" /\ opening' = "down"
    /\ tx' = {} /\ masterKey' = NoKey /\ found' = {}
    /\ UNCHANGED <<openDisk, envKey, boots>>

OpenNext ==
    \/ StartProcess \/ CreateSchema \/ AddColumn \/ ColumnsDone
    \/ CopyTables \/ DropTables \/ RenameTables
    \/ ResolveKey \/ EncryptOne \/ Opened \/ StoreCredential \/ Dies

----------------------------------------------------------------------------
(* However often the upgrade was cut off, an open database has every column *)
(* and the current CHECK, no secret in plain text, no left-over table, and  *)
(* all the sessions and container rows of the version before.               *)
UpgradeWhole ==
    opening = "open" =>
        /\ columns = Columns /\ starting
        /\ tables["sessions_new"] = {} /\ tables["boxes_new"] = {}
        /\ \A c \in OldCreds : stored[c] # Plain
        /\ (\E c \in OldCreds : stored[c] # Absent)      \* it was there before
              => tables["sessions"] = {OldSessions} /\ tables["boxes"] = {OldSessions}

(* Every stored credential is under the key in use: a run of a session with *)
(* a vault reads all of them, and one that does not decrypt throws.         *)
CredentialsReadable ==
    opening = "open" => \A c \in StoredCreds : stored[c] \in {Absent, masterKey}

(* A database that opened is whole, and can be read.                        *)
OpenInv == OpenTypeOK /\ UpgradeWhole /\ CredentialsReadable

(* The startup log: "rotating the env var rotates the key cleanly".         *)
RotatesCleanly == CredentialsReadable
=============================================================================
