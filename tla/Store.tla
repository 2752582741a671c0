-------------------------------- MODULE Store --------------------------------
(***************************************************************************)
(* The SQLite database, how a program opens it (internal/database), what   *)
(* it keeps in it (internal/storage), and the two programs that write the  *)
(* tables of providers and findings: the scan pipeline of cmd/hunter and   *)
(* the HTTP server, which sets a provider's status.                        *)
(*                                                                         *)
(* Every statement outside a transaction is one step, and every            *)
(* transaction is one step: SQLite takes one writer at a time.  What a     *)
(* program read earlier it keeps to itself.  No lock is held between two   *)
(* of its steps, so programs interleave between any two of them.           *)
(***************************************************************************)
EXTENDS Integers, FiniteSets

CONSTANTS Scans,        \* runs of the scan pipeline; each is started once
          Server,       \* the HTTP server
          Names,        \* provider names
          Pollinations, \* the provider every verifying scan adds
          ConfigNames,  \* the providers of config/sources.json
          ConfigStatus, \* the status the config gives each of them
          Statuses,     \* what a provider's status may be
          Prints,       \* fingerprints of findings
          Keys,         \* entries of key_pool.json
          Legacies,     \* what the JSON files of older versions may hold
          MaxFaults,    \* bound on failing statements
          MaxCrashes,   \* bound on crashes
          MaxSets       \* bound on statuses set from the web

Checked  == {"confirmed", "claimed", "expired"} \cap Statuses
Verified == "verified"
NoRow    == "no row"
Absent   == "absent"
Files    == {"read", "broken", Absent}

\* A table of providers: the status in each row.  Its other columns are left
\* out: they travel with the status, and nothing in a scan decides by them.
Tables == [Names -> Statuses \cup {NoRow}]

\* A legacy file is absent, does not parse, or holds rows.
LegacyFiles == [providers : Files, rows : Tables,
                findings : Files, prints : SUBSET Prints,
                keyPool : Files, keys : SUBSET Keys]

ASSUME StoreType == /\ Server \notin Scans
                    /\ Pollinations \in Names
                    /\ ConfigNames \subseteq Names
                    /\ ConfigStatus \in [ConfigNames -> Statuses]
                    /\ Verified \in Statuses /\ NoRow \notin Statuses
                    /\ Legacies \subseteq LegacyFiles
                    /\ MaxFaults \in Nat /\ MaxCrashes \in Nat /\ MaxSets \in Nat

Programs == Scans \cup {Server}
NTables  == 4  \* providers, findings, api_keys, scan_history, in this order

VARIABLES
  legacy,    \* the JSON files; nothing writes them any more
  tables,    \* how many tables have been created
  provs,     \* the table of providers
  finds,     \* the table of findings: no row, a legacy one or a scan's own
  keyRows,   \* how many rows of api_keys hold each key
  history,   \* the scans that have a row in scan_history
  at,        \* the step each program is at
  list,      \* the providers a scan has in memory
  since,     \* history: rows another program wrote since this one last looked
  met,       \* history: a program opened while another was migrating
  cutShort,  \* history: opening the database failed or was killed half-way
  faults, crashes, sets

dbVars    == <<tables, provs, finds, keyRows, history>>
countVars == <<faults, crashes, sets>>
storeVars == <<legacy, dbVars, at, list, since, met, cutShort, countVars>>

Migrating == {"providers", "findings", "keys"}
Opening   == {"creating", "counting"} \cup Migrating
Stages    == {"off", "open", "loaded", "checked", "tested", "saved", "noted",
              "done", "dead"} \cup Opening

NoRows == [n \in Names |-> NoRow]

StoreInit == /\ legacy \in Legacies
             /\ tables = 0
             /\ provs = NoRows
             /\ finds = [f \in Prints |-> NoRow]
             /\ keyRows = [k \in Keys |-> 0]
             /\ history = {}
             /\ at = [p \in Programs |-> "off"]
             /\ list = [s \in Scans |-> NoRows]
             /\ since = [p \in Programs |-> {}]
             /\ met = FALSE
             /\ cutShort = FALSE
             /\ faults = 0 /\ crashes = 0 /\ sets = 0

-----------------------------------------------------------------------------
(* Helpers.                                                                *)

Go(p, stage) == at' = [at EXCEPT ![p] = stage]

\* INSERT OR REPLACE of the rows that are there.
Upsert(table, rows) ==
  [n \in Names |-> IF rows[n] = NoRow THEN table[n] ELSE rows[n]]

Present(rows) == {n \in Names : rows[n] # NoRow}

\* Everybody but the writer may now be out of date about these rows.
Wrote(p, names) ==
  since' = [q \in Programs |-> IF q = p THEN since[q] ELSE since[q] \cup names]

Looked(p) == since' = [since EXCEPT ![p] = {}]

\* A statement fails: the disk is full, the database is busy.
Fault == faults < MaxFaults /\ faults' = faults + 1

-----------------------------------------------------------------------------
(* database.Init.                                                          *)

\* The global handle is set as soon as the database is opened.
Start(p) == /\ at[p] = "off"
            /\ Go(p, "creating")
            /\ UNCHANGED <<legacy, dbVars, list, since, met, cutShort, countVars>>

\* runMigrations: CREATE TABLE IF NOT EXISTS, one after the other.
CreateTable(p) ==
  /\ at[p] = "creating" /\ tables < NTables
  /\ tables' = tables + 1
  /\ UNCHANGED <<legacy, provs, finds, keyRows, history, at, list, since, met,
                 cutShort, countVars>>

Created(p) == /\ at[p] = "creating" /\ tables = NTables
              /\ Go(p, "counting")
              /\ UNCHANGED <<legacy, dbVars, list, since, met, cutShort, countVars>>

\* Mutant: the table is not looked at, only the file.
ToMigrate_Always == legacy.providers # Absent

\* autoMigrateJSON: there is no provider yet, and providers.json is there.
ToMigrate == Present(provs) = {} /\ legacy.providers # Absent

Count(p) ==
  /\ at[p] = "counting"
  /\ Go(p, IF ToMigrate THEN "providers" ELSE "open")
  /\ Looked(p)
  /\ met' = (met \/ \E q \in Programs \ {p} : at[q] \in Migrating)
  /\ UNCHANGED <<legacy, dbVars, list, cutShort, countVars>>

\* Init returns an error.  A scan ends there; the server logs it and goes on
\* with the handle.
GiveUp(p) == /\ Go(p, IF p = Server THEN "open" ELSE "dead")
             /\ cutShort' = TRUE

InitFails(p) == /\ at[p] \in Opening
                /\ Fault
                /\ GiveUp(p)
                /\ UNCHANGED <<legacy, dbVars, list, since, met, crashes, sets>>

\* One of the legacy files does not parse.
CannotParse(p) ==
  /\ \/ at[p] = "providers" /\ legacy.providers = "broken"
     \/ at[p] = "findings" /\ legacy.findings = "broken"
     \/ at[p] = "keys" /\ legacy.keyPool = "broken"
  /\ GiveUp(p)
  /\ UNCHANGED <<legacy, dbVars, list, since, met, countVars>>

\* Mutant: a providers.json that does not parse is passed over.
MigrateProviders_Lenient(p) ==
  /\ at[p] = "providers"
  /\ provs' = IF legacy.providers = "read" THEN Upsert(provs, legacy.rows) ELSE provs
  /\ Wrote(p, Present(legacy.rows))
  /\ Go(p, "findings")
  /\ UNCHANGED <<legacy, tables, finds, keyRows, history, list, met, cutShort,
                 countVars>>

MigrateProviders(p) ==
  /\ at[p] = "providers" /\ legacy.providers = "read"
  /\ provs' = Upsert(provs, legacy.rows)
  /\ Wrote(p, Present(legacy.rows))
  /\ Go(p, "findings")
  /\ UNCHANGED <<legacy, tables, finds, keyRows, history, list, met, cutShort,
                 countVars>>

\* Mutant: with no findings.json there is nothing left to do.
MigrateFindings_Stop(p) ==
  /\ at[p] = "findings" /\ legacy.findings # "broken"
  /\ finds' = [f \in Prints |-> IF legacy.findings = "read" /\ f \in legacy.prints
                                  THEN "legacy" ELSE finds[f]]
  /\ Go(p, IF legacy.findings = Absent THEN "open" ELSE "keys")
  /\ UNCHANGED <<legacy, tables, provs, keyRows, history, list, since, met,
                 cutShort, countVars>>

MigrateFindings(p) ==
  /\ at[p] = "findings" /\ legacy.findings # "broken"
  /\ finds' = [f \in Prints |-> IF legacy.findings = "read" /\ f \in legacy.prints
                                  THEN "legacy" ELSE finds[f]]
  /\ Go(p, "keys")
  /\ UNCHANGED <<legacy, tables, provs, keyRows, history, list, since, met,
                 cutShort, countVars>>

\* A plain INSERT: the rows come in addition to those already there.
MigrateKeys(p) ==
  /\ at[p] = "keys" /\ legacy.keyPool # "broken"
  /\ keyRows' = [k \in Keys |-> IF legacy.keyPool = "read" /\ k \in legacy.keys
                                  THEN keyRows[k] + 1 ELSE keyRows[k]]
  /\ Go(p, "open")
  /\ UNCHANGED <<legacy, tables, provs, finds, history, list, since, met,
                 cutShort, countVars>>

Open(p) == \/ Start(p) \/ CreateTable(p) \/ Created(p) \/ Count(p)
           \/ InitFails(p) \/ CannotParse(p)
           \/ MigrateProviders(p) \/ MigrateFindings(p) \/ MigrateKeys(p)

-----------------------------------------------------------------------------
(* The scan pipeline of cmd/hunter, as far as the database sees it.        *)

\* Mutant: a provider of the table alone starts from the column's default.
Merged_Default(rows) ==
  [n \in Names |-> IF n \in ConfigNames THEN ConfigStatus[n] ELSE "unverified"]

\* loadAllConfig: sources.json cannot be read, or has no source of that name.
NoSources(s) == /\ at[s] = "open"
                /\ Go(s, "dead")
                /\ UNCHANGED <<legacy, dbVars, list, since, met, cutShort, countVars>>

\* loadInitialProviders: the config is the source of truth for statuses.
Merged(rows) ==
  [n \in Names |-> IF n \in ConfigNames THEN ConfigStatus[n] ELSE rows[n]]

\* If the table cannot be read the scan goes on with the config alone.
Load(s) ==
  /\ at[s] = "open"
  /\ \/ list' = [list EXCEPT ![s] = Merged(provs)] /\ UNCHANGED faults
     \/ list' = [list EXCEPT ![s] = Merged(NoRows)] /\ Fault
  /\ Go(s, "loaded")
  /\ Looked(s)
  /\ UNCHANGED <<legacy, dbVars, met, cutShort, crashes, sets>>

\* verifyProviders: every page is fetched, and its provider gets a new status.
CheckProviders(s, new) ==
  /\ at[s] = "loaded"
  /\ new \in [Present(list[s]) -> Checked]
  /\ list' = [list EXCEPT ![s] =
       [n \in Names |-> IF list[s][n] = NoRow THEN NoRow ELSE new[n]]]
  /\ Go(s, "checked")
  /\ UNCHANGED <<legacy, dbVars, since, met, cutShort, countVars>>

\* runPollinationsPipeline: the provider is replaced, or added.
AddPollinations(s) ==
  /\ at[s] = "checked"
  /\ list' = [list EXCEPT ![s][Pollinations] = Verified]
  /\ Go(s, "tested")
  /\ UNCHANGED <<legacy, dbVars, since, met, cutShort, countVars>>

Forget(s) == list' = [list EXCEPT ![s] = NoRows]

\* Mutant: the table is emptied first, as SaveKeyPool does with its own.
SaveProviders_Replace(s) ==
  /\ at[s] \in {"loaded", "tested"}
  /\ \/ /\ provs' = list[s]
        /\ Wrote(s, Present(list[s]))
        /\ UNCHANGED faults
     \/ Fault /\ UNCHANGED <<provs, since>>
  /\ Forget(s)
  /\ Go(s, "saved")
  /\ UNCHANGED <<legacy, tables, finds, keyRows, history, met, cutShort, crashes,
                 sets>>

\* saveResults: a transaction that fails is logged, and the scan goes on.
SaveProviders(s) ==
  /\ at[s] \in {"loaded", "tested"}
  /\ \/ /\ provs' = Upsert(provs, list[s])
        /\ Wrote(s, Present(list[s]))
        /\ UNCHANGED faults
     \/ Fault /\ UNCHANGED <<provs, since>>
  /\ Forget(s)
  /\ Go(s, "saved")
  /\ UNCHANGED <<legacy, tables, finds, keyRows, history, met, cutShort, crashes,
                 sets>>

SaveFindings(s, new) ==
  /\ at[s] = "saved" /\ new \subseteq Prints
  /\ \/ /\ finds' = [f \in Prints |-> IF f \in new THEN "scan" ELSE finds[f]]
        /\ UNCHANGED faults
     \/ Fault /\ UNCHANGED finds
  /\ Go(s, "noted")
  /\ UNCHANGED <<legacy, tables, provs, keyRows, history, list, since, met,
                 cutShort, crashes, sets>>

\* SaveScanHistory: the row is written whether or not the results were.
SaveHistory(s) ==
  /\ at[s] = "noted"
  /\ \/ history' = history \cup {s} /\ UNCHANGED faults
     \/ Fault /\ UNCHANGED history
  /\ Go(s, "done")
  /\ UNCHANGED <<legacy, tables, provs, finds, keyRows, list, since, met, cutShort,
                 crashes, sets>>

\* -dry-run: nothing is saved.
DryRun(s) == /\ at[s] \in {"loaded", "tested"}
             /\ Forget(s)
             /\ Go(s, "done")
             /\ UNCHANGED <<legacy, dbVars, since, met, cutShort, countVars>>

Scan(s) == \/ Load(s) \/ AddPollinations(s) \/ SaveProviders(s) \/ SaveHistory(s)
           \/ DryRun(s) \/ NoSources(s)
           \/ \E new \in [Present(list[s]) -> Checked] : CheckProviders(s, new)
           \/ \E new \in SUBSET Prints : SaveFindings(s, new)

-----------------------------------------------------------------------------
(* The server, and crashes.                                                *)

\* POST /provider-status: one UPDATE; a name without a row is an error.
SetStatus(n, status) ==
  /\ at[Server] = "open" /\ sets < MaxSets
  /\ provs[n] # NoRow
  /\ provs' = [provs EXCEPT ![n] = status]
  /\ Wrote(Server, {n})
  /\ sets' = sets + 1
  /\ UNCHANGED <<legacy, tables, finds, keyRows, history, at, list, met, cutShort,
                 faults, crashes>>

\* A program is killed.  The server is started again, a scan is not.
Crash(p) ==
  /\ at[p] \notin {"off", "done", "dead"} /\ crashes < MaxCrashes
  /\ crashes' = crashes + 1
  /\ Go(p, IF p = Server THEN "off" ELSE "dead")
  /\ list' = [s \in Scans |-> IF s = p THEN NoRows ELSE list[s]]
  /\ cutShort' = (cutShort \/ at[p] \in Migrating)
  /\ UNCHANGED <<legacy, dbVars, since, met, faults, sets>>

StoreNext == \/ \E p \in Programs : Open(p) \/ Crash(p)
             \/ \E s \in Scans : Scan(s)
             \/ \E n \in Names, status \in Statuses : SetStatus(n, status)

StoreSpec == StoreInit /\ [][StoreNext]_storeVars

-----------------------------------------------------------------------------
(* Properties.                                                             *)

\* Every variable has its type.
StoreTypeOK ==
  /\ legacy \in Legacies
  /\ tables \in 0..NTables
  /\ provs \in Tables
  /\ finds \in [Prints -> {NoRow, "legacy", "scan"}]
  /\ keyRows \in [Keys -> Nat]
  /\ history \subseteq Scans
  /\ at \in [Programs -> Stages]
  /\ list \in [Scans -> Tables]
  /\ since \in [Programs -> SUBSET Names]
  /\ met \in BOOLEAN /\ cutShort \in BOOLEAN
  /\ faults \in 0..MaxFaults /\ crashes \in 0..MaxCrashes /\ sets \in 0..MaxSets

\* providers.json lists nobody: the database looks new after a migration too.
EmptyList == legacy.providers = "read" /\ Present(legacy.rows) = {}

\* A status in the table changes only by a request from the web, by a scan that
\* verified, or because the config says so -- unless the row was written after
\* the program that changes it had last looked.  In particular no migration
\* takes a status back.
StatusStands ==
  [][\A n \in Names : provs[n] \notin {NoRow, provs'[n]} =>
       \/ at' = at
       \/ n \in ConfigNames
       \/ \E p \in Programs : /\ at'[p] # at[p]
                              /\ at[p] = "tested" \/ n \in since[p]]_storeVars

\* While programs open the database one at a time, and providers.json is not an
\* empty list, a migration puts every key in once, whatever fails or is killed.
KeysOnce == ~met /\ ~EmptyList => \A k \in Keys : keyRows[k] <= 1

\* Under the same conditions no migration replaces what a scan has found.
FoundStays ==
  [][\A f \in Prints :
       finds[f] = "scan" /\ ~met /\ ~EmptyList => finds'[f] = "scan"]_storeVars

\* A program that has opened the database while no other migrates finds there
\* everything the legacy files held, if no opening failed or was killed.
Idle == \A p \in Programs : at[p] \notin Migrating
Opened == \E p \in Programs : at[p] \notin {"off", "dead"} \cup Opening
Whole == /\ Present(legacy.rows) \subseteq Present(provs)
         /\ legacy.findings = "read" => \A f \in legacy.prints : finds[f] # NoRow
         /\ legacy.keyPool = "read" => \A k \in legacy.keys : keyRows[k] > 0
OpenedIsWhole ==
  Opened /\ Idle /\ ~cutShort /\ legacy.providers # Absent => Whole

\* What the comment above autoMigrateJSON promises: it may be called again and
\* again.  Programs that open the database one after the other leave each key
\* of the legacy file in the table once.
SafeToRepeat == ~met => \A k \in Keys : keyRows[k] <= 1
=============================================================================
