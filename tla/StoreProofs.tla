----------------------------- MODULE StoreProofs -----------------------------
(***************************************************************************)
(* Proofs about Store: type correctness, and what the database keeps while *)
(* any number of scans and the server open it, migrate the legacy files    *)
(* and write its tables, with failures and crashes anywhere.               *)
(***************************************************************************)
EXTENDS Store, TLAPS

-----------------------------------------------------------------------------
(* Helpers.                                                                *)

\* The server is a program, and so is a scan.
LEMMA ProgramsOf == Server \in Programs /\ Scans \subseteq Programs
BY DEF Programs

\* Writing rows into a table gives a table; no row goes, and every row that is
\* written is there.
LEMMA UpsertGrows ==
  ASSUME NEW table \in Tables, NEW rows \in Tables
  PROVE  /\ Upsert(table, rows) \in Tables
         /\ Present(Upsert(table, rows)) = Present(table) \cup Present(rows)
BY StoreType DEF Upsert, Present, Tables

\* A program goes to a stage: the others stay where they are.
LEMMA Moved ==
  ASSUME at \in [Programs -> Stages], NEW p \in Programs, NEW stage \in Stages, Go(p, stage)
  PROVE  /\ at' \in [Programs -> Stages]
         /\ at'[p] = stage
         /\ \A q \in Programs : q # p => at'[q] = at[q]
BY DEF Go

\* The rows of a legacy file are a table.
LEMMA LegacyRows ==
  ASSUME StoreTypeOK
  PROVE  legacy.rows \in Tables /\ legacy.providers \in Files
BY StoreType DEF StoreTypeOK, LegacyFiles

-----------------------------------------------------------------------------
(* Types.                                                                  *)

\* Every step keeps the types.
LEMMA TypesStep ==
  ASSUME StoreTypeOK, [StoreNext]_storeVars
  PROVE  StoreTypeOK'
<1>1. ASSUME NEW p \in Programs, Start(p)
      PROVE  StoreTypeOK'
  BY <1>1, Moved DEF Start, StoreTypeOK, Stages, Opening, dbVars, countVars
<1>2. ASSUME NEW p \in Programs, CreateTable(p)
      PROVE  StoreTypeOK'
  BY <1>2 DEF CreateTable, StoreTypeOK, NTables, dbVars, countVars
<1>3. ASSUME NEW p \in Programs, Created(p)
      PROVE  StoreTypeOK'
  BY <1>3, Moved DEF Created, StoreTypeOK, Stages, Opening, dbVars, countVars
<1>4. ASSUME NEW p \in Programs, Count(p)
      PROVE  StoreTypeOK'
  BY <1>4, Moved DEF Count, Looked, StoreTypeOK, Stages, Opening, Migrating, dbVars, countVars
<1>5. ASSUME NEW p \in Programs, InitFails(p)
      PROVE  StoreTypeOK'
  BY <1>5, StoreType, Moved DEF InitFails, GiveUp, Fault, StoreTypeOK, Stages, dbVars, countVars
<1>6. ASSUME NEW p \in Programs, CannotParse(p)
      PROVE  StoreTypeOK'
  BY <1>6, Moved DEF CannotParse, GiveUp, StoreTypeOK, Stages, dbVars, countVars
<1>7. ASSUME NEW p \in Programs, MigrateProviders(p)
      PROVE  StoreTypeOK'
  <2>1. provs' \in Tables
    BY <1>7, LegacyRows, UpsertGrows DEF MigrateProviders, StoreTypeOK
  <2>2. since' \in [Programs -> SUBSET Names]
    BY <1>7 DEF MigrateProviders, StoreTypeOK, Wrote, Present
  <2>3. QED BY <1>7, <2>1, <2>2, Moved DEF MigrateProviders, StoreTypeOK, Stages, Opening, Migrating, dbVars, countVars
<1>8. ASSUME NEW p \in Programs, MigrateFindings(p)
      PROVE  StoreTypeOK'
  BY <1>8, Moved DEF MigrateFindings, StoreTypeOK, Stages, Opening, Migrating, countVars
<1>9. ASSUME NEW p \in Programs, MigrateKeys(p)
      PROVE  StoreTypeOK'
  BY <1>9, Moved DEF MigrateKeys, StoreTypeOK, Stages, countVars
<1>10. ASSUME NEW p \in Programs, Crash(p)
      PROVE  StoreTypeOK'
  <2>1. list' \in [Scans -> Tables]
    BY <1>10 DEF Crash, StoreTypeOK, NoRows, Tables
  <2>2. QED BY <1>10, <2>1, StoreType, Moved DEF Crash, StoreTypeOK, Stages, dbVars, countVars
<1>11. ASSUME NEW s \in Scans, Load(s)
      PROVE  StoreTypeOK'
  <2>1. \A rows \in Tables : Merged(rows) \in Tables
    BY StoreType DEF Merged, Tables
  <2>2. NoRows \in Tables
    BY DEF NoRows, Tables
  <2>3. list' \in [Scans -> Tables]
    BY <1>11, <2>1, <2>2 DEF Load, StoreTypeOK
  <2>4. faults' \in 0..MaxFaults
    BY <1>11, StoreType DEF Load, StoreTypeOK, Fault
  <2>5. since' \in [Programs -> SUBSET Names]
    BY <1>11 DEF Load, StoreTypeOK, Looked
  <2>6. QED BY <1>11, <2>3, <2>4, <2>5, ProgramsOf, Moved DEF Load, StoreTypeOK, Stages, dbVars, countVars
<1>12. ASSUME NEW s \in Scans, AddPollinations(s)
      PROVE  StoreTypeOK'
  <2>1. list' \in [Scans -> Tables]
    <3>1. [list[s] EXCEPT ![Pollinations] = Verified] \in Tables
      BY StoreType DEF Tables, StoreTypeOK
    <3>2. list' = [list EXCEPT ![s] = [list[s] EXCEPT ![Pollinations] = Verified]]
      BY <1>12 DEF AddPollinations
    <3>3. QED BY <3>1, <3>2 DEF StoreTypeOK
  <2>2. QED BY <1>12, <2>1, ProgramsOf, Moved DEF AddPollinations, StoreTypeOK, Stages, dbVars, countVars
<1>13. ASSUME NEW s \in Scans, SaveProviders(s)
      PROVE  StoreTypeOK'
  <2>1. provs' \in Tables
    BY <1>13, UpsertGrows DEF SaveProviders, StoreTypeOK
  <2>2. since' \in [Programs -> SUBSET Names]
    BY <1>13 DEF SaveProviders, StoreTypeOK, Wrote, Present
  <2>3. list' \in [Scans -> Tables]
    BY <1>13 DEF SaveProviders, StoreTypeOK, Forget, Tables, NoRows
  <2>4. faults' \in 0..MaxFaults
    BY <1>13, StoreType DEF SaveProviders, StoreTypeOK, Fault
  <2>5. QED BY <1>13, <2>1, <2>2, <2>3, <2>4, ProgramsOf, Moved DEF SaveProviders, StoreTypeOK, Stages, dbVars, countVars
<1>14. ASSUME NEW s \in Scans, SaveHistory(s)
      PROVE  StoreTypeOK'
  BY <1>14, StoreType, ProgramsOf, Moved DEF SaveHistory, Fault, StoreTypeOK, Stages, dbVars, countVars
<1>15. ASSUME NEW s \in Scans, DryRun(s)
      PROVE  StoreTypeOK'
  <2>1. list' \in [Scans -> Tables]
    BY <1>15 DEF DryRun, StoreTypeOK, Forget, Tables, NoRows
  <2>2. QED BY <1>15, <2>1, ProgramsOf, Moved DEF DryRun, StoreTypeOK, Stages, dbVars, countVars
<1>16. ASSUME NEW s \in Scans, NoSources(s)
      PROVE  StoreTypeOK'
  BY <1>16, ProgramsOf, Moved DEF NoSources, StoreTypeOK, Stages, dbVars, countVars
<1>17. ASSUME NEW s \in Scans, NEW new \in [Present(list[s]) -> Checked],
           CheckProviders(s, new)
      PROVE  StoreTypeOK'
  <2>1. list' \in [Scans -> Tables]
    <3>1. [m \in Names |-> IF list[s][m] = NoRow THEN NoRow ELSE new[m]] \in Tables
      BY DEF Tables, Checked, Present
    <3>2. QED BY <1>17, <3>1 DEF CheckProviders, StoreTypeOK
  <2>2. QED BY <1>17, <2>1, ProgramsOf, Moved DEF CheckProviders, StoreTypeOK, Stages, dbVars, countVars
<1>18. ASSUME NEW s \in Scans, NEW new \in SUBSET Prints,
           SaveFindings(s, new)
      PROVE  StoreTypeOK'
  BY <1>18, StoreType, ProgramsOf, Moved DEF SaveFindings, Fault, StoreTypeOK, Stages, dbVars, countVars
<1>19. ASSUME NEW n \in Names, NEW status \in Statuses, SetStatus(n, status)
      PROVE  StoreTypeOK'
  <2>1. provs' \in Tables
    BY <1>19 DEF SetStatus, StoreTypeOK, Tables
  <2>2. since' \in [Programs -> SUBSET Names]
    BY <1>19 DEF SetStatus, StoreTypeOK, Wrote
  <2>3. QED BY <1>19, <2>1, <2>2, StoreType DEF SetStatus, StoreTypeOK, dbVars, countVars
<1>20. CASE UNCHANGED storeVars
  BY <1>20 DEF storeVars, dbVars, countVars, StoreTypeOK
<1>. QED BY <1>1, <1>2, <1>3, <1>4, <1>5, <1>6, <1>7, <1>8, <1>9, <1>10,
     <1>11, <1>12, <1>13, <1>14, <1>15, <1>16, <1>17, <1>18, <1>19, <1>20 DEF StoreNext, Open, Scan

\* Every state of the database and the programs that write it is type correct,
\* whatever they are and however many: a program is at a stage, and a table of
\* providers holds a status in each of its rows.
THEOREM StoreTypes == StoreSpec => []StoreTypeOK
<1>1. StoreInit => StoreTypeOK
  <2>1. NoRows \in Tables
    BY DEF NoRows, Tables
  <2>2. 0 \in 0..NTables /\ 0 \in 0..MaxFaults /\ 0 \in 0..MaxCrashes /\ 0 \in 0..MaxSets
    BY StoreType DEF NTables
  <2>3. StoreInit => at \in [Programs -> Stages] /\ since \in [Programs -> SUBSET Names]
    BY DEF StoreInit, Stages
  <2>4. StoreInit => /\ finds \in [Prints -> {NoRow, "legacy", "scan"}]
                     /\ keyRows \in [Keys -> Nat]
                     /\ list \in [Scans -> Tables]
    BY <2>1 DEF StoreInit
  <2>5. QED BY <2>1, <2>2, <2>3, <2>4 DEF StoreInit, StoreTypeOK
<1>2. StoreTypeOK /\ [StoreNext]_storeVars => StoreTypeOK'
  BY TypesStep
<1>3. QED BY <1>1, <1>2, PTL DEF StoreSpec

-----------------------------------------------------------------------------
(* What every step leaves alone.                                           *)

\* Rows are written and never removed.
Grown == /\ legacy' = legacy
         /\ Present(provs) \subseteq Present(provs')
         /\ \A f \in Prints : finds[f] # NoRow => finds'[f] # NoRow
         /\ \A k \in Keys : keyRows[k] > 0 => keyRows'[k] > 0

\* The tables only grow, and the legacy files stay.
LEMMA Grows ==
  ASSUME StoreTypeOK, [StoreNext]_storeVars
  PROVE  Grown
<1>1. ASSUME NEW p \in Programs, Start(p)
      PROVE  Grown
  BY <1>1 DEF Start, Grown, dbVars
<1>2. ASSUME NEW p \in Programs, CreateTable(p)
      PROVE  Grown
  BY <1>2 DEF CreateTable, Grown, dbVars
<1>3. ASSUME NEW p \in Programs, Created(p)
      PROVE  Grown
  BY <1>3 DEF Created, Grown, dbVars
<1>4. ASSUME NEW p \in Programs, Count(p)
      PROVE  Grown
  BY <1>4 DEF Count, Grown, dbVars
<1>5. ASSUME NEW p \in Programs, InitFails(p)
      PROVE  Grown
  BY <1>5 DEF InitFails, Grown, dbVars
<1>6. ASSUME NEW p \in Programs, CannotParse(p)
      PROVE  Grown
  BY <1>6 DEF CannotParse, Grown, dbVars
<1>7. ASSUME NEW p \in Programs, MigrateProviders(p)
      PROVE  Grown
  BY <1>7, LegacyRows, UpsertGrows DEF MigrateProviders, Grown, StoreTypeOK
<1>8. ASSUME NEW p \in Programs, MigrateFindings(p)
      PROVE  Grown
  BY <1>8 DEF MigrateFindings, Grown, StoreTypeOK, NoRow
<1>9. ASSUME NEW p \in Programs, MigrateKeys(p)
      PROVE  Grown
  BY <1>9 DEF MigrateKeys, Grown, StoreTypeOK
<1>10. ASSUME NEW p \in Programs, Crash(p)
      PROVE  Grown
  BY <1>10 DEF Crash, Grown, dbVars
<1>11. ASSUME NEW s \in Scans, Load(s)
      PROVE  Grown
  BY <1>11 DEF Load, Grown, dbVars
<1>12. ASSUME NEW s \in Scans, AddPollinations(s)
      PROVE  Grown
  BY <1>12 DEF AddPollinations, Grown, dbVars
<1>13. ASSUME NEW s \in Scans, SaveProviders(s)
      PROVE  Grown
  BY <1>13, UpsertGrows DEF SaveProviders, Grown, StoreTypeOK
<1>14. ASSUME NEW s \in Scans, SaveHistory(s)
      PROVE  Grown
  BY <1>14 DEF SaveHistory, Grown, dbVars
<1>15. ASSUME NEW s \in Scans, DryRun(s)
      PROVE  Grown
  BY <1>15 DEF DryRun, Grown, dbVars
<1>16. ASSUME NEW s \in Scans, NoSources(s)
      PROVE  Grown
  BY <1>16 DEF NoSources, Grown, dbVars
<1>17. ASSUME NEW s \in Scans, NEW new \in [Present(list[s]) -> Checked],
           CheckProviders(s, new)
      PROVE  Grown
  BY <1>17 DEF CheckProviders, Grown, dbVars
<1>18. ASSUME NEW s \in Scans, NEW new \in SUBSET Prints,
           SaveFindings(s, new)
      PROVE  Grown
  BY <1>18 DEF SaveFindings, Grown, StoreTypeOK, NoRow
<1>19. ASSUME NEW n \in Names, NEW status \in Statuses, SetStatus(n, status)
      PROVE  Grown
  BY <1>19, StoreType DEF SetStatus, Grown, Present, StoreTypeOK, Tables, NoRow
<1>20. CASE UNCHANGED storeVars
  BY <1>20 DEF storeVars, dbVars, countVars, Grown, dbVars
<1>. QED BY <1>1, <1>2, <1>3, <1>4, <1>5, <1>6, <1>7, <1>8, <1>9, <1>10,
     <1>11, <1>12, <1>13, <1>14, <1>15, <1>16, <1>17, <1>18, <1>19, <1>20 DEF StoreNext, Open, Scan

\* The stages of a scan that has opened the database.
AtWork == {"open", "loaded", "checked", "tested", "saved", "noted"}

\* A step that neither looks for legacy files nor copies one.
Calm == /\ met' = met /\ keyRows' = keyRows
        /\ cutShort => cutShort'
        /\ \A q \in Programs : at'[q] \in Migrating => at'[q] = at[q]
        /\ ~cutShort' => \A q \in Programs : at[q] \in Migrating => at'[q] = at[q]
        /\ ~cutShort' /\ Opened' => Opened
        /\ \A t \in Scans : at'[t] \in AtWork => at[t] \in AtWork
        /\ \A f \in Prints : finds[f] = "scan" => finds'[f] = "scan"
        /\ (\E f \in Prints : finds[f] # "scan" /\ finds'[f] = "scan") =>
             \E t \in Scans : at[t] \in AtWork
        /\ Present(provs') # {} => Present(provs) # {} \/ Opened

\* Most steps are calm.
LEMMA CalmSteps ==
  ASSUME StoreTypeOK, [StoreNext]_storeVars
  PROVE  \/ Calm
         \/ \E p \in Programs : \/ Count(p) \/ MigrateProviders(p)
                              \/ MigrateFindings(p) \/ MigrateKeys(p)
<1>1. ASSUME NEW p \in Programs, Start(p)
      PROVE  Calm
  BY <1>1, Moved, ProgramsOf, StoreType DEF Start, Calm, Opened, Opening, Migrating, AtWork,
     Stages, StoreTypeOK, dbVars
<1>2. ASSUME NEW p \in Programs, CreateTable(p)
      PROVE  Calm
  BY <1>2, Moved, ProgramsOf, StoreType DEF CreateTable, Calm, Opened, Opening, Migrating, AtWork,
     Stages, StoreTypeOK, dbVars
<1>3. ASSUME NEW p \in Programs, Created(p)
      PROVE  Calm
  BY <1>3, Moved, ProgramsOf, StoreType DEF Created, Calm, Opened, Opening, Migrating, AtWork,
     Stages, StoreTypeOK, dbVars
<1>4. ASSUME NEW p \in Programs, InitFails(p)
      PROVE  Calm
  BY <1>4, Moved, ProgramsOf, StoreType DEF InitFails, GiveUp, Calm, Opened, Opening, Migrating, AtWork,
     Stages, StoreTypeOK, dbVars
<1>5. ASSUME NEW p \in Programs, CannotParse(p)
      PROVE  Calm
  BY <1>5, Moved, ProgramsOf, StoreType DEF CannotParse, GiveUp, Calm, Opened, Opening, Migrating, AtWork,
     Stages, StoreTypeOK, dbVars
<1>6. ASSUME NEW p \in Programs, Crash(p)
      PROVE  Calm
  <2>1. /\ at' \in [Programs -> Stages] /\ at'[p] \in {"off", "dead"}
        /\ \A q \in Programs : q # p => at'[q] = at[q]
    BY <1>6, Moved DEF Crash, Stages, StoreTypeOK
  <2>2. /\ met' = met /\ keyRows' = keyRows /\ finds' = finds /\ provs' = provs
        /\ cutShort' = (cutShort \/ at[p] \in Migrating)
    BY <1>6 DEF Crash, dbVars
  <2>3. Opened' => Opened
    BY <2>1 DEF Opened
  <2>4. \A q \in Programs : at'[q] \in Migrating => at'[q] = at[q]
    BY <2>1 DEF Migrating
  <2>5. ~cutShort' => \A q \in Programs : at[q] \in Migrating => at'[q] = at[q]
    BY <2>1, <2>2
  <2>6. \A t \in Scans : at'[t] \in AtWork => at[t] \in AtWork
    BY <2>1, ProgramsOf DEF AtWork
  <2>7. QED
    BY <2>2, <2>3, <2>4, <2>5, <2>6 DEF Calm, Present
<1>7. ASSUME NEW s \in Scans, Load(s)
      PROVE  Calm
  BY <1>7, Moved, ProgramsOf, StoreType DEF Load, Calm, Opened, Opening, Migrating, AtWork,
     Stages, StoreTypeOK, dbVars
<1>8. ASSUME NEW s \in Scans, AddPollinations(s)
      PROVE  Calm
  BY <1>8, Moved, ProgramsOf, StoreType DEF AddPollinations, Calm, Opened, Opening, Migrating, AtWork,
     Stages, StoreTypeOK, dbVars
<1>9. ASSUME NEW s \in Scans, SaveProviders(s)
      PROVE  Calm
  BY <1>9, Moved, ProgramsOf, StoreType DEF SaveProviders, Calm, Opened, Opening, Migrating, AtWork,
     Stages, StoreTypeOK, dbVars
<1>10. ASSUME NEW s \in Scans, SaveHistory(s)
      PROVE  Calm
  BY <1>10, Moved, ProgramsOf, StoreType DEF SaveHistory, Calm, Opened, Opening, Migrating, AtWork,
     Stages, StoreTypeOK, dbVars
<1>11. ASSUME NEW s \in Scans, DryRun(s)
      PROVE  Calm
  BY <1>11, Moved, ProgramsOf, StoreType DEF DryRun, Calm, Opened, Opening, Migrating, AtWork,
     Stages, StoreTypeOK, dbVars
<1>12. ASSUME NEW s \in Scans, NoSources(s)
      PROVE  Calm
  BY <1>12, Moved, ProgramsOf, StoreType DEF NoSources, Calm, Opened, Opening, Migrating, AtWork,
     Stages, StoreTypeOK, dbVars
<1>13. ASSUME NEW s \in Scans, NEW new \in [Present(list[s]) -> Checked],
           CheckProviders(s, new)
      PROVE  Calm
  BY <1>13, Moved, ProgramsOf, StoreType DEF CheckProviders, Calm, Opened, Opening, Migrating, AtWork,
     Stages, StoreTypeOK, dbVars
<1>14. ASSUME NEW s \in Scans, NEW new \in SUBSET Prints,
           SaveFindings(s, new)
      PROVE  Calm
  BY <1>14, Moved, ProgramsOf, StoreType DEF SaveFindings, Calm, Opened, Opening, Migrating, AtWork,
     Stages, StoreTypeOK, dbVars
<1>15. ASSUME NEW n \in Names, NEW status \in Statuses, SetStatus(n, status)
      PROVE  Calm
  <2>1. Opened
    BY <1>15, ProgramsOf DEF SetStatus, Opened, Opening, Migrating
  <2>2. QED BY <1>15, <2>1 DEF SetStatus, Calm, Opened
<1>16. CASE UNCHANGED storeVars
  BY <1>16 DEF storeVars, dbVars, Calm, Opened
<1>. QED BY <1>1, <1>2, <1>3, <1>4, <1>5, <1>6, <1>7, <1>8, <1>9, <1>10,
     <1>11, <1>12, <1>13, <1>14, <1>15, <1>16 DEF StoreNext, Open, Scan

-----------------------------------------------------------------------------
(* Keys.                                                                   *)

\* Programs that do not meet migrate one at a time, and after its first copy a
\* migration finds the table of providers filled.
OneMigrates == ~met => \A p, q \in Programs :
  at[p] \in Migrating /\ at[q] \in Migrating => p = q
RowsCopied == ~EmptyList => \A p \in Programs :
  at[p] \in {"findings", "keys"} => Present(provs) # {}

\* Before there are providers there are no keys, nor while a program migrates.
NoKeysYet == ~EmptyList /\ Present(provs) = {} => \A k \in Keys : keyRows[k] = 0
NoKeysBefore == ~met /\ ~EmptyList => \A p \in Programs :
  at[p] \in Migrating => \A k \in Keys : keyRows[k] = 0

KeysInv == /\ OneMigrates /\ RowsCopied
           /\ NoKeysYet /\ NoKeysBefore /\ KeysOnce

\* A calm step keeps what is known about migrations and keys.
LEMMA KeysCalm ==
  ASSUME StoreTypeOK, KeysInv, Calm, Grown
  PROVE  KeysInv'
<1>1. EmptyList' = EmptyList
  BY DEF Grown, EmptyList, Present
<1>2. OneMigrates'
  BY DEF Calm, KeysInv, OneMigrates
<1>3. RowsCopied'
  BY <1>1 DEF Calm, Grown, KeysInv, RowsCopied, Migrating
<1>4. NoKeysYet' /\ NoKeysBefore' /\ KeysOnce'
  BY <1>1 DEF Calm, Grown, KeysInv, NoKeysYet, NoKeysBefore, KeysOnce
<1>5. QED BY <1>2, <1>3, <1>4 DEF KeysInv

\* So does the look for legacy files: it starts a migration only when there is
\* no provider, and so no key.
LEMMA KeysCount ==
  ASSUME StoreTypeOK, KeysInv, NEW p \in Programs, Count(p)
  PROVE  KeysInv'
<1>1. EmptyList' = EmptyList /\ provs' = provs /\ keyRows' = keyRows /\ at[p] \notin Migrating
  BY DEF Count, EmptyList, Present, dbVars, Migrating
<1>2. /\ at'[p] \in {"providers", "open"}
      /\ at'[p] = "providers" => Present(provs) = {}
      /\ \A q \in Programs : q # p => at'[q] = at[q]
  <2>1. CASE ToMigrate
    BY <2>1, Moved DEF Count, ToMigrate, StoreTypeOK, Stages, Opening, Migrating
  <2>2. CASE ~ToMigrate
    BY <2>2, Moved DEF Count, StoreTypeOK, Stages
  <2>3. QED BY <2>1, <2>2
<1>3. ~met' => ~met /\ \A q \in Programs : q # p => at[q] \notin Migrating
  BY DEF Count
<1>4. OneMigrates'
  BY <1>2, <1>3 DEF KeysInv, OneMigrates, Migrating
<1>5. RowsCopied'
  BY <1>1, <1>2 DEF KeysInv, RowsCopied, Present
<1>6. NoKeysYet' /\ NoKeysBefore' /\ KeysOnce'
  BY <1>1, <1>2, <1>3 DEF KeysInv, NoKeysYet, NoKeysBefore, KeysOnce, Present, Migrating
<1>7. QED BY <1>4, <1>5, <1>6 DEF KeysInv

\* Copying the providers fills the table, unless the list is empty.
LEMMA KeysProviders ==
  ASSUME StoreTypeOK, KeysInv, NEW p \in Programs, MigrateProviders(p)
  PROVE  KeysInv'
<1>1. EmptyList' = EmptyList /\ keyRows' = keyRows /\ met' = met /\ at[p] \in Migrating
  BY DEF MigrateProviders, EmptyList, Present, Migrating
<1>2. /\ Present(provs') = Present(provs) \cup Present(legacy.rows)
      /\ legacy.providers = "read"
  BY LegacyRows, UpsertGrows DEF MigrateProviders, StoreTypeOK
<1>3. ~EmptyList => Present(provs') # {}
  BY <1>2 DEF EmptyList
<1>4. /\ at'[p] = "findings"
      /\ \A q \in Programs : q # p => at'[q] = at[q]
  BY Moved DEF MigrateProviders, StoreTypeOK, Stages, Opening, Migrating
<1>5. OneMigrates'
  BY <1>1, <1>4 DEF KeysInv, OneMigrates
<1>6. RowsCopied' /\ NoKeysYet'
  BY <1>1, <1>3 DEF RowsCopied, NoKeysYet
<1>7. NoKeysBefore' /\ KeysOnce'
  BY <1>1, <1>4 DEF KeysInv, NoKeysBefore, KeysOnce
<1>8. QED BY <1>5, <1>6, <1>7 DEF KeysInv

\* Copying the findings does not touch the keys.
LEMMA KeysFindings ==
  ASSUME StoreTypeOK, KeysInv, NEW p \in Programs, MigrateFindings(p)
  PROVE  KeysInv'
<1>1. /\ EmptyList' = EmptyList /\ keyRows' = keyRows /\ provs' = provs
      /\ met' = met /\ at[p] = "findings"
  BY DEF MigrateFindings, EmptyList, Present
<1>2. /\ at'[p] = "keys"
      /\ \A q \in Programs : q # p => at'[q] = at[q]
  BY Moved DEF MigrateFindings, StoreTypeOK, Stages, Opening, Migrating
<1>3. OneMigrates'
  BY <1>1, <1>2 DEF KeysInv, OneMigrates, Migrating
<1>4. RowsCopied' /\ NoKeysYet'
  BY <1>1, <1>2 DEF KeysInv, RowsCopied, NoKeysYet, Present
<1>5. NoKeysBefore' /\ KeysOnce'
  BY <1>1, <1>2 DEF KeysInv, NoKeysBefore, KeysOnce, Migrating
<1>6. QED BY <1>3, <1>4, <1>5 DEF KeysInv

\* Copying the keys: there were none, and no other program migrates.
LEMMA KeysKeys ==
  ASSUME StoreTypeOK, KeysInv, NEW p \in Programs, MigrateKeys(p)
  PROVE  KeysInv'
<1>1. EmptyList' = EmptyList /\ provs' = provs /\ met' = met /\ at[p] = "keys"
  BY DEF MigrateKeys, EmptyList, Present
<1>2. /\ at'[p] = "open"
      /\ \A q \in Programs : q # p => at'[q] = at[q]
  BY Moved DEF MigrateKeys, StoreTypeOK, Stages
<1>3. \A k \in Keys : keyRows'[k] \in {keyRows[k], keyRows[k] + 1}
  BY DEF MigrateKeys, StoreTypeOK
<1>4. OneMigrates'
  BY <1>1, <1>2 DEF KeysInv, OneMigrates, Migrating
<1>5. RowsCopied' /\ NoKeysYet'
  BY <1>1, <1>2 DEF KeysInv, RowsCopied, NoKeysYet, Present
<1>6. ~met /\ ~EmptyList => /\ \A k \in Keys : keyRows[k] = 0
                            /\ \A q \in Programs : at'[q] \notin Migrating
  BY <1>1, <1>2 DEF KeysInv, NoKeysBefore, OneMigrates, Migrating
<1>7. NoKeysBefore' /\ KeysOnce'
  BY <1>1, <1>3, <1>6 DEF NoKeysBefore, KeysOnce
<1>8. QED BY <1>4, <1>5, <1>7 DEF KeysInv

\* No step puts a key in twice.
LEMMA KeysStep ==
  ASSUME StoreTypeOK, KeysInv, [StoreNext]_storeVars
  PROVE  KeysInv'
<1>1. CASE Calm
  BY <1>1, KeysCalm, Grows
<1>2. CASE \E p \in Programs : Count(p) \/ MigrateProviders(p)
  BY <1>2, KeysCount, KeysProviders
<1>3. CASE \E p \in Programs : MigrateFindings(p) \/ MigrateKeys(p)
  BY <1>3, KeysFindings, KeysKeys
<1>4. QED BY <1>1, <1>2, <1>3, CalmSteps

\* In the beginning nothing has been written.
LEMMA KeysInit == StoreInit => KeysInv
BY DEF StoreInit, KeysInv, OneMigrates, RowsCopied, NoKeysYet, NoKeysBefore,
       KeysOnce, Migrating

\* While programs open the database one at a time, a migration puts every key in
\* once, whatever fails or is killed, unless providers.json lists nobody.
THEOREM KeysComeOnce == StoreSpec => []KeysOnce
<1>1. StoreInit => KeysInv
  BY KeysInit
<1>2. StoreTypeOK /\ KeysInv /\ [StoreNext]_storeVars => KeysInv'
  BY KeysStep
<1>3. KeysInv => KeysOnce
  BY DEF KeysInv
<1>4. QED BY <1>1, <1>2, <1>3, StoreTypes, PTL DEF StoreSpec

-----------------------------------------------------------------------------
(* Findings.                                                               *)

\* A scan that works found providers in the table, or there was no legacy list
\* of them; and it works only while no program migrates.
WorkAfterRows == legacy.providers # Absent /\ ~EmptyList => \A s \in Scans :
  at[s] \in AtWork => Present(provs) # {}
NoWorkBefore == ~met /\ ~EmptyList => \A p \in Programs :
  at[p] \in Migrating => \A s \in Scans : at[s] \notin AtWork

\* Before there are providers no scan has found anything, nor while a program
\* migrates.
NothingFoundYet == legacy.providers # Absent /\ ~EmptyList /\ Present(provs) = {} =>
  \A f \in Prints : finds[f] # "scan"
NothingFoundBefore == ~met /\ ~EmptyList => \A p \in Programs :
  at[p] \in Migrating => \A f \in Prints : finds[f] # "scan"

FoundInv == /\ WorkAfterRows /\ NoWorkBefore
            /\ NothingFoundYet /\ NothingFoundBefore

\* What FoundStays says of a step.
FindingsStay == \A f \in Prints :
  finds[f] = "scan" /\ ~met /\ ~EmptyList => finds'[f] = "scan"

\* A finding a scan saves in a calm step is saved by a scan that works.
LEMMA FoundCalm ==
  ASSUME StoreTypeOK, FoundInv, Calm, Grown
  PROVE  FoundInv' /\ FindingsStay
<1>1. EmptyList' = EmptyList /\ legacy' = legacy /\ met' = met
  BY DEF Grown, EmptyList, Present, Calm
<1>2. WorkAfterRows'
  BY <1>1 DEF Calm, Grown, FoundInv, WorkAfterRows
<1>3. NoWorkBefore'
  BY <1>1 DEF Calm, FoundInv, NoWorkBefore
<1>4. NothingFoundYet'
  BY <1>1 DEF Calm, Grown, FoundInv, NothingFoundYet, WorkAfterRows
<1>5. NothingFoundBefore'
  BY <1>1 DEF Calm, FoundInv, NothingFoundBefore, NoWorkBefore
<1>6. FindingsStay
  BY DEF Calm, FindingsStay
<1>7. QED BY <1>2, <1>3, <1>4, <1>5, <1>6 DEF FoundInv

\* A migration starts only when there is no provider, and so no scan at work.
LEMMA FoundCount ==
  ASSUME StoreTypeOK, FoundInv, NEW p \in Programs, Count(p)
  PROVE  FoundInv' /\ FindingsStay
<1>1. /\ EmptyList' = EmptyList /\ legacy' = legacy /\ provs' = provs
      /\ finds' = finds /\ at[p] \notin Migrating
      /\ Present(provs') = Present(provs)
  BY DEF Count, EmptyList, Present, dbVars, Migrating
<1>2. /\ \/ at'[p] = "providers" /\ Present(provs) = {} /\ legacy.providers # Absent
         \/ /\ at'[p] = "open"
            /\ legacy.providers # Absent => Present(provs) # {}
      /\ \A q \in Programs : q # p => at'[q] = at[q]
  <2>1. CASE ToMigrate
    BY <2>1, Moved DEF Count, ToMigrate, StoreTypeOK, Stages, Opening, Migrating
  <2>2. CASE ~ToMigrate
    BY <2>2, Moved DEF Count, ToMigrate, StoreTypeOK, Stages
  <2>3. QED BY <2>1, <2>2
<1>3. ~met' => ~met /\ \A q \in Programs : q # p => at[q] \notin Migrating
  BY DEF Count
<1>4. WorkAfterRows'
  BY <1>1, <1>2, ProgramsOf DEF FoundInv, WorkAfterRows, AtWork
<1>5. NoWorkBefore'
  BY <1>1, <1>2, <1>3, ProgramsOf DEF FoundInv, NoWorkBefore, WorkAfterRows, AtWork, Migrating
<1>6. NothingFoundYet' /\ NothingFoundBefore' /\ FindingsStay
  BY <1>1, <1>2, <1>3 DEF FoundInv, NothingFoundYet, NothingFoundBefore, FindingsStay, Migrating
<1>7. QED BY <1>4, <1>5, <1>6 DEF FoundInv

\* Copying the providers leaves the findings alone.
LEMMA FoundProviders ==
  ASSUME StoreTypeOK, FoundInv, NEW p \in Programs, MigrateProviders(p)
  PROVE  FoundInv' /\ FindingsStay
<1>1. /\ EmptyList' = EmptyList /\ legacy' = legacy /\ met' = met
      /\ finds' = finds /\ at[p] \in Migrating
  BY DEF MigrateProviders, EmptyList, Present, Migrating
<1>2. /\ Present(provs') = Present(provs) \cup Present(legacy.rows)
      /\ legacy.providers = "read"
  BY LegacyRows, UpsertGrows DEF MigrateProviders, StoreTypeOK
<1>3. ~EmptyList => Present(provs') # {}
  BY <1>2 DEF EmptyList
<1>4. /\ at'[p] = "findings"
      /\ \A q \in Programs : q # p => at'[q] = at[q]
  BY Moved DEF MigrateProviders, StoreTypeOK, Stages, Opening, Migrating
<1>5. WorkAfterRows' /\ NothingFoundYet'
  BY <1>1, <1>3 DEF WorkAfterRows, NothingFoundYet
<1>6. NoWorkBefore'
  BY <1>1, <1>4, ProgramsOf DEF FoundInv, NoWorkBefore, AtWork
<1>7. NothingFoundBefore' /\ FindingsStay
  BY <1>1, <1>4 DEF FoundInv, NothingFoundBefore, FindingsStay
<1>8. QED BY <1>5, <1>6, <1>7 DEF FoundInv

\* Copying the findings: no scan has found anything yet.
LEMMA FoundFindings ==
  ASSUME StoreTypeOK, FoundInv, NEW p \in Programs, MigrateFindings(p)
  PROVE  FoundInv' /\ FindingsStay
<1>1. /\ EmptyList' = EmptyList /\ legacy' = legacy /\ met' = met
      /\ provs' = provs /\ at[p] \in Migrating /\ Present(provs') = Present(provs)
  BY DEF MigrateFindings, EmptyList, Present, Migrating
<1>2. /\ at'[p] = "keys"
      /\ \A q \in Programs : q # p => at'[q] = at[q]
  BY Moved DEF MigrateFindings, StoreTypeOK, Stages, Opening, Migrating
<1>3. \A f \in Prints : finds'[f] = "scan" => finds[f] = "scan"
  BY DEF MigrateFindings, StoreTypeOK
<1>4. WorkAfterRows'
  BY <1>1, <1>2, ProgramsOf DEF FoundInv, WorkAfterRows, AtWork
<1>5. NoWorkBefore'
  BY <1>1, <1>2, ProgramsOf DEF FoundInv, NoWorkBefore, AtWork
<1>6. NothingFoundYet' /\ NothingFoundBefore' /\ FindingsStay
  BY <1>1, <1>2, <1>3 DEF FoundInv, NothingFoundYet, NothingFoundBefore, FindingsStay
<1>7. QED BY <1>4, <1>5, <1>6 DEF FoundInv

\* When the keys have been copied a scan goes to work: the table of providers is
\* filled, and no other program migrates.
LEMMA FoundKeys ==
  ASSUME StoreTypeOK, KeysInv, FoundInv, NEW p \in Programs, MigrateKeys(p)
  PROVE  FoundInv' /\ FindingsStay
<1>1. /\ EmptyList' = EmptyList /\ legacy' = legacy /\ met' = met
      /\ provs' = provs /\ finds' = finds /\ at[p] = "keys"
      /\ Present(provs') = Present(provs)
  BY DEF MigrateKeys, EmptyList, Present
<1>2. /\ at'[p] = "open"
      /\ \A q \in Programs : q # p => at'[q] = at[q]
  BY Moved DEF MigrateKeys, StoreTypeOK, Stages
<1>3. WorkAfterRows'
  BY <1>1, <1>2, ProgramsOf DEF FoundInv, WorkAfterRows, KeysInv, RowsCopied
<1>4. NoWorkBefore'
  BY <1>1, <1>2 DEF NoWorkBefore, KeysInv, OneMigrates, Migrating
<1>5. NothingFoundYet' /\ NothingFoundBefore' /\ FindingsStay
  BY <1>1, <1>2 DEF FoundInv, NothingFoundYet, NothingFoundBefore, FindingsStay, Migrating
<1>6. QED BY <1>3, <1>4, <1>5 DEF FoundInv

\* No migration replaces a finding of a scan.
LEMMA FoundStep ==
  ASSUME StoreTypeOK, KeysInv, FoundInv, [StoreNext]_storeVars
  PROVE  FoundInv' /\ FindingsStay
<1>1. CASE Calm
  BY <1>1, FoundCalm, Grows
<1>2. CASE \E p \in Programs : Count(p) \/ MigrateProviders(p)
  BY <1>2, FoundCount, FoundProviders
<1>3. CASE \E p \in Programs : MigrateFindings(p) \/ MigrateKeys(p)
  BY <1>3, FoundFindings, FoundKeys
<1>4. QED BY <1>1, <1>2, <1>3, CalmSteps

\* In the beginning no scan works and nothing has been found.
LEMMA FoundInit == StoreInit => FoundInv
BY DEF StoreInit, FoundInv, WorkAfterRows, NoWorkBefore, NothingFoundYet,
       NothingFoundBefore, Migrating, AtWork, NoRow, Programs

\* While programs open the database one at a time no migration replaces what a
\* scan has found, unless providers.json lists nobody.
THEOREM FindingsSurvive == StoreSpec => FoundStays
<1>1. StoreInit => KeysInv /\ FoundInv
  BY KeysInit, FoundInit
<1>2. StoreTypeOK /\ KeysInv /\ FoundInv /\ [StoreNext]_storeVars => (KeysInv /\ FoundInv)'
  BY KeysStep, FoundStep
<1>3. StoreTypeOK /\ KeysInv /\ FoundInv /\ [StoreNext]_storeVars =>
        [\A f \in Prints :
           finds[f] = "scan" /\ ~met /\ ~EmptyList => finds'[f] = "scan"]_storeVars
  BY FoundStep DEF FindingsStay
<1>4. QED BY <1>1, <1>2, <1>3, StoreTypes, PTL DEF StoreSpec, FoundStays

-----------------------------------------------------------------------------
(* The legacy files are all there.                                         *)

\* A migration that has copied a file finds its rows in the tables.
RowsThere == \A p \in Programs : at[p] \in {"findings", "keys"} =>
  Present(legacy.rows) \subseteq Present(provs)
FindsThere == \A p \in Programs : at[p] = "keys" /\ legacy.findings = "read" =>
  \A f \in legacy.prints : finds[f] # NoRow

\* Once a program has opened the database, or there is a provider, the legacy
\* files are all there or somebody is copying them.
CopiedOrCopying ==
  ~cutShort /\ legacy.providers # Absent /\ (Opened \/ Present(provs) # {}) =>
    Whole \/ \E p \in Programs : at[p] \in Migrating

WholeInv == RowsThere /\ FindsThere /\ CopiedOrCopying

\* What is there stays there.
LEMMA WholeStays ==
  ASSUME StoreTypeOK, Whole, Grown
  PROVE  Whole'
BY StoreType DEF StoreTypeOK, Whole, Grown, LegacyFiles

\* A calm step neither opens the database nor ends a migration.
LEMMA WholeCalm ==
  ASSUME StoreTypeOK, WholeInv, Calm, Grown
  PROVE  WholeInv'
<1>1. RowsThere' /\ FindsThere'
  BY StoreType DEF WholeInv, RowsThere, FindsThere, Calm, Grown, Migrating, StoreTypeOK, LegacyFiles
<1>2. Whole => Whole'
  BY WholeStays
<1>3. CopiedOrCopying'
  BY <1>2 DEF WholeInv, CopiedOrCopying, Calm, Grown
<1>4. QED BY <1>1, <1>3 DEF WholeInv

\* The look for legacy files finds a provider, or starts to copy them.
LEMMA WholeCount ==
  ASSUME StoreTypeOK, WholeInv, Grown, NEW p \in Programs, Count(p)
  PROVE  WholeInv'
<1>1. /\ legacy' = legacy /\ provs' = provs /\ finds' = finds
      /\ cutShort' = cutShort /\ at[p] = "counting"
      /\ Present(provs') = Present(provs)
  BY DEF Count, dbVars, Present
<1>2. /\ \/ at'[p] = "providers"
         \/ at'[p] = "open" /\ (legacy.providers # Absent => Present(provs) # {})
      /\ \A q \in Programs : q # p => at'[q] = at[q]
  <2>1. CASE ToMigrate
    BY <2>1, Moved DEF Count, ToMigrate, StoreTypeOK, Stages, Opening, Migrating
  <2>2. CASE ~ToMigrate
    BY <2>2, Moved DEF Count, ToMigrate, StoreTypeOK, Stages
  <2>3. QED BY <2>1, <2>2
<1>3. RowsThere' /\ FindsThere'
  BY <1>1, <1>2 DEF WholeInv, RowsThere, FindsThere, Present
<1>4. CopiedOrCopying'
  <2>1. CASE at'[p] = "providers"
    BY <2>1 DEF CopiedOrCopying, Migrating
  <2>2. CASE at'[p] = "open" /\ (legacy.providers # Absent => Present(provs) # {})
    BY <2>2, <1>1, <1>2, WholeStays DEF WholeInv, CopiedOrCopying, Migrating
  <2>3. QED BY <1>2, <2>1, <2>2
<1>5. QED BY <1>3, <1>4 DEF WholeInv

\* After the providers come the findings, after them the keys.
LEMMA WholeMigrates ==
  ASSUME StoreTypeOK, WholeInv, Grown, NEW p \in Programs,
         MigrateProviders(p) \/ MigrateFindings(p)
  PROVE  WholeInv'
<1>1. /\ \A q \in Programs : q # p => at'[q] = at[q]
      /\ legacy' = legacy
  BY Moved DEF MigrateProviders, MigrateFindings, StoreTypeOK, Stages, Opening, Migrating
<1>2. CASE MigrateProviders(p)
  <2>1. at'[p] = "findings" /\ Present(legacy.rows) \subseteq Present(provs')
    BY <1>2, Moved, LegacyRows, UpsertGrows
       DEF MigrateProviders, StoreTypeOK, Stages, Opening, Migrating
  <2>2. RowsThere'
    BY <1>1, <2>1 DEF WholeInv, RowsThere, Grown
  <2>3. FindsThere'
    BY <1>1, <1>2, <2>1 DEF WholeInv, FindsThere, MigrateProviders
  <2>4. QED BY <2>1, <2>2, <2>3 DEF WholeInv, CopiedOrCopying, Migrating
<1>3. CASE MigrateFindings(p)
  <2>1. /\ at[p] = "findings" /\ at'[p] = "keys" /\ provs' = provs
        /\ legacy.prints \subseteq Prints
    BY <1>3, Moved, StoreType
       DEF MigrateFindings, StoreTypeOK, Stages, Opening, Migrating, LegacyFiles
  <2>2. legacy.findings = "read" => \A f \in legacy.prints : finds'[f] # NoRow
    BY <1>3, <2>1 DEF MigrateFindings, NoRow
  <2>3. RowsThere' /\ FindsThere'
    BY <1>1, <2>1, <2>2 DEF WholeInv, RowsThere, FindsThere, Present
  <2>4. QED BY <2>1, <2>3 DEF WholeInv, CopiedOrCopying, Migrating
<1>4. QED BY <1>2, <1>3

\* When the keys are copied everything is there.
LEMMA WholeKeys ==
  ASSUME StoreTypeOK, WholeInv, Grown, NEW p \in Programs, MigrateKeys(p)
  PROVE  WholeInv'
<1>1. /\ legacy' = legacy /\ provs' = provs /\ finds' = finds
      /\ at[p] = "keys" /\ at'[p] = "open"
      /\ \A q \in Programs : q # p => at'[q] = at[q]
  BY Moved DEF MigrateKeys, StoreTypeOK, Stages
<1>2. legacy.keyPool = "read" => \A k \in legacy.keys : keyRows'[k] > 0
  BY StoreType DEF MigrateKeys, StoreTypeOK, LegacyFiles
<1>3. Whole'
  BY <1>1, <1>2 DEF WholeInv, RowsThere, FindsThere, Whole, Present
<1>4. RowsThere' /\ FindsThere'
  BY <1>1 DEF WholeInv, RowsThere, FindsThere, Present
<1>5. QED BY <1>3, <1>4 DEF WholeInv, CopiedOrCopying

\* No step loses what has been copied, or opens the database before it has.
LEMMA WholeStep ==
  ASSUME StoreTypeOK, WholeInv, [StoreNext]_storeVars
  PROVE  WholeInv'
<1>1. CASE Calm
  BY <1>1, WholeCalm, Grows
<1>2. CASE \E p \in Programs : Count(p) \/ MigrateProviders(p)
  BY <1>2, WholeCount, WholeMigrates, Grows
<1>3. CASE \E p \in Programs : MigrateFindings(p) \/ MigrateKeys(p)
  BY <1>3, WholeMigrates, WholeKeys, Grows
<1>4. QED BY <1>1, <1>2, <1>3, CalmSteps

\* A program that has opened the database while no other migrates finds there
\* everything the legacy files held, if no opening failed or was killed.
THEOREM OpeningMigrates == StoreSpec => []OpenedIsWhole
<1>1. StoreInit => WholeInv
  BY DEF StoreInit, WholeInv, RowsThere, FindsThere, CopiedOrCopying, Opened,
         Present, NoRows
<1>2. StoreTypeOK /\ WholeInv /\ [StoreNext]_storeVars => WholeInv'
  BY WholeStep
<1>3. WholeInv => OpenedIsWhole
  BY DEF WholeInv, CopiedOrCopying, OpenedIsWhole, Idle
<1>4. QED BY <1>1, <1>2, <1>3, StoreTypes, PTL DEF StoreSpec

-----------------------------------------------------------------------------
(* Statuses.                                                               *)

\* A step that writes no provider and looks at none.
Quiet == /\ provs' = provs /\ since' = since
         /\ \A q \in Programs : at'[q] = "providers" => at[q] = "providers"
         /\ \A t \in Scans : at'[t] = "loaded" => at[t] = "loaded" /\ list'[t] = list[t]

\* Most steps are quiet.
LEMMA QuietSteps ==
  ASSUME StoreTypeOK, [StoreNext]_storeVars
  PROVE  \/ Quiet
         \/ \E p \in Programs : Count(p) \/ MigrateProviders(p)
         \/ \E s \in Scans : Load(s) \/ SaveProviders(s)
         \/ \E n \in Names, status \in Statuses : SetStatus(n, status)
<1>1. ASSUME NEW p \in Programs, Start(p)
      PROVE  Quiet
  BY <1>1, Moved, ProgramsOf DEF Start, Quiet, Opening, Migrating, Stages,
     StoreTypeOK, dbVars
<1>2. ASSUME NEW p \in Programs, CreateTable(p)
      PROVE  Quiet
  BY <1>2, Moved, ProgramsOf DEF CreateTable, Quiet, Opening, Migrating,
     Stages, StoreTypeOK, dbVars
<1>3. ASSUME NEW p \in Programs, Created(p)
      PROVE  Quiet
  BY <1>3, Moved, ProgramsOf DEF Created, Quiet, Opening, Migrating, Stages,
     StoreTypeOK, dbVars
<1>4. ASSUME NEW p \in Programs, InitFails(p)
      PROVE  Quiet
  BY <1>4, Moved, ProgramsOf DEF InitFails, GiveUp, Quiet, Opening, Migrating,
     Stages, StoreTypeOK, dbVars
<1>5. ASSUME NEW p \in Programs, CannotParse(p)
      PROVE  Quiet
  BY <1>5, Moved, ProgramsOf DEF CannotParse, GiveUp, Quiet, Opening, Migrating,
     Stages, StoreTypeOK, dbVars
<1>6. ASSUME NEW p \in Programs, MigrateFindings(p)
      PROVE  Quiet
  BY <1>6, Moved, ProgramsOf DEF MigrateFindings, Quiet, Opening, Migrating,
     Stages, StoreTypeOK, dbVars
<1>7. ASSUME NEW p \in Programs, MigrateKeys(p)
      PROVE  Quiet
  BY <1>7, Moved, ProgramsOf DEF MigrateKeys, Quiet, Opening, Migrating,
     Stages, StoreTypeOK, dbVars
<1>8. ASSUME NEW p \in Programs, Crash(p)
      PROVE  Quiet
  BY <1>8, Moved, ProgramsOf DEF Crash, Quiet, Opening, Migrating, Stages,
     StoreTypeOK, dbVars
<1>9. ASSUME NEW s \in Scans, AddPollinations(s)
      PROVE  Quiet
  BY <1>9, Moved, ProgramsOf DEF AddPollinations, Quiet, Opening, Migrating,
     Stages, StoreTypeOK, dbVars
<1>10. ASSUME NEW s \in Scans, SaveHistory(s)
      PROVE  Quiet
  BY <1>10, Moved, ProgramsOf DEF SaveHistory, Quiet, Opening, Migrating,
     Stages, StoreTypeOK, dbVars
<1>11. ASSUME NEW s \in Scans, DryRun(s)
      PROVE  Quiet
  BY <1>11, Moved, ProgramsOf DEF DryRun, Forget, Quiet, Opening, Migrating,
     Stages, StoreTypeOK, dbVars
<1>12. ASSUME NEW s \in Scans, NoSources(s)
      PROVE  Quiet
  BY <1>12, Moved, ProgramsOf DEF NoSources, Quiet, Opening, Migrating,
     Stages, StoreTypeOK, dbVars
<1>13. ASSUME NEW s \in Scans, NEW new \in [Present(list[s]) -> Checked],
           CheckProviders(s, new)
      PROVE  Quiet
  BY <1>13, Moved, ProgramsOf DEF CheckProviders, Quiet, Opening, Migrating,
     Stages, StoreTypeOK, dbVars
<1>14. ASSUME NEW s \in Scans, NEW new \in SUBSET Prints,
           SaveFindings(s, new)
      PROVE  Quiet
  BY <1>14, Moved, ProgramsOf DEF SaveFindings, Quiet, Opening, Migrating,
     Stages, StoreTypeOK, dbVars
<1>15. CASE UNCHANGED storeVars
  BY <1>15, Moved, ProgramsOf DEF storeVars, dbVars, countVars, Quiet,
     Opening, Migrating, Stages, StoreTypeOK, dbVars
<1>. QED BY <1>1, <1>2, <1>3, <1>4, <1>5, <1>6, <1>7, <1>8, <1>9, <1>10,
     <1>11, <1>12, <1>13, <1>14, <1>15 DEF StoreNext, Open, Scan

\* A migration that is about to copy the providers looked when there was none.
\* What a scan has loaded is what the table holds, except for the providers of
\* the config and for rows written since.
UpToDate == \A p \in Programs : at[p] = "providers" => Present(provs) \subseteq since[p]
LoadedAsIs == \A s \in Scans : at[s] = "loaded" =>
  \A n \in Names \ (ConfigNames \cup since[s]) : list[s][n] \in {NoRow, provs[n]}

SinceInv == UpToDate /\ LoadedAsIs

\* What StatusStands says of a step.
StatusKept ==
  \A n \in Names : provs[n] \notin {NoRow, provs'[n]} =>
    \/ at' = at
    \/ n \in ConfigNames
    \/ \E p \in Programs : /\ at'[p] # at[p]
                           /\ at[p] = "tested" \/ n \in since[p]

\* Rows one program writes are news to the others; the other rows stay.
LEMMA NewsToOthers ==
  ASSUME StoreTypeOK, SinceInv, NEW p \in Programs, NEW rows \in Tables,
         provs' = Upsert(provs, rows), Wrote(p, Present(rows)),
         \A q \in Programs : q # p => at'[q] = at[q],
         at'[p] \notin {"providers", "loaded"},
         \A t \in Scans : t # p => list'[t] = list[t]
  PROVE  SinceInv'
<1>1. \A q \in Programs : q # p => since'[q] = since[q] \cup Present(rows)
  BY DEF Wrote
<1>2. Present(provs') = Present(provs) \cup Present(rows)
  BY UpsertGrows DEF StoreTypeOK
<1>3. \A n \in Names \ Present(rows) : provs'[n] = provs[n]
  BY DEF Upsert, Present
<1>4. UpToDate'
  BY <1>1, <1>2 DEF SinceInv, UpToDate
<1>5. LoadedAsIs'
  BY <1>1, <1>3, ProgramsOf DEF SinceInv, LoadedAsIs
<1>6. QED BY <1>4, <1>5 DEF SinceInv

\* A program that looks starts afresh.
LEMMA SinceLooks ==
  ASSUME StoreTypeOK, SinceInv,
         \/ \E p \in Programs : Count(p)
         \/ \E s \in Scans : Load(s)
  PROVE  SinceInv' /\ StatusKept
<1>1. ASSUME NEW p \in Programs, Count(p)
      PROVE  SinceInv' /\ StatusKept
  <2>1. /\ provs' = provs /\ list' = list
        /\ \A q \in Programs : q # p => at'[q] = at[q] /\ since'[q] = since[q]
        /\ since'[p] = {}
    BY <1>1, Moved DEF Count, Looked, StoreTypeOK, Stages, Opening, Migrating, dbVars
  <2>2. at'[p] \in {"providers", "open"} /\ (at'[p] = "providers" => Present(provs) = {})
    <3>1. CASE ToMigrate
      BY <1>1, <3>1, Moved DEF Count, ToMigrate, StoreTypeOK, Stages, Opening, Migrating
    <3>2. CASE ~ToMigrate
      BY <1>1, <3>2, Moved DEF Count, StoreTypeOK, Stages
    <3>3. QED BY <3>1, <3>2
  <2>3. UpToDate' /\ LoadedAsIs' /\ StatusKept
    BY <2>1, <2>2, ProgramsOf DEF SinceInv, UpToDate, LoadedAsIs, StatusKept, Present
  <2>4. QED BY <2>3 DEF SinceInv
<1>2. ASSUME NEW s \in Scans, Load(s)
      PROVE  SinceInv' /\ StatusKept
  <2>1. /\ provs' = provs
        /\ \A q \in Programs : q # s => at'[q] = at[q] /\ since'[q] = since[q]
        /\ at'[s] = "loaded" /\ since'[s] = {}
        /\ \A t \in Scans : t # s => list'[t] = list[t]
    BY <1>2, Moved, ProgramsOf DEF Load, Looked, StoreTypeOK, Stages, dbVars
  <2>2. \A n \in Names \ ConfigNames : list'[s][n] \in {NoRow, provs[n]}
    BY <1>2 DEF Load, Merged, NoRows, StoreTypeOK
  <2>3. UpToDate' /\ LoadedAsIs' /\ StatusKept
    BY <2>1, <2>2, ProgramsOf DEF SinceInv, UpToDate, LoadedAsIs, StatusKept, Present
  <2>4. QED BY <2>3 DEF SinceInv
<1>3. QED BY <1>1, <1>2

\* A migration writes only over rows it has not seen.
LEMMA SinceMigrates ==
  ASSUME StoreTypeOK, SinceInv, NEW p \in Programs, MigrateProviders(p)
  PROVE  SinceInv' /\ StatusKept
<1>1. /\ at[p] = "providers" /\ at'[p] = "findings" /\ list' = list
      /\ \A q \in Programs : q # p => at'[q] = at[q]
      /\ provs' = Upsert(provs, legacy.rows) /\ Wrote(p, Present(legacy.rows))
  BY Moved DEF MigrateProviders, StoreTypeOK, Stages, Opening, Migrating
<1>2. SinceInv'
  BY <1>1, LegacyRows, NewsToOthers
<1>3. StatusKept
  BY <1>1 DEF SinceInv, UpToDate, StatusKept, Present
<1>4. QED BY <1>2, <1>3

\* A scan that did not verify writes back what it loaded.
LEMMA SinceSaves ==
  ASSUME StoreTypeOK, SinceInv, NEW s \in Scans, SaveProviders(s)
  PROVE  SinceInv' /\ StatusKept
<1>1. /\ at[s] \in {"loaded", "tested"} /\ at'[s] = "saved"
      /\ \A q \in Programs : q # s => at'[q] = at[q]
      /\ \A t \in Scans : t # s => list'[t] = list[t]
      /\ s \in Programs /\ list[s] \in Tables
  BY Moved, ProgramsOf DEF SaveProviders, Forget, StoreTypeOK, Stages
<1>0. \/ provs' = Upsert(provs, list[s]) /\ Wrote(s, Present(list[s]))
      \/ provs' = provs /\ since' = since
  BY DEF SaveProviders
<1>2. CASE provs' = Upsert(provs, list[s]) /\ Wrote(s, Present(list[s]))
  <2>1. SinceInv'
    BY <1>1, <1>2, NewsToOthers
  <2>2. \A n \in Names : provs'[n] # provs[n] => list[s][n] \notin {NoRow, provs[n]}
    BY <1>2 DEF Upsert
  <2>3. StatusKept
    BY <1>1, <2>2 DEF SinceInv, LoadedAsIs, StatusKept
  <2>4. QED BY <2>1, <2>3
<1>3. CASE provs' = provs /\ since' = since
  BY <1>1, <1>3, ProgramsOf DEF SinceInv, UpToDate, LoadedAsIs, StatusKept, Present
<1>4. QED BY <1>0, <1>2, <1>3

\* The server writes one row.
LEMMA SinceSets ==
  ASSUME StoreTypeOK, SinceInv, NEW n \in Names, NEW status \in Statuses, SetStatus(n, status)
  PROVE  SinceInv' /\ StatusKept
<1>1. /\ at[Server] = "open" /\ at' = at /\ list' = list /\ provs[n] # NoRow
      /\ \A m \in Names : m # n => provs'[m] = provs[m]
      /\ \A q \in Programs : q # Server => since'[q] = since[q] \cup {n}
      /\ Server \in Programs /\ Server \notin Scans
  BY StoreType, ProgramsOf DEF SetStatus, StoreTypeOK, Wrote, Tables
<1>2. Present(provs') \subseteq Present(provs)
  BY <1>1 DEF Present
<1>3. UpToDate' /\ LoadedAsIs' /\ StatusKept
  BY <1>1, <1>2, ProgramsOf DEF SinceInv, UpToDate, LoadedAsIs, StatusKept
<1>4. QED BY <1>3 DEF SinceInv

\* No step changes a status behind the back of the web or of a check.
LEMMA SinceStep ==
  ASSUME StoreTypeOK, SinceInv, [StoreNext]_storeVars
  PROVE  SinceInv' /\ StatusKept
<1>1. CASE Quiet
  BY <1>1, ProgramsOf DEF Quiet, SinceInv, UpToDate, LoadedAsIs, StatusKept, Present
<1>2. CASE \E p \in Programs : Count(p) \/ MigrateProviders(p)
  BY <1>2, SinceLooks, SinceMigrates
<1>3. CASE \E s \in Scans : Load(s) \/ SaveProviders(s)
  BY <1>3, SinceLooks, SinceSaves
<1>4. CASE \E n \in Names, status \in Statuses : SetStatus(n, status)
  BY <1>4, SinceSets
<1>5. QED BY <1>1, <1>2, <1>3, <1>4, QuietSteps

\* A status in the table changes only by a request from the web, by a scan that
\* verified, or because the config says so -- unless the row was written after
\* the program that changes it had last looked.
THEOREM StatusesStand == StoreSpec => StatusStands
<1>1. StoreInit => SinceInv
  BY ProgramsOf DEF StoreInit, SinceInv, UpToDate, LoadedAsIs
<1>2. StoreTypeOK /\ SinceInv /\ [StoreNext]_storeVars => SinceInv'
  BY SinceStep
<1>3. StoreTypeOK /\ SinceInv /\ [StoreNext]_storeVars =>
        [\A n \in Names : provs[n] \notin {NoRow, provs'[n]} =>
           \/ at' = at
           \/ n \in ConfigNames
           \/ \E p \in Programs : /\ at'[p] # at[p]
                                  /\ at[p] = "tested" \/ n \in since[p]]_storeVars
  BY SinceStep DEF StatusKept
<1>4. QED BY <1>1, <1>2, <1>3, StoreTypes, PTL DEF StoreSpec, StatusStands
=============================================================================
