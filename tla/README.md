# Free API Hunter: a TLA+ model

Free API Hunter finds free API providers on the web, has a person review what
it found, takes in API keys, validates them, and serves all of it over HTTP. A
second half of the repository uses those keys: web search behind rotating key
pools, and tasks handed to the Manus agent.

This directory holds TLA+ modules that model the parts of the program where
several processes share state, TLC configurations that check them on small
instances, and TLAPS proofs of the properties that matter most for every
instance. `PROJECT.json` lists components, runs, mutants, theorems, hazards and
the source lines behind every definition.

Contents

1. [The system](#1-the-system)
2. [Modules](#2-modules)
3. [The models and the code](#3-the-models-and-the-code)
4. [Runs, bounds and what they show](#4-runs-bounds-and-what-they-show)
5. [Fairness](#5-fairness)
6. [Proofs](#6-proofs)
7. [Where the code and its documentation disagree](#7-where-the-code-and-its-documentation-disagree)
8. [Not modelled](#8-not-modelled)
9. [What is left](#9-what-is-left)
10. [Running the checks](#10-running-the-checks)

## 1. The system

The programs are short-lived processes started by timers, by people or by
agents, plus one HTTP server. They share an SQLite database, JSON files under
`data/`, and a vault of key files. **There is no lock between processes**: what
keeps them apart is when they are started, and that a file is replaced by a
rename in some places (and only truncated and filled in others).

```
        scan (6 h)            notify (nightly)      triage-set / web      triage-apply (nightly)
  sources --> filter --> findings ---> bridge ---> pending_review.json <---> applier --> calendar
              verify     table           ^                                     |
                |                        +-------- rejected.json <-------------+
                v
            providers table <--- status set from the web
                |
  HTTP API: rate limit --> handlers --> scan endpoint --> background scan

  Yandex Disk --> keydrop --> vault, keys table, pending_validation.json
                                 ^        ^            |
                           validate-keys  +-- validate-pending --> Manus

  search-orchestrator --> key_pool.json <-- hourly healthcheck
```

### Components modelled

**Review pipeline** (`internal/notify/bridge.go`, `triage.go`).
State: the findings table, `pending_review.json` (the list the reviewer works
on), `rejected.json` (the denylist), calendar entries made by `yandex.sh`.
Operations: the bridge appends new findings (`hunter notify`, `scan --bridge`);
`triage-set` and `POST /findings/verdict` record a verdict; `triage-apply`
executes verdicts. They interact only through the two files, each read whole
and replaced whole. Hard: overlapping read-edit-replace cycles, an applier that
waits 31 s before each calendar call but the first, two files written one after the other, a
failing call in the middle, retries of the next night. Correct when no source
is listed twice, what is flagged as done is done, nothing is done that nobody
asked for, verdicts survive, and every verdict is executed in the end.

**Request limit** (`internal/api/middleware.go`, `RateLimitMiddleware`).
State: per address the time of the last accepted request and a count, one
mutex. The mutex is held *while the handler runs*, so it also serialises every
wrapped route. Hard: whether a moving start of the window still bounds each
window, and whether everybody gets through the one mutex. Correct when no window
sees more than the limit, and every request ends.

**Scan endpoint** (`internal/api/server.go`, `scanLimiter`).
State: the running scan, the time of the last start, the history of scans.
Operations: `POST` starts a scan in a goroutine or answers 409/429, `GET`
reports; the goroutine finishes or panics and recovers. Hard: the goroutine
changes the state the handler reads in several steps, once without the mutex.
Correct when one scan runs at a time, starts are spaced, a panic leaves the
limiter usable and does not forget the last start, and answers are true.

**Key intake** (`internal/keydrop`, `runValidatePending` of `cmd/hunter`,
`internal/validator`, `internal/vault`).
State: files on a Yandex Disk, the vault, the table `keys`,
`pending_validation.json`. Operations: `keydrop` mirrors the keys of a file into
the vault, probes, registers, queues what is not valid, deletes the file;
`validate-pending` works off the queue; `validate-keys` probes the vault. Hard:
any of a dozen calls may fail half-way, the queue is rewritten from a copy that
may be minutes old, and `os.WriteFile` truncates before it fills, the vault's files
as well as the queue. Correct when the queue names only registered keys and the
table only keys the vault holds, a file is deleted only when its keys are safe,
and no key is forgotten. Of this the code keeps a part; the properties say which.

**Database** (`internal/database`, `internal/storage`).
State: the tables of providers, findings, keys and scans; JSON files of older
versions, migrated when a program first opens the database. Operations: create
the tables, migrate, the whole-table saves of a scan, the status a person sets
through the server. They interact by SQLite alone, one statement or
transaction at a time. Hard: two programs open the database at once and both
migrate; the migration is three transactions behind one test
(`migrate_json.go:18`); a scan saves rows it loaded minutes earlier
(`storage/db.go:75`). Correct when a status is taken back only by who may do
so, a key is added once, and an opened database holds all of the legacy rows.

**Scan pipeline** (`cmd/hunter`, `internal/scraper`, `filter`, `verifier`,
`pollinations`, `tts`). One process: it asks the sources one after the other,
filters what they gave, loads and checks the providers, tests the Pollinations
models with ten workers, saves, and verifies the TTS sources with a pool of
keys. State: the findings and the two sets of what the filter has seen, the
channel and the lists of the workers, the entries of the pool with their
budgets. Hard: what one dropped finding does to a later good one
(`filter.go:185`), a worker pool that must neither lose nor repeat a model nor
wait for ever, a key that is in the pool twice (`tts/keypool.go:214`), a save
that fails in the middle. Correct when a finding is dropped only for its own
flaw or an earlier finding, each model is tested once, a key refused in its test
rests, and the scan ends.

**Search key pool** (`scripts/key_pool.py`, the key loops of
`search-orchestrator.sh`, `lab-search-gateway-addkey.sh`).
State: `key_pool.json` (per provider its keys, active, suspended or burnt),
`settings.yml` of SearXNG, `search-keys.yaml`. Operations: `next`, `suspend`,
`mark_burnt`, `recover`, `healthcheck`, `sync`, `init`, and adding keys. Every
command loads the whole pool and replaces it, through a temporary file all of
them share, without a lock. Hard: a healthcheck that probes for minutes between
its load and its save, two programs in one temporary file, a crash between the
pool and the files that follow it, an `add-key` that truncates `settings.yml` in
place and does not look at the pool. Correct when what a key was found to be
stands, engines get no resting key, and a key whose quota returns is active again.

### Components not modelled

| Component | State | Why it is left out |
|---|---|---|
| OCR, OpenRouter exchange, Cloudflare accounts | none that outlives a call, or one cache row replaced whole | probes and scoring in one goroutine; the Cloudflare pool with its budgets is called by tests only |
| alerter, printer, securego, models, config | none | formatting, pure checks, record types |
| other API handlers, health, metrics, auth, CORS | none | they read; the two that write are in `Store` and `Triage` |
| outcome statistics, cache and grounding gate of the orchestrator | a file of counts, a cache | scores are floats over answers of services; hazard `search-orchestrator.sh:497` |
| research post-processing, bridge store | a file per call | merging and scoring, a gate before a write |
| Aion and SearXNG pools | an index and cooldowns in memory | nothing is promised of the order of keys |
| Manus outsourcing | accounts, bucket and tasks in Redis | most of its outcomes are decided by the service; hazards at `account_manager.py:105`, `task_manager.py:67`, `dispatch_direct.py:65`, `webhook_handler.py:195` |
| web frontend, reports, deployment | a page; none | rendering; timers, from which the models take what runs and when |

## 2. Modules

| Module | What it is | Extends |
|---|---|---|
| `ReviewQueue` | what the review pipeline promises: offered, judged, denied, synced | – |
| `Triage` | the review pipeline, step by step; implements `ReviewQueue` | – |
| `MCTriage` | instances of `Triage` for TLC | `Triage` |
| `TriageProofs` | what holds of `Triage` however programs overlap | `Triage` |
| `TriageSerialProofs` | what holds when they do not, and the refinement | `TriageProofs` |
| `RateLimit` | the request limit; also the abstract specification of `ScanJobs` | – |
| `MCRateLimit`, `RateLimitProofs` | instances, proofs | `RateLimit` |
| `ScanJobs` | the scan endpoint behind the request limit | `RateLimit` |
| `MCScanJobs`, `ScanJobsProofs` | instances, proofs | `ScanJobs`, `RateLimitProofs` |
| `KeyIntake` | `keydrop`, `validate-pending`, `validate-keys` | – |
| `MCKeyIntake`, `KeyIntakeProofs` | instances, proofs | `KeyIntake` |
| `Store` | the database: opening, migrating, the writes of scans and server; also the abstract specification of `Pipeline` | – |
| `MCStore`, `StoreProofs` | instances, proofs | `Store` |
| `Scraper` | the sources and what each kind can find | – |
| `Filter` | the one pass of the filter over the findings | `Scraper` |
| `ModelTests` | the workers that test the Pollinations models | – |
| `SpeechKeys` | the pool of TTS keys and its verification | – |
| `Pipeline` | one scan in full, beside the server | `Store`, `Filter`, `ModelTests`, `SpeechKeys` |
| `MCPipeline`, `PipelineProofs` | instances, proofs | `Pipeline`, `StoreProofs` |
| `KeyBook` | what the commands of the search-key pool promise together: a book of statuses and the engines that follow it | – |
| `SearchKeys` | the pool of search keys, its commands and its searches; implements `KeyBook` | – |
| `MCSearchKeys`, `SearchKeysProofs` | instances, proofs | `SearchKeys` |

An MC module only gives constants their values. Operators whose comment starts
with *Mutant:* are not part of a specification: each is a plausible bug, and
shows that a property would notice it. `ScanJobs` composes two components: its
actions conjoin those of `RateLimit` with what the handler and the limiter of
scans do in the same step. `Pipeline` composes five: what `Store` leaves open
(which findings, which status) its other parts work out, and every step of it
is a step of `Store` or leaves the database alone.

## 3. The models and the code

One action is one access to shared state: a read of a file, a rename, a
transaction, a critical section of a mutex, a call to another service. What a
program does in its own memory in between belongs to the action before or after
it. A program that dies loses its memory (`Crash`, `Exit`).

### Triage

| Code | Model |
|---|---|
| row of `findings` that is no duplicate | `findings` |
| `pending_review.json` | `pending`, a sequence of `Item` |
| `rejected.json` | `rejected` |
| calls of `yandex.sh` that created something | `yandex`; the UID is the position |
| locals of a run: items, denylist, loop index, `createdLinks`, `changed` | `view`, `deny`, `at`, `created`, `dirty` |
| `ComputeBridge`, `BridgePendingReview` | `BridgeLoad`, `BridgeReadDenylist`, `BridgeNothingNew`, `BridgeAppend`, `BridgeWrite` |
| `TriageSet` | `SetLoad` (load, find, edit), `SetWrite` |
| `TriageApply` | `ApplyLoad`, `ApplyReadDenylist`, per item `ApplySkip`, `ApplyReject`, `ApplyDedup`, `ApplyTask` and `ApplyEvent`, then `ApplySaveDenylist`, `ApplySavePending` |
| an error of `yandex.sh`, before or after the entry exists | `YandexFails` |

Abstracted: title, snippet, priority and dates of an item; the verdicts that
behave alike are one verdict; `extractLink` is the constant function `LinkOf`;
dry runs write nothing and are left out. The query that reads new findings is
ordered by quality, which any order covers (`Orders`). `yandex.sh` is not part
of the repository: what it does is modelled from the two outcomes the code tells
apart.

`Overlap` is the deployment's choice (`MayStart`, external: nothing in the code
keeps two programs apart). With `TRUE` programs run whenever they like; with
`FALSE` one program runs at a time, as when the nightly units follow one another
and the reviewer works by day. The history variable `since` holds, per running
program, the sources whose entries have changed, or are new, in the file since it
loaded it: its copy of those is out of date.

### RateLimit and ScanJobs

`counts[ip]` is the pair kept in `requestCounts`; a count of 0 is an address
without an entry. `Standing` is the condition that restarts the count. `lock` is
the mutex, taken by `Enter` and `Refuse` and, since the unlock is deferred,
released by `Leave` whatever the handler does. Time is a counter, read after the
mutex is taken, as in the code.

In `ScanJobs`, `runs` is the `sync.Map` of scans, `current` the pointer in the
limiter (an index of `runs`, 0 for nil), `working` the goroutines that have not
ended. `Start`, `TurnAway`, `ReadState`, `ReadNext`, `Finish` and `Panic` are one
critical section of the limiter's mutex each. `ReadCurrent` and `ReadStatus` are
the unlocked reads of `handleScan`: the compiled condition may load the pointer
once or twice, so the second read may find nil after a reset, and the handler
then panics; both outcomes are in the model. The verdict on time is asymmetric in
the code (`tryStart` accepts at exactly the gap, `nextAvailable` still offers a
time then), and so it is here (`GapOver`, `NoneToWaitFor`).

### KeyIntake

| Code | Model |
|---|---|
| files of the Disk directory | `disk` |
| `api.key`, `api.key.1`, ... of a provider | `vault[<<provider, i>>]` |
| row of `keys` | `table[place]`, its `live_status`: `valid`, or `bad` for all others |
| a file of the vault that is truncated, or a mixture of two keys | `vault[place] = Broken` |
| `pending_validation.json`, truncated but not filled | `queue`, `torn` |
| `keydrop.Run` | `DropList`, per file `DropGet` or `DropSkip`, per key `DropWrite` (open and truncate), `DropStore` (fill), `DropJudge`, `DropRegister`, `DropReadQueue`, `DropTruncate`, `DropFill`, then `DropDelete`; `GiveUp` is the `continue` after any error |
| `runValidatePending` | `AgentLoad`, per entry `AgentProbe`, `AgentAsk`, `AgentPass`, `AgentSettle`, `AgentFail`, then `AgentTruncate`, `AgentFill` |
| `validator.Run` | `ValidatorProbe`, `ValidatorRegister` per key |

`ParseMarkdown` is abstracted to what it finds: a provider and a list of keys
per file (`ProvOf`, `KeysOf`), possibly empty. A probe yields `valid` only for a
provider with a known endpoint and a secret that works, and may fail to be
`valid` at any time. `--keep` is a run whose deletions all fail.

Every `os.WriteFile` is two steps, and either may fail or be the last of a program
that dies. A failing write of the vault gives the key up with a line in the log
and leaves the file `Broken` if it was truncated; a failing write of the queue
does the same to the queue (`Abandon`), in `keydrop` and at the end of
`validate-pending` alike. Two programs in one file may leave a mixture. Three
history variables serve the properties: `cut`, the keys whose writing ended with
the file `Broken`; `lost`, what was in the queue when a write of it was cut
short; `disturbed`, two of the programs that write the queue overlapped.

### Store

| Code | Model |
|---|---|
| tables `providers`, `findings`, `api_keys`, `scan_history` | `provs` (the status in each row), `finds`, `keyRows`, `history` |
| `providers.json`, `findings.json`, `key_pool.json` of older versions | `legacy`: absent, not parseable, or rows |
| `database.Init` | `Start`, `CreateTable`, `Created`, `Count`, `MigrateProviders`, `MigrateFindings`, `MigrateKeys`; `CannotParse`, `InitFails` |
| `loadAllConfig`, `loadInitialProviders` | `NoSources`, `Load` |
| `verifyProviders`, `runPollinationsPipeline` | `CheckProviders`, `AddPollinations` |
| `saveResults`, `-dry-run` | `SaveProviders`, `SaveFindings`, `SaveHistory`, `DryRun` |
| `POST` of a provider status | `SetStatus` |

A transaction is one step: SQLite takes one writer at a time. Of a provider only
the status is kept, since no other column decides anything in a scan. When
`Init` fails a scan ends; the server logs it and goes on. Three history variables
serve the properties: `since[p]`, the rows written by others since `p` looked;
`met`, a program opened the database while another migrated; `cutShort`, an
opening failed or was killed.

### Pipeline and its parts

| Code | Model |
|---|---|
| `RunScraper` and the scrapers per kind | `ReadConfigs`, `Found`, `NextFeed`, `Yields` |
| `FilterFindings`, `applyFilters` | `ApplyFilters`, `Verdict`, `FilterAll` |
| `VerifyProviderPage` | `Pages`, `StatusOf` |
| `TestAllModels` | `BeginModels`, `Fetch` or `FetchFails`, `Push`, `Close`, per worker `Take`, `Answers`, `Note`, `Ends`, then `Collect` |
| `NewKeyPool`, `runTTSPipeline`, `VerifyTTSKey` | `ReadConfig`, `LoadSource`, per source `NextKey` or `NoKey`, `NoSubscription`, `SubscriptionRefused` or `Subscribed`, `TestEnds` or `TestRefused`, `ReportUsage` |

A finding is its title, its URL and the first flaw a filter would see in it,
early (before the URL is looked up) or late (after). Which posts, lines and hits
there are is open; what *kind* of source can give which title and URL is not:
all mentions of a web page share both. An entry of the API's list of models is
a place, so a model listed twice is two. The pool of TTS keys keeps order and
duplicates, because both decide which key comes next. Data of a stage is
dropped when the stage is over, as the garbage it then is.

### SearchKeys

| Code | Model |
|---|---|
| `key_pool.json`, `key_pool.json.tmp` | `pool`, `tmp`: whole, empty, torn or absent |
| the file a program has open | `where`: the temporary one, the pool (renamed under it by another), `settings.yml`, gone |
| the engine of each provider in `settings.yml`: whether it is there, with a line `api_keys:` or without, its keys, `disabled` | `settings`; `NoEngines` is a file nothing can be made of |
| `search-keys.yaml` | `dumped`: whether `key_pool.py` has written it |
| `load_pool` with the edit of a command | `NextKey`, `Suspend`, `Check`, `MarkBurnt`, `Recover`, `Sync`, `Init` |
| `save_pool` | `Open`, `Fill`, `Replace`, `CannotReplace` |
| `sync_consumers` | per provider `SyncRead`, then `SyncSettings` or, when programs cross, `SyncCrossed`, and `SyncSearchKeys` |
| `get_next_key`, `search_tavily` and its siblings, `key_pool_rotate` | `NextKey` or `NoNextKey`, `Fallback`, `Ask`, `Suspend`, `AfterNext`, `Again` |
| `lab-search-gateway-addkey.sh` | `ReadEngines`, `TruncateEngines`, `AddKeys` |

The order of the keys and the index of the next one are left out: any active
key may be given. Probes belong to the load before them, since nothing is read
after. What a search takes for a key when there is none (a line of the log, or
an empty string) is the `Junk` of its provider, and is a key like any other once
it has been suspended.

`settings.yml` is replaced through a temporary file, which all programs share, too.
While nobody else is at it that is one step (`SyncSettings`); a program that
finds the text changed since it read it, or another about to write, may end with
the text of either, with a file nothing can be made of, or with an exception
(`SyncCrossed`). It is written only if its text changes. A sync gives an engine
keys only if it has a line `api_keys:` (`key_pool.py:345`), and disables one without
keys but never enables any. `add-key` truncates the file itself and fills it,
with whatever keys it is given, and does not ask the pool.

`KeyBook` is the same pool without files, copies and crashes. In the refinement
the book is `pool.keys`; a command's one step on it is the rename of the
temporary file (`Turn`), one write of `settings.yml` brings one engine in line
(`Follow`) or gives it new keys (`Add`), an `add-key` that dies in the middle of
writing takes all engines away (`Wipe`; while it writes, the engines of the book
are those it has read), and every other step stutters. What a
command may make of the book (`Turns`) is said there by what it is for, and
the set `due` holds the providers whose engines have still to follow, which is
what a crash between the two files leaves behind. Once two commands have overlapped
the book promises nothing more.

## 4. Runs, bounds and what they show

Every property of a passing run has a mutant in `PROJECT.json`: a plausible bug
in one definition under which the same run finds the property violated. The
bounds are large enough for every one of those bugs to show.

### TriageOverlap (2.4 million states)

*A bridge, a reviewer and an applier overlap freely, one of them may die or meet
a failing calendar.* Two sources that share a link, so that the dedup of one run
matters; one program of each kind, because a race needs two and all pairs of
different kinds are there (the proofs cover several of a kind); one abort; at most four calendar entries, enough for two
attempts; at most two different verdicts, enough for a change of mind or for
one verdict on each source. Sources are symmetric. It shows what nothing but
the order of reads and writes guarantees:

- `UniqueSources`: no source is listed twice;
- `MarkedIsDenied`: what is flagged as rejected is on the denylist, also in the
  moment between the two writes and after a crash there;
- `SyncedIsBacked`: what is flagged as synced has a task and an event that
  exist and are for its link, the shared ones included;
- `OnlyWhatWasSaid`: verdicts, denials and calendar entries all answer a verdict
  that a reviewer was told had been recorded;
- `DenylistGrows`: with one applier, no denial is lost;
- `OnlyOldCopiesUndo`: who replaces the list leaves every entry at its place, with
  its flags and its verdict, but for the verdict it was asked to record and for
  entries another program has written since it loaded the file. So an overlap
  costs what was written during it, and nothing else.

### TriageSerial (37 thousand states)

*The same programs one at a time, with a crash and failing calendar calls.* Each
source has its own link; eight calendar entries, so that the bound on
entries never stops an applier that still has work and one abort to spend; three
different verdicts. No symmetry, because liveness is checked. It shows that
without overlaps the pipeline implements `ReviewQueue` (`ImplementsQueue`), the
last word of the reviewer stands (`LastWordStands`), a denied source never comes
back for review (`NeverReoffered`), failures leave at most one orphan task per link
each (`OrphansBounded`), and every verdict is executed (`VerdictsExecuted`).

### Scan (58 thousand states)

*Two clients behind one address and its limit; scans that take up to 2 while
starts need be only 1 apart; one panic; clock to 3.* So a scan may outlast the
gap, finish early, panic before or after the gap, and there is time for a second
start after each. Window 1 and limit 2: within the clock a count is restarted by
a pause, renewed without one, and refused. `OneScan`, `StartsApart` and
`TurnedAwaySoonAfterStart` are the limiter's promises to clients, `OfferKept`
says that a status that shows nothing to wait for is true, although it is
composed of two critical sections (the request limit's mutex makes it so).
`WindowBound` is stronger than what the code says of itself: **wherever** a window
is laid, not more than the limit get through. `EveryRequestEnds` is about the
mutex held through the handler, panics of the handler included.

### KeyOverlap (2.4 million states)

*Two keydrops and a validator overlap freely, with two crashes or failing calls.*
Two files of one provider, so that one may be written over the other, by the
same keydrop or by two at once, in one file of the vault; two faults, so that one
key can be cut short and the next, or the same one done again, too. The keydrops
are symmetric. What stays true of vault, table, queue and Disk although nothing
is locked:

- `RegistryOrder`: the queue names only keys of the table, and each of these has a
  file in the vault, with a whole key unless one is being written there, or the
  writing was cut short;
- `DeletedUnlessOverwritten`: a key of a deleted file is in the vault, unless an
  error was logged for it, or a later dropping has written its own key there, or
  begun to and not ended. A failure or a crash while it is written costs the
  key only in these cases: otherwise the file is still on the Disk.

Both are proved for any number of programs, files and faults, `validate-pending`
included.

### KeyIntake (0.17 million states)

*One keydrop and one agent, under fairness, with one crash or failing call.* A
file with two keys of a provider that can be probed, and one with a key of an
unknown provider that needs Manus: between them every branch of both loops.
`NothingForgotten` is the promise that needs the two programs to keep apart:
`disturbed` records that they overlapped, and after that nothing is promised,
because the code then does lose entries. It loses them without an overlap, too,
when writing the queue fails or dies after truncating it; the property names
these (`lost`) and says that nothing else is forgotten. `DropsTaken` and
`QueueServed` are the liveness of the two loops, dry runs and failures included.

### Store (2.3 million states)

*Two scans and the server open the database and write it; one failing statement,
one crash, one status set from the web.* Two scans because a race of migrations
needs two; one provider the config knows and one it does not (the one
every verifying scan adds), since the config decides about the first; five
combinations of legacy files, each taking another way through the migration.
The scans are symmetric.

- `StatusStands`: a status changes by a request from the web, by a scan that
  verified, by the config, or by a program for which the row is newer than its
  look at it; in particular no migration takes a status back;
- `KeysOnce`, `FoundStays`: while programs open the database one at a time and
  the legacy list is not empty, no key comes twice and no finding of a scan is
  replaced by a legacy one, whatever fails or is killed;
- `OpenedIsWhole`: whoever has opened the database while nobody migrates finds all
  of the legacy rows there, if there is a legacy list of providers and no opening
  failed or was killed.

Each condition is needed: dropping it, TLC finds a run of the code that breaks
the property. The crash and the fault are one each because the conditions
already say what a second would do.

### Pipeline (0.7 million states)

*One scan from its config to the TTS keys, beside the server, under fairness.*
Up to two findings that share a URL (two are what it takes for one to hide the
other), from sources of every kind, with every combination of flaws; four
models, of which two are to be tested, and two workers; four configurations of
TTS sources with keys that are listed twice, shared, spent and refused; one fault,
one crash. `FirstDecides` gives the filter's answer by the findings alone,
without its sets. `EachModelOnce` is about the channel, the mutex and the wait.
`RestsOnceOut` says which refused or spent keys may come back: those in the pool
twice, and those refused at the subscription request alone, which the code does
not report. `ScanEnds` is the liveness of the whole: the workers, the wait, the loop
over the keys.

### SearchKeys (0.65 million states)

*One search or one command of a person beside the hourly healthchecks, over one
pool without a lock, with one crash, under fairness.* Two programs suffice for
every overlap of two saves, and the theorems cover any number. Two tries per
search, so that a rotation and its two spare requests happen. A provider that no
search asks, whose engine is disabled and has no line for keys, with a key that
`add-key` may give it; and one with a good key, a burnt one that was never a key,
and one that fails its probes, is in its engine and not in the pool yet.

- `PoolStands`: no key leaves the pool and none changes its status but by a
  command made for it, unless the copy saved is older than that status or
  two programs were in the temporary file at once;
- `EngineKeysRest`: while commands do not overlap, no command but `add-key` leaves a
  resting key in an engine once the program that found it so has come to it,
  crashes included; and at all times an engine without keys is disabled;
- `QuotaReturns`: a good key that a search suspended is active in the pool again,
  and in the list of its engine if that still has one, unless it is burnt by
  hand or two programs tear the pool. That is not yet a promise that SearXNG uses
  it: an engine that was disabled for want of keys stays disabled until a person
  enables it, and an `add-key` or two syncs that cross may have emptied
  `settings.yml`, which no command repairs;
- `ImplementsBook`: until two commands overlap, and wherever they are killed, pool
  and engines change as those of `KeyBook` do; in particular an engine that was
  disabled for want of keys, or by a person, stays disabled, and only an
  `add-key` that dies takes engines away.

### Violations

`TriageLostReview`, `LimitSteady`, `KeyLost` and `StoreRepeat` each check one
sentence of the code's own documentation, and TLC finds a behaviour that breaks
it: section 7.

## 5. Fairness

Safety is checked without fairness. Liveness assumes:

- **Triage** (`FairSpec`): `triage-apply` runs every night whether or not others
  come and go (strong fairness of `ApplyLoad`; the timer is named at
  `cmd/hunter/main.go:382`), and a started program is run to its end unless it
  dies (weak fairness of each program past its first step). Nothing is assumed of
  the reviewer, of new findings, of when the bridge is started or of the
  calendar; failures are bounded by `MaxAborts`.
- **ScanJobs** (`ScanFairness`): handlers end (weak fairness of `Handle` and
  `SLeave`), a waiter for the mutex gets it in the end (strong fairness of
  `SEnter` or `SRefuse`; Go's `sync.Mutex` hands the lock to a waiter that has
  waited longer than a millisecond), and a goroutine is scheduled (weak fairness
  of `Finish` or `Panic`).
- **KeyIntake** (`Fairness`): the timers of `keydrop` and `validate-pending`
  (every 15 minutes, `docs/ADR-KRV-pipeline.md:138` and `:169`) start the two
  programs over and over, and a program goes on while it does not die (weak
  fairness). `validate-pending` is now and then run without `--dry-run` (strong
  fairness): the timer's command line has no such option, a person's may.

- **Pipeline** (`FairSpec`): the scan's goroutine goes on, and so does each of its
  workers (weak fairness of `Main`, of opening the database once begun, and of
  `TestOne` per worker). Every request they wait for has a time-out (6 s in
  `pollinations`, 10 s in `verifier` and `tts`, 15 to 20 s in `scraper`). Nothing is
  assumed of the server or of when a scan starts.
- **SearchKeys** (`SearchFairness`): `kp-healthcheck.timer` starts a healthcheck
  every hour, and it runs to its end, since each probe has a time-out of 8 s (weak
  fairness of `Check` and of the steps of a checker). Of searches and people it is
  assumed only that a program that has read `settings.yml` goes on to write it or
  dies (weak fairness of `SyncSettings` or `SyncCrossed`): between the two it waits
  for nothing.

## 6. Proofs

TLAPS checks the following for every value of the constants that satisfies the
named assumptions. No bound of the runs limits them: any number of programs,
clients, sources, files, findings and keys, any history.

| Theorem | States | Assumptions |
|---|---|---|
| `TypesHold`, `SourcesStayUnique` | `Spec => []TypeOK`, `[]UniqueSources` of `Triage` | `UrlsFinite`, `LinkOfType`, `ProcsDisjoint` |
| `SyncedHaveEntries`, `NothingUnasked` | `[]SyncedIsBacked`, `[]OnlyWhatWasSaid` | the same |
| `MarksAreCovered`, `DenylistOnlyGrows` | `[]MarkedIsDenied`, `DenylistGrows` | the same, and `OneApplier` |
| `FreshCopiesUndoNothing` | `Spec => OnlyOldCopiesUndo` | the same as for `TypesHold` |
| `LastWordIsKept`, `DeniedIsSettled` | `[]LastWordStands`, `[]NeverReoffered` | the same, and `OneAtATime` |
| `TriageIsAQueue` | `Spec => ImplementsQueue`: the refinement of `ReviewQueue` | the same, and `OneAtATime` |
| `OrphansStayFew` | `[]OrphansBounded` | the same, and `OneAtATime` |
| `LimitTypes`, `WindowsHold` | `LimitSpec => []LimitTypeOK`, `[]WindowBound` | `LimitType` |
| `RefusalsExplained` | `LimitSpec => RefusedJustIfCrowded`: a request is refused exactly when the last `MaxRequests` accepted of its address form a chain without a pause longer than `Window`, up to now | the same |
| `ScanImplementsLimit`, `EndpointIsLimited` | `ScanSpec => LimitSpec`; so both statements hold behind the scan endpoint | the same |
| `OneScanAtATime`, `ScansStartApart` | `ScanSpec => []OneScan`, `[]StartsApart` | `LimitType`, `ScanType` |
| `ScanTypes`, `OffersAreKept`, `TurnedAwayOnlySoon` | `[]ScanTypeOK`, `[]OfferKept`, `TurnedAwaySoonAfterStart` | the same |
| `IntakeTypes`, `QueueTableVault`, `OnlyFilesOverwrite` | `Spec => []` of the invariants of `KeyOverlap`: `TypeOK`, `RegistryOrder`, `DeletedUnlessOverwritten` | `IntakeType`, `IntakeProcs` |
| `DeletionIsSafe` | for each key of a deleted file `os.WriteFile` returned without an error, or the key was given up with one | the same |
| `OneFileEachLosesNone` | `[]DeletedAreVaulted`: each such key is still there or was given up | the same, `OneFileEach` and `Solo` |
| `DebtsAreKept` | `[]NothingForgotten` | the same |
| `StoreTypes`, `KeysComeOnce`, `FindingsSurvive`, `OpeningMigrates`, `StatusesStand` | every property of the run `Store` | `StoreType` |
| `PipelineIsStore`, `DatabaseKept` | `Spec => StoreSpec` of `Pipeline`: what is proved of `Store` holds of the pipeline, under the conditions it has there | those of its parts |
| `PipelineTypes` | `[]PipelineTypeOK` | the same |
| `FirstOnesDecide`, `ModelsOnce`, `KeysRest` | `[]FirstDecides`, `[]EachModelOnce`, `RestsOnceOut` | the same |
| `SearchTypes`, `PoolStaysSound`, `EnginesRest` | `SearchSpec => []SearchTypeOK`, `PoolStands`, `[]EngineKeysRest` | `SearchType` |
| `PoolAlwaysWhole` | `[]PoolWhole`: until two programs use the temporary file at once the pool is a whole one, after a crash too | the same |
| `PoolIsABook` | `SearchSpec => ImplementsBook`: the refinement of `KeyBook` | the same |

`OneApplier` is not decoration. Two appliers that overlap (a manual run beside
the timer) each save the denylist they read plus their own additions, and the
second save drops what the first one added: `DenylistGrows` fails. What the
theorem says is that *bridges and setters* cannot do that, whatever their number
and however they interleave. `OneAtATime` (`Overlap` is `FALSE`) is the deployment
of section 3; without it `LastWordStands` fails as in `TriageLostReview`.
`OneFileEach` says that no two files on the Disk are of one provider, and `Solo`
that one keydrop runs at a time; without the first `NothingLost` fails as in
`KeyLost`, without the second two keydrops over one file may leave a mixture in
the vault and delete the file.

### Why the invariants are inductive

*Types of `Triage`* (`TypeInv`). `TypeOK` lets an applier stand one past the end
of its list, as it does when its loop is over. One that is about to create an
event must be inside the list, and a setter about to write must have a ruling;
the strengthening adds these two facts.

*Unique sources* (`DistinctInv`). A program may write the list it holds at any
later time, so the property has to hold of every copy in memory as well as of
the file. The one step that could break it is `BridgeAppend`: it adds only
sources missing from **its own copy**, which is what it then writes.

*Marks are covered* (`DenyInv`). A flag set in memory is covered by the
applier's own denylist until `ApplySaveDenylist` makes that the file; a flag read
from a file is covered by the file. So: every marked item of any copy is covered
by `rejected` or by the denylist of the program that holds the copy, and an
applier at work holds a superset of `rejected`, which is where `OneApplier` is
needed. That `rejected` only grows is part of the same step.

*Copies* (`CopyInv`). What a running program has of an entry nobody has changed
since it loaded the file is the entry, at its place, with its own edits
(`HasEntries`): a bridge has only appended, a setter has made one edit, an applier
has set flags. An exit that replaced the file puts the entries that changed into
`since` of all who run, so nothing is claimed of those. The UIDs of an entry that is
synced are not touched, which needs that an applier about to create an event
is at an item that is not (`StillOwed`).

*Records* (`RecordInv`). The calendar and the set of what reviewers said only
grow, so what was true of an item when a copy was read is true when it is
written. The links an applier remembers of its own run (`created`) point to
entries of the calendar, which is what a deduplicated item takes over.

*One at a time* (`SerialInv`). Of the one program that runs, its copy differs
from the file by what it is for: a bridge has appended items nobody judged
(`Adds`), a setter has changed one item to the verdict it was asked for
(`Speaks`), an applier has changed no verdict (`Works`). The refinement follows:
only the writes of the two files are steps of `ReviewQueue` (`Deny` for the
denylist; `Offer`, `Judge` or `Sync` for the list), all others stutter, and a crash
between two writes leaves a state the queue has too.

*Orphan tasks* (`TaskInv`). An item of the file that is not synced has no task.
A task in an applier's copy is the file's, or the one this run made for the link,
and what a run has made for a link it uses again for its next item. So among the
tasks of one link at most one is known to the applier's memory alone, and a run
that ends without saving loses that one while `aborts` grows by one
(`LosesOne`); every other step keeps whatever refers to a task (`KeepsHold`).

*Windows* (`LimitInv`, `Fits`). The count says how many requests came since the
last pause, the property speaks of the whole history. `Fits` ties the two: every
request before the last `count` ones is more than `Window` older than the first
of those. For the refusals the converse is needed: the requests the count speaks
of follow each other within `Window` (`ChainInv`), so a full count is a chain of
`MaxRequests`, and by `Fits` a chain that long fills the count (`CrowdedIsFull`).

*Scans* (`JobsOK`, `HandsOK`, `WorkOK`). The last start recorded in the history is
`lastScanAt`, also after a panic reset the pointer, and starts are ordered in
time, so the check against the last one bounds the distance to all. What a
client has read in the first critical section of a status is still true in the
second because only the holder of the request limit's mutex can start a scan
(`HandsOK`). `ScanStepLimits` shows that every step of `ScanJobs` is a step of
`RateLimit` or leaves its variables alone.

*Key intake* (`IInv`, `QueueInv`). What a program remembers stays true while others
run: an entry of an agent's copy was registered when it was read, and no step
unregisters anything (`Grows`: the vault, the table and the set of handled keys
never lose anything). On that rests what a dropper may rely on at each location
(`DropperOK`): the keys before the current one are handled, the current one has
a file in the vault from `store` on and is in the table from `append` on. `NothingForgotten`
needs in addition that a copy of the queue in memory is the queue (`Calm`) while
`disturbed` is false, and that a key is on the Disk, in hand or in the list until
it is settled, or is one of the `lost` (`Kept`). For the vault, what stands in a
file is the key of some dropping of its provider and number, or `Broken` by one of
them that is writing or was cut short (`Sourced`), and what has been written
once never is without a file (`MirroredHasFile`; together `VaultInv`). That gives
both `RegistryOrder` and, when there are several keydrops,
`DeletedUnlessOverwritten`. With a single one an invariant of its own is needed
(`SoloInv`): a dropper in the middle of a key still has its file on the Disk,
so whatever is `Broken` and not given up belongs to a file that will be done again.

*Database*. Rows are written and never removed (`Grown`). While programs do not
meet in a migration at most one migrates, and before its first copy there were
no providers, hence no keys and no findings of a scan (`KeysInv`, `FoundInv`):
that is why the single test of the table of providers protects the other two.
A migration that has copied a file finds its rows in the table ever after
(`WholeInv`). What a scan loaded is what the table holds, but for the rows of the
config and those written since (`SinceInv`). Most steps leave all of it alone;
`Calm` and `Quiet` say so once for all of them.

*Pipeline*. The two sets of the filter are functions of the findings filtered so
far (`EngineInv`), which turns its bookkeeping into `FirstDecides`. Every testable
entry is in exactly one place: still to be queued, in the channel, in one
worker's hand, or in one list (`OnePlace`, part of `ModelsInv`), and a worker ends
only when the channel is closed and empty. An entry of the TTS pool that is the only one
with its key knows all that happened to the key (`Informed`, part of `SpeechInv`).
`PipelineIsStore` needs only that what is kept are fingerprints (`KeptInv`). The
types need where the loops stand besides: a source is asked only after the config
was read (`FeedsTyped`), and a TTS source that is being verified is one of the
plan (`SpeechTyped`).

*Search keys* (`StandInv`, `EngineInv`). While two programs have not used the
temporary file at once it holds nothing, or what the one program in it has
written (`Alone`). Each copy in memory differs from the pool only where its command may
change it or where another has written since (`Track`); so the step that
replaces the pool changes nothing else. For the engines: while commands do not
overlap, the program inside one knows pool and engines as they are (`Knows`), and
a provider whose engine does not follow the pool yet is owed.

*The book* (`BookInv`). While commands do not overlap, a copy that is about to be
saved is a turn of the book as it stands (`Prepared`): it was one when it was
made, and no other command moves pool or engines while this one is inside. The
rename then makes it the book (`Alone` says that what is renamed is this copy).

### Only model-checked

Liveness (`VerdictsExecuted`, `EveryRequestEnds`, `DropsTaken`, `QueueServed`,
`ScanEnds`, `QuotaReturns`) stays with TLC, since the prover does not reason about
fairness. Every invariant, every action property and every refinement that a
passing run checks is a theorem.

## 7. Where the code and its documentation disagree

1. **A review can be undone** (`TriageLostReview`). `bridge.go:9-11` says the bridge
   never rewrites existing entries, so that `reviewed:true` is preserved across bridge
   runs. The bridge writes back the copy it loaded (`bridge.go:154`, `189`); a
   verdict recorded in between disappears although its author was told it was
   recorded. `LastWordStands` shows that not overlapping is enough to prevent it.
2. **A steady client is refused below the limit** (`LimitSteady`). The comments
   at `middleware.go:24` and `:38` speak of a bucket's start time and of 100
   requests per minute; the code stores the time of the *last* request
   (`middleware.go:66`), so the count starts again only after a pause longer
   than the window. `WindowBound` shows that the limit itself is kept, and
   `RefusalsExplained` that this is the only way to be refused.
3. **A key can be lost** (`KeyLost`). Where `keydrop` deletes a file it says that
   the key is in the vault (`keydrop.go:161`); a second file of the same provider
   writes its keys over those of the first (`keydrop.go:121`), and the first
   file has been deleted. `OnlyFilesOverwrite` shows that a key of a deleted file
   for which no error was logged is lost only to a later dropping at its place: one
   that writes its own key, or truncates the file and then fails or dies.
   `OneFileEachLosesNone` shows that with one file per provider and one keydrop at a
   time the comment is true, but for keys given up with an error.
4. **A migration is repeated** (`StoreRepeat`). The comment at `migrate_json.go:15`
   says that calling it many times is safe. Whether there is anything to do is
   asked of the table of providers alone (`:18`); with an empty list in
   `providers.json` every start adds the keys of `key_pool.json` once more (`:191`).

Met while modelling, without a run of their own. Where one concerns a modelled
step, the model does what the code does:

- `key_pool.py` logs to its standard output, so `next` without an active key
  prints a log line that `get_next_key` takes for a key; the fallback behind it is
  reached only when the call fails altogether (`NoNextKey`, `Fallback`).
- A network error of a probe burns a key (`key_pool.py:460`), while `:226` says that
  only a 401 or 403 does; the module's docstring (`:18`, `:30`) says that a 402 burns a
  key, the code suspends it.
- A search suspends a key when its answer contains "limit" or "402" anywhere, in
  the text of a result too (`Ask`).
- An engine disabled for want of keys is never enabled again (`SyncSettings`).
- `yaml.safe_dump` writes lists unindented, so the fallback finds no key after the
  first sync (`dumped`). Keys added by `add-key` are only in `settings.yml`: a sync
  before the next `init` drops them.
- `key_pool_healthcheck.sh` runs under `set -e` and the healthcheck exits with
  the number of its alerts, so SearXNG is not restarted just when keys were flagged.
- `checkLastScan` (`health.go:268`) watches a `providers.json` that nothing writes;
  the counter of API errors is never increased (`server.go:241`).
- The pool of TTS keys reads `char_limit` at the top level of a source, the
  config has it under `free_tier`; a key refused when its subscription is asked
  for is not reported, and no other key is tried (`SubscriptionRefused`), against
  the comment at `tts/verifier.go:49`. So such a key is given out again.
- `server.go:523` calls the index of an entry unstable between re-bridges, which is
  why the web names entries by source. `OnlyOldCopiesUndo` says when it is: a
  bridge appends behind all it has read, so an entry moves only when a program
  writes a copy older than the entry, which takes an overlap. Without one the
  index of `triage-set --index` is stable.
- `AppendPendingValidation` and the end of `validate-pending` write the queue in place
  and only log an error (`keydrop.go:153`, `main.go:516`): a full disk empties the
  queue with no crash and no overlap (`lost`).

## 8. Not modelled

*Data.* How text is parsed and formatted (markdown, JSON, HTML, YAML), scores and
money. Where a property depends on what a parser finds, a constant function gives
it; every such function is listed with the module it belongs to.

*Services.* Yandex Disk, `yandex.sh`, provider endpoints, search services and
Manus are modelled by the outcomes the code tells apart, including failures. What
they do afterwards is not. For that reason the Manus client, whose
tasks, events and balances are the service's, has no module of its own.

*Detail of modelled components.* Requests to one domain are spaced in the code;
the scraper of the model does not tell time. The image probe of
Pollinations, the OCR and Cloudflare checks and the alerts of `main` read and print.
A crash of the scan while it verifies TTS sources is left out: nothing it holds
there is saved. `SearchKeys` leaves out the order of keys; a torn
`search-keys.yaml`, which only the fallback reads; a `settings.yml` that is not
there, or has a provider's engine twice; the loop that skips the old list of keys
(`key_pool.py:337`), which takes a following `- name:` line for a key when the list
ends its block; what a sync cannot do with a line
`api_keys: null` or with the indentation a dump of `add-key` leaves; and files larger than
one buffer (8 KB), whose writing would be several steps.

*Without shared state.* `ocr`, `orex`, `alerter`, `output`, `securego`, the report
scripts and the web frontend keep no state that outlives a call, or are
formatting and network access; nothing in them depends on an order of events that a test
could not fix. `LoggingMiddleware` is wired to no route. The history of scans and the
table of addresses (`server.go:83`, `middleware.go:69`) grow without bound; the
constant for the first (`server.go:61`) is used nowhere, so there is nothing to check.

*Restarts of the HTTP server.* Nothing of the limiter or of the scan endpoint is
persisted, so every promise about them is a promise of one process. In `Store` the
server is restarted.

*Not called.* `cf.ChatWithPool`, `cf.NextForModel`, `cf.ResetDaily`, `Next` and
`Reload` of the TTS pool, `SaveKeyPool`, `LoadKeyPool` and `MergeOrexProviders` are
called by tests only.

Some hazards are known and have no property, because the code promises nothing
there (a verdict of the validator may be about a key replaced meanwhile). They
are listed with that reason.

## 9. What is left

Everything this project set out to model is there: the review pipeline, the
request limit and the scan endpoint, key intake, the database, the scan
pipeline, and the search keys, each with its runs and proofs. What could be
added, with what it would take:

- the outcome statistics of the orchestrator (`search-orchestrator.sh:79`, `:497`):
  counts read, edited and written in place by every search; a property needs a
  statement of what the score is for, which the code does not make;
- Manus: the token bucket and the task states over Redis, with the service as an
  adversary that sends events in any order;
- the round-robin pools of Aion and SearXNG, which would share the shape of
  `SpeechKeys` with parallel callers.

## 10. Running the checks

```
tlc -workers 2 -config TriageOverlap.cfg MCTriage
tlc -workers 2 -config TriageSerial.cfg MCTriage
tlc -workers 2 -config TriageLostReview.cfg MCTriage      # ends with a violation
tlc -workers 2 -config LimitSteady.cfg MCRateLimit        # ends with a violation
tlc -workers 2 -config Scan.cfg MCScanJobs
tlc -workers 2 -config KeyOverlap.cfg MCKeyIntake
tlc -workers 2 -config KeyIntake.cfg MCKeyIntake
tlc -workers 2 -config KeyLost.cfg MCKeyIntake            # ends with a violation
tlc -workers 2 -config Store.cfg MCStore
tlc -workers 2 -config StoreRepeat.cfg MCStore            # ends with a violation
tlc -workers 2 -config Pipeline.cfg MCPipeline
tlc -workers 2 -config SearchKeys.cfg MCSearchKeys
tlapm TriageProofs.tla      # up to four minutes each
tlapm TriageSerialProofs.tla
tlapm RateLimitProofs.tla
tlapm ScanJobsProofs.tla
tlapm KeyIntakeProofs.tla
tlapm StoreProofs.tla
tlapm PipelineProofs.tla
tlapm SearchKeysProofs.tla
```

`Store`, `StoreRepeat` and `Pipeline` turn deadlock checking off, because a scan is
run once there and the system really stops when it has ended. In the other models
a state with no successor would be a program that can never be started again.
