------------------------------ MODULE Pipeline ------------------------------
(***************************************************************************)
(* One run of the scan pipeline in full: main of cmd/hunter takes a scan   *)
(* of Store through its stages, and what Store leaves open is worked out   *)
(* here: which findings are kept (Scraper, Filter), which status a page    *)
(* gives its provider (internal/verifier), the tests of the Pollinations   *)
(* models (ModelTests), and, after the results are saved, the TTS sources  *)
(* (SpeechKeys).  The server goes on beside it.                            *)
(***************************************************************************)
EXTENDS Store, Filter, ModelTests, SpeechKeys

CONSTANT Hunter  \* the scan

ASSUME PipelineType == Scans = {Hunter} /\ Prints = Fingerprints

VARIABLES verify, \* -verify was given
          stage,  \* how far the findings are
          kept    \* the findings that passed the filter, until they are saved

Progress == {"config", "scrape", "filter", "after"}

findVars == <<scraperVars, engineVars>>
memVars == <<findVars, modelVars, stage, kept>>
pipeVars == <<storeVars, memVars, speechVars, verify>>

Init == /\ StoreInit /\ ScraperInit /\ EngineInit /\ ModelsInit /\ SpeechInit
        /\ verify \in BOOLEAN
        /\ stage = "config" /\ kept = {}

-----------------------------------------------------------------------------
(* verifier.VerifyProviderPage, and what verifyProviders makes of it.      *)

\* HEAD finds the page; GET reads it; it speaks of a free tier; it asks for a
\* card and nowhere says that none is needed.
Pages == [alive : BOOLEAN, read : BOOLEAN, free : BOOLEAN, card : BOOLEAN]

\* A page that is there but cannot be read counts as one that promises nothing.
StatusOf(page) == IF ~page.alive THEN "expired"
                  ELSE IF page.read /\ page.free /\ ~page.card THEN "confirmed"
                  ELSE "claimed"

PageStatuses == {StatusOf(page) : page \in Pages} \cap Checked

-----------------------------------------------------------------------------
(* The stages, in the order of main.                                       *)

Here == at[Hunter]
StoreOnly == UNCHANGED <<memVars, speechVars, verify>>

ReadConfigs == /\ Here = "open" /\ stage = "config"
               /\ ReadSources
               /\ stage' = "scrape"
               /\ UNCHANGED <<storeVars, engineVars, modelVars, speechVars, verify, kept>>

\* loadAllConfig fails.
NoConfigs == /\ stage = "config"
             /\ NoSources(Hunter)
             /\ StoreOnly

Scrape == /\ Here = "open" /\ stage = "scrape"
          /\ NextFeed \/ \E f \in Findings : Found(f)
          /\ UNCHANGED <<storeVars, engineVars, modelVars, speechVars, verify, stage, kept>>

Scraped == /\ Here = "open" /\ stage = "scrape" /\ ~Asking
           /\ stage' = "filter"
           /\ UNCHANGED <<storeVars, findVars, modelVars, speechVars, verify, kept>>

FilterOne == /\ Here = "open" /\ stage = "filter"
             /\ ApplyFilters
             /\ UNCHANGED <<storeVars, modelVars, speechVars, verify, stage, kept>>

ForgetFindings == /\ feeds' = << >> /\ feed' = 1 /\ raw' = << >>
                  /\ reason' = << >> /\ seenPrints' = {} /\ seenURLs' = {}

\* FilterFindings returns.
FilterAll == /\ Here = "open" /\ stage = "filter" /\ Filtered
             /\ kept' = Kept
             /\ stage' = "after"
             /\ ForgetFindings
             /\ UNCHANGED <<storeVars, modelVars, speechVars, verify>>

LoadAll == stage = "after" /\ Load(Hunter) /\ StoreOnly

CheckAll == /\ verify
            /\ \E new \in [Present(list[Hunter]) -> PageStatuses] :
                 CheckProviders(Hunter, new)
            /\ StoreOnly

\* runPollinationsPipeline, up to the tests and after them.
TestModels == /\ Here = "checked"
              /\ \/ BeginModels \/ FetchFails \/ Close \/ Collect
                 \/ \E entries \in SUBSET Entries : Fetch(entries)
                 \/ \E e \in Entries : Push(e)
              /\ UNCHANGED <<storeVars, findVars, speechVars, verify, stage, kept>>

TestOne(w) == /\ Here = "checked"
              /\ Test(w)
              /\ UNCHANGED <<storeVars, findVars, speechVars, verify, stage, kept>>

ModelsTested == /\ phase = "known"
                /\ AddPollinations(Hunter)
                /\ ForgetModels
                /\ UNCHANGED <<findVars, speechVars, verify, stage, kept>>

Ready == verify => Here = "tested"

Save == /\ \/ Ready /\ SaveProviders(Hunter) /\ UNCHANGED kept
           \/ SaveFindings(Hunter, kept) /\ kept' = {}
           \/ SaveHistory(Hunter) /\ UNCHANGED kept
           \/ Ready /\ DryRun(Hunter) /\ kept' = {}
        /\ UNCHANGED <<findVars, modelVars, stage, speechVars, verify>>

\* runTTSPipeline.
Speaks == /\ verify /\ Here = "done"
          /\ Speak
          /\ UNCHANGED <<storeVars, memVars, verify>>

Main == \/ ReadConfigs \/ NoConfigs \/ Scrape \/ Scraped \/ FilterOne \/ FilterAll
        \/ LoadAll \/ CheckAll \/ TestModels \/ ModelsTested \/ Save \/ Speaks

-----------------------------------------------------------------------------
(* The other programs, and crashes.                                        *)

Opens(p) == Open(p) /\ StoreOnly

Sets == /\ \E n \in Names, status \in Statuses : SetStatus(n, status)
        /\ StoreOnly

\* With a scan goes what it had in memory.
Dies(p) ==
  /\ Crash(p)
  /\ IF p # Hunter THEN UNCHANGED memVars
     ELSE /\ ForgetFindings /\ ForgetModels
          /\ stage' = "config" /\ kept' = {}
  /\ UNCHANGED <<speechVars, verify>>

Next == \/ Main
        \/ \E w \in Workers : TestOne(w)
        \/ \E p \in Programs : Opens(p) \/ Dies(p)
        \/ Sets

Spec == Init /\ [][Next]_pipeVars

\* The scan takes its steps, and so does each of its workers: every request has
\* a time-out.
FairSpec == /\ Spec
            /\ WF_pipeVars(Main)
            /\ WF_pipeVars(Opens(Hunter) /\ Here # "off")
            /\ \A w \in Workers : WF_pipeVars(TestOne(w))

-----------------------------------------------------------------------------
(* Properties.                                                             *)

\* Every variable has its type.
PipelineTypeOK == /\ StoreTypeOK /\ ScraperTypeOK /\ EngineTypeOK
                  /\ ModelsTypeOK /\ SpeechTypeOK
                  /\ verify \in BOOLEAN
                  /\ stage \in Progress
                  /\ kept \subseteq Prints

\* A scan that was started ends, whatever fails on the way: the workers drain
\* the channel, the wait for them is over one day, and the pool of TTS keys runs
\* out of sources, if not of keys.
ScanEnds == Here = "creating" ~>
              Here = "dead" \/ (Here = "done" /\ (verify => call = "over"))
=============================================================================
