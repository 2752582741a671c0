------------------------------ MODULE KeyIntake ------------------------------
(***************************************************************************)
(* How an API key gets from a drop file to the registry: three programs    *)
(* that share the vault, the table "keys" and pending_validation.json.     *)
(*                                                                         *)
(*   dropper    hunter keydrop (internal/keydrop Run)                      *)
(*   agent      hunter validate-pending (cmd/hunter runValidatePending)    *)
(*   validator  hunter validate-keys (internal/validator Run)              *)
(*                                                                         *)
(* A person puts markdown files on a Yandex Disk.  The dropper copies the  *)
(* keys of each into the vault, probes and registers them, queues those    *)
(* that are not valid, and deletes the file.  The agent works off the      *)
(* queue, the validator probes whatever is in the vault.  Nothing is       *)
(* locked; os.WriteFile truncates and then fills, so a reader may find,    *)
(* and a crash or an error may leave, an empty file in the vault or an     *)
(* empty queue.                                                            *)
(***************************************************************************)
EXTENDS Naturals, Sequences, FiniteSets

CONSTANTS Files,       \* markdown files people drop
          Provs,       \* providers: directories of the vault
          Secrets,     \* the keys themselves
          ProvOf,      \* the provider ParseMarkdown finds in a file
          KeysOf,      \* the keys it finds, in order; possibly none
          Probeable,   \* providers whose endpoint is known
          Confirmed,   \* providers whose endpoint is marked verified
          Works,       \* secrets a probe can find valid
          Droppers, Agents, Validators,  \* the program instances
          None,        \* no file, no secret
          Broken,      \* a vault file without a whole key: empty, or a mixture
          MaxFaults    \* bound on crashes and failed calls

ASSUME IntakeType == /\ ProvOf \in [Files -> Provs]
                     /\ KeysOf \in [Files -> Seq(Secrets)]
                     /\ None \notin Secrets \cup Files \cup {"valid", "bad"}
                     /\ Broken \notin Secrets \cup Works \cup {None}
                     /\ MaxFaults \in Nat
ASSUME IntakeProcs == /\ Droppers \cap Agents = {}
                      /\ Droppers \cap Validators = {}
                      /\ Agents \cap Validators = {}

Procs == Droppers \cup Agents \cup Validators

\* A place in the vault, api.key, api.key.1, ... of a provider: its key_id.
Place(f, i) == <<ProvOf[f], i>>
PlacesOf(f) == {Place(f, i) : i \in DOMAIN KeysOf[f]}
Places      == UNION {PlacesOf(f) : f \in Files}

\* live_status: "bad" is expired, rate_limited or unknown.
Statuses == {"valid", "bad"}

\* What a program has in memory.
Memory == [at : {"idle", "file", "write", "store", "judge", "register", "append",
                 "trunc", "fill", "delete", "entry", "settle"},
           files : SUBSET Files,     \* a dropper's listing, what is left of it
           file : Files \cup {None}, \* the file it is at, the number of its key
           key : Nat,
           status : Statuses,        \* the verdict about to be registered
           copy : Seq(Places),       \* the queue as read, or what is left of it
           failed : Seq(Places),     \* an agent's entries to be kept
           dry : BOOLEAN,            \* its --dry-run
           place : Places \cup {None}]  \* the place a validator is at

Blank == [at |-> "idle", files |-> {}, file |-> None, key |-> 0, status |-> "bad",
          copy |-> << >>, failed |-> << >>, dry |-> FALSE, place |-> None]

VARIABLES
  disk,      \* the files on the Disk
  vault,     \* the secret at each place, Broken, or None
  table,     \* live_status of each registered place, or None
  queue,     \* pending_validation.json; while it is rewritten, what it held
  torn,      \* it has been truncated and not filled yet
  mem,       \* the memory of each program
  dropped,   \* history: files ever put on the Disk
  mirrored,  \* history: <<file, number>> of the keys os.WriteFile has written
  cut,       \* history: those whose writing ended with the file Broken
  givenUp,   \* history: those a dropper passed over after an error
  owed,      \* history: places a dropper found not valid, until an agent registers them
  lost,      \* history: places in the queue when a write of it was cut short
  disturbed, \* history: a dropper and an agent, or two of them, overlapped
  faults     \* number of crashes and failed calls

history == <<dropped, mirrored, cut, givenUp, owed, lost, disturbed>>
vars    == <<disk, vault, table, queue, torn, mem, history, faults>>

Init == /\ disk = {}
        /\ vault = [s \in Places |-> None]
        /\ table = [s \in Places |-> None]
        /\ queue = << >>
        /\ torn = FALSE
        /\ mem = [p \in Procs |-> Blank]
        /\ dropped = {} /\ mirrored = {} /\ cut = {} /\ givenUp = {}
        /\ owed = {} /\ lost = {}
        /\ disturbed = FALSE
        /\ faults = 0

-----------------------------------------------------------------------------
(* Helpers.                                                                *)

At(p, label) == mem[p].at = label
Goto(p, label) == mem' = [mem EXCEPT ![p].at = label]
Exit(p) == mem' = [mem EXCEPT ![p] = Blank]

Fault == faults < MaxFaults /\ faults' = faults + 1

\* Another dropper or agent is in the middle of a run.
Busy(p) == \E q \in (Droppers \cup Agents) \ {p} : ~At(q, "idle")

Begins(p) == /\ At(p, "idle")
             /\ disturbed' = (disturbed \/ Busy(p))

\* What probing a place yields: ValidateKey knows the endpoint and the key
\* works, or it is not found valid; the call may also just time out.
Probe(s) == {"bad"} \cup
            {v \in {"valid"} : s[1] \in Probeable /\ vault[s] \in Works}

\* Filling the truncated queue.  If another program has filled it meanwhile,
\* the end of its list may stay behind, and the file does not parse.
Fill(list) == /\ queue' = list
              /\ torn' \in {FALSE, ~torn}

\* The filling fails, or its program dies: unless another has filled the
\* queue meanwhile, it stays empty and what it held is gone.
Abandon == IF torn THEN /\ queue' = << >>
                        /\ lost' = lost \cup {queue[i] : i \in DOMAIN queue}
                   ELSE UNCHANGED <<queue, lost>>

Key(d)  == <<mem[d].file, mem[d].key>>
Secret(d) == KeysOf[mem[d].file][mem[d].key]
Here(d) == Place(mem[d].file, mem[d].key)

-----------------------------------------------------------------------------
(* A person drops a file.                                                  *)

Drop(f) == /\ f \notin dropped
           /\ disk' = disk \cup {f}
           /\ dropped' = dropped \cup {f}
           /\ UNCHANGED <<vault, table, queue, torn, mem, mirrored, cut, givenUp,
                          owed, lost, disturbed, faults>>

-----------------------------------------------------------------------------
(* keydrop.                                                                *)

DropList(d) == /\ Begins(d)
               /\ mem' = [mem EXCEPT ![d].at = "file", ![d].files = disk]
               /\ UNCHANGED <<disk, vault, table, queue, torn, dropped, mirrored, cut,
                              givenUp, owed, lost, faults>>

DropGet(d) ==
  /\ At(d, "file")
  /\ \E f \in mem[d].files :
       /\ f \in disk /\ KeysOf[f] # << >>
       /\ mem' = [mem EXCEPT ![d].at = "write", ![d].files = @ \ {f},
                             ![d].file = f, ![d].key = 1]
  /\ UNCHANGED <<disk, vault, table, queue, torn, history, faults>>

\* The file is gone, or has no keys and stays; or the download fails.
DropSkip(d) ==
  /\ At(d, "file")
  /\ \E f \in mem[d].files :
       /\ \/ (f \notin disk \/ KeysOf[f] = << >>) /\ UNCHANGED faults
          \/ Fault
       /\ mem' = [mem EXCEPT ![d].files = @ \ {f}]
  /\ UNCHANGED <<disk, vault, table, queue, torn, history>>

DropEnd(d) == /\ At(d, "file") /\ mem[d].files = {}
              /\ Exit(d)
              /\ UNCHANGED <<disk, vault, table, queue, torn, history, faults>>

\* Mutant: the loop runs once too often.
NextKey_Over(d) ==
  LET m == [mem[d] EXCEPT !.status = "bad", !.copy = << >>]
  IN mem' = [mem EXCEPT ![d] = IF m.key <= Len(KeysOf[m.file])
                               THEN [m EXCEPT !.at = "write", !.key = @ + 1]
                               ELSE [m EXCEPT !.at = "delete"]]

\* On to the next key of the file, or to the deletion.
NextKey(d) ==
  LET m == [mem[d] EXCEPT !.status = "bad", !.copy = << >>]
  IN mem' = [mem EXCEPT ![d] = IF m.key < Len(KeysOf[m.file])
                               THEN [m EXCEPT !.at = "write", !.key = @ + 1]
                               ELSE [m EXCEPT !.at = "delete"]]

\* Any failing call gives the key up, and the file is deleted all the same.
GiveUp(d) == /\ givenUp' = givenUp \cup {Key(d)}
             /\ NextKey(d)
             /\ Fault

\* Mutant: an error opening the file is logged, and the key goes on to be judged.
DropWrite_GoOn(d) ==
  /\ At(d, "write")
  /\ \/ /\ vault' = [vault EXCEPT ![Here(d)] = Broken]
        /\ Goto(d, "store")
        /\ UNCHANGED faults
     \/ Fault /\ Goto(d, "judge") /\ UNCHANGED vault
  /\ UNCHANGED <<disk, table, queue, torn, history>>

\* os.WriteFile of the key: it opens the file with truncation ...
DropWrite(d) ==
  /\ At(d, "write")
  /\ \/ /\ vault' = [vault EXCEPT ![Here(d)] = Broken]
        /\ Goto(d, "store")
        /\ UNCHANGED <<givenUp, faults>>
     \/ GiveUp(d) /\ UNCHANGED vault
  /\ UNCHANGED <<disk, table, queue, torn, dropped, mirrored, cut, owed, lost, disturbed>>

\* ... and fills it.  Over another dropper's key of another length the end of
\* that one stays behind, unnoticed.  A filling that fails leaves the file as
\* it is.
DropStore(d) ==
  /\ At(d, "store")
  /\ \/ /\ \/ vault' = [vault EXCEPT ![Here(d)] = Secret(d)] /\ UNCHANGED cut
           \/ /\ vault[Here(d)] \notin {Broken, Secret(d)}
              /\ vault' = [vault EXCEPT ![Here(d)] = Broken]
              /\ cut' = cut \cup {Key(d)}
        /\ mirrored' = mirrored \cup {Key(d)}
        /\ Goto(d, "judge")
        /\ UNCHANGED <<givenUp, faults>>
     \/ GiveUp(d) /\ cut' = cut \cup {Key(d)} /\ UNCHANGED <<vault, mirrored>>
  /\ UNCHANGED <<disk, table, queue, torn, dropped, owed, lost, disturbed>>

DropJudge(d) ==
  /\ At(d, "judge")
  /\ \E v \in Probe(Here(d)) :
       mem' = [mem EXCEPT ![d].at = "register", ![d].status = v]
  /\ UNCHANGED <<disk, vault, table, queue, torn, history, faults>>

\* Mutant: a key whose registration failed is queued like one not valid.
DropRegister_Queue(d) ==
  /\ At(d, "register")
  /\ \/ /\ table' = [table EXCEPT ![Here(d)] = mem[d].status]
        /\ IF mem[d].status = "valid"
             THEN NextKey(d) /\ owed' = owed \ {Here(d)}
             ELSE Goto(d, "append") /\ owed' = owed \cup {Here(d)}
        /\ UNCHANGED faults
     \/ Fault /\ Goto(d, "append") /\ UNCHANGED <<table, owed>>
  /\ UNCHANGED <<disk, vault, queue, torn, dropped, mirrored, cut, givenUp, lost,
                 disturbed>>

DropRegister(d) ==
  /\ At(d, "register")
  /\ \/ /\ table' = [table EXCEPT ![Here(d)] = mem[d].status]
        /\ IF mem[d].status = "valid"
             THEN NextKey(d) /\ owed' = owed \ {Here(d)}
             ELSE Goto(d, "append") /\ owed' = owed \cup {Here(d)}
        /\ UNCHANGED <<givenUp, faults>>
     \/ GiveUp(d) /\ UNCHANGED <<table, owed>>
  /\ UNCHANGED <<disk, vault, queue, torn, dropped, mirrored, cut, lost, disturbed>>

\* AppendPendingValidation: a file that does not parse counts as empty.
DropReadQueue(d) ==
  /\ At(d, "append")
  /\ mem' = [mem EXCEPT ![d].at = "trunc", ![d].copy = IF torn THEN << >> ELSE queue]
  /\ UNCHANGED <<disk, vault, table, queue, torn, history, faults>>

\* Rewriting the queue fails before it is truncated or after it: either way
\* Run logs the error and goes on.
DropTruncate(d) ==
  /\ At(d, "trunc")
  /\ \/ torn' = TRUE /\ Goto(d, "fill") /\ UNCHANGED <<givenUp, faults>>
     \/ GiveUp(d) /\ UNCHANGED torn
  /\ UNCHANGED <<disk, vault, table, queue, dropped, mirrored, cut, owed, lost, disturbed>>

DropFill(d) ==
  /\ At(d, "fill")
  /\ \/ /\ Fill(Append(mem[d].copy, Here(d)))
        /\ lost' = lost \ {Here(d)}
        /\ NextKey(d)
        /\ UNCHANGED <<givenUp, faults>>
     \/ GiveUp(d) /\ Abandon /\ UNCHANGED torn
  /\ UNCHANGED <<disk, vault, table, dropped, mirrored, cut, owed, disturbed>>

\* Mutant: the option --keep is read the wrong way round.
DropDelete_Keep(d) ==
  /\ At(d, "delete")
  /\ mem' = [mem EXCEPT ![d] = [Blank EXCEPT !.at = "file", !.files = mem[d].files]]
  /\ UNCHANGED <<disk, vault, table, queue, torn, history, faults>>

\* The deletion may fail; with --keep it is not tried.
DropDelete(d) ==
  /\ At(d, "delete")
  /\ \/ disk' = disk \ {mem[d].file} /\ UNCHANGED faults
     \/ Fault /\ UNCHANGED disk
  /\ mem' = [mem EXCEPT ![d] = [Blank EXCEPT !.at = "file", !.files = mem[d].files]]
  /\ UNCHANGED <<vault, table, queue, torn, history>>

Dropper(d) == \/ DropList(d) \/ DropGet(d) \/ DropSkip(d) \/ DropEnd(d)
              \/ DropWrite(d) \/ DropStore(d) \/ DropJudge(d) \/ DropRegister(d)
              \/ DropReadQueue(d) \/ DropTruncate(d) \/ DropFill(d) \/ DropDelete(d)

-----------------------------------------------------------------------------
(* validate-pending.                                                       *)

\* A queue that is empty or does not parse ends the run at once.
AgentLoad(a) ==
  /\ Begins(a)
  /\ ~torn /\ queue # << >>
  /\ \E b \in BOOLEAN :
       mem' = [mem EXCEPT ![a] = [Blank EXCEPT !.at = "entry", !.copy = queue, !.dry = b]]
  /\ UNCHANGED <<disk, vault, table, queue, torn, dropped, mirrored, cut, givenUp,
                 owed, lost, faults>>

Entry(a) == Head(mem[a].copy)
AtEntry(a) == At(a, "entry") /\ mem[a].copy # << >>

\* The entry is probed if its endpoint is marked verified, --dry-run or not.
AgentProbe(a) ==
  /\ AtEntry(a) /\ Entry(a)[1] \in Confirmed
  /\ \E v \in Probe(Entry(a)) :
       mem' = [mem EXCEPT ![a].at = "settle", ![a].status = v]
  /\ UNCHANGED <<disk, vault, table, queue, torn, history, faults>>

\* Otherwise Manus is asked for instructions, and the key is called valid.
AgentAsk(a) ==
  /\ AtEntry(a) /\ Entry(a)[1] \notin Confirmed /\ ~mem[a].dry
  /\ mem' = [mem EXCEPT ![a].at = "settle", ![a].status = "valid"]
  /\ UNCHANGED <<disk, vault, table, queue, torn, history, faults>>

AgentPass(a) ==
  /\ AtEntry(a) /\ Entry(a)[1] \notin Confirmed /\ mem[a].dry
  /\ mem' = [mem EXCEPT ![a].copy = Tail(@)]
  /\ UNCHANGED <<disk, vault, table, queue, torn, history, faults>>

AgentSettle(a) ==
  /\ At(a, "settle")
  /\ table' = [table EXCEPT ![Entry(a)] = mem[a].status]
  /\ owed' = owed \ {Entry(a)}
  /\ mem' = [mem EXCEPT ![a].at = "entry", ![a].copy = Tail(@), ![a].status = "bad"]
  /\ UNCHANGED <<disk, vault, queue, torn, dropped, mirrored, cut, givenUp, lost,
                 disturbed, faults>>

\* Manus fails or times out, or the registration fails: the entry is kept.
AgentFail(a) ==
  /\ \/ AtEntry(a) /\ Entry(a)[1] \notin Confirmed /\ ~mem[a].dry
     \/ At(a, "settle")
  /\ Fault
  /\ mem' = [mem EXCEPT ![a].at = "entry", ![a].copy = Tail(@), ![a].status = "bad",
                        ![a].failed = Append(@, Entry(a))]
  /\ UNCHANGED <<disk, vault, table, queue, torn, history>>

\* Mutant: the queue is rewritten by dry runs only.
AgentTruncate_Dry(a) ==
  /\ At(a, "entry") /\ mem[a].copy = << >>
  /\ \/ ~mem[a].dry /\ Exit(a) /\ UNCHANGED <<torn, faults>>
     \/ mem[a].dry /\ Goto(a, "fill") /\ torn' = TRUE /\ UNCHANGED faults
     \/ mem[a].dry /\ Fault /\ Exit(a) /\ UNCHANGED torn
  /\ UNCHANGED <<disk, vault, table, queue, history>>

\* The queue becomes what failed; a dry run leaves it.  Writing it may fail,
\* before it is truncated or after it, and the run ends with a line in the log.
AgentTruncate(a) ==
  /\ At(a, "entry") /\ mem[a].copy = << >>
  /\ \/ mem[a].dry /\ Exit(a) /\ UNCHANGED <<torn, faults>>
     \/ ~mem[a].dry /\ Goto(a, "fill") /\ torn' = TRUE /\ UNCHANGED faults
     \/ ~mem[a].dry /\ Fault /\ Exit(a) /\ UNCHANGED torn
  /\ UNCHANGED <<disk, vault, table, queue, history>>

\* Mutant: the queue is cleared, failures included.
AgentFill_Clear(a) ==
  /\ At(a, "fill")
  /\ \/ Fill(<< >>) /\ UNCHANGED <<lost, faults>>
     \/ Abandon /\ Fault /\ UNCHANGED torn
  /\ Exit(a)
  /\ UNCHANGED <<disk, vault, table, dropped, mirrored, cut, givenUp, owed, disturbed>>

AgentFill(a) ==
  /\ At(a, "fill")
  /\ \/ Fill(mem[a].failed) /\ UNCHANGED <<lost, faults>>
     \/ Abandon /\ Fault /\ UNCHANGED torn
  /\ Exit(a)
  /\ UNCHANGED <<disk, vault, table, dropped, mirrored, cut, givenUp, owed, disturbed>>

Agent(a) == \/ AgentLoad(a) \/ AgentProbe(a) \/ AgentAsk(a) \/ AgentPass(a)
            \/ AgentSettle(a) \/ AgentFail(a) \/ AgentTruncate(a) \/ AgentFill(a)

-----------------------------------------------------------------------------
(* validate-keys: one place of the vault after the other.                  *)

ValidatorProbe(v) ==
  /\ At(v, "idle")
  /\ \E s \in Places :
       /\ vault[s] # None
       /\ \E r \in Probe(s) :
            mem' = [mem EXCEPT ![v].at = "register", ![v].place = s, ![v].status = r]
  /\ UNCHANGED <<disk, vault, table, queue, torn, history, faults>>

ValidatorRegister(v) ==
  /\ At(v, "register")
  /\ \/ table' = [table EXCEPT ![mem[v].place] = mem[v].status] /\ UNCHANGED faults
     \/ Fault /\ UNCHANGED table
  /\ Exit(v)
  /\ UNCHANGED <<disk, vault, queue, torn, history>>

Validator(v) == ValidatorProbe(v) \/ ValidatorRegister(v)

-----------------------------------------------------------------------------

\* A program dies; between truncating and filling a file it leaves it empty.
Crash(p) == /\ ~At(p, "idle")
            /\ Fault
            /\ Exit(p)
            /\ cut' = cut \cup {k \in {Key(p)} : At(p, "store")}
            /\ IF At(p, "fill") THEN Abandon ELSE UNCHANGED <<queue, lost>>
            /\ UNCHANGED <<disk, vault, table, torn, dropped, mirrored, givenUp, owed,
                           disturbed>>

Next == \/ \E f \in Files : Drop(f)
        \/ \E d \in Droppers : Dropper(d)
        \/ \E a \in Agents : Agent(a)
        \/ \E v \in Validators : Validator(v)
        \/ \E p \in Procs : Crash(p)

Spec == Init /\ [][Next]_vars

\* The timers start keydrop and validate-pending over and over, now and then
\* without --dry-run, and a program goes on while it does not crash.
Fairness == /\ \A d \in Droppers : WF_vars(Dropper(d))
            /\ \A a \in Agents : /\ WF_vars(Agent(a))
                                 /\ SF_vars(AgentLoad(a) /\ ~mem'[a].dry)

FairSpec == Spec /\ Fairness

-----------------------------------------------------------------------------
(* Properties.                                                             *)

\* Type invariant; a dropper past the download is at a key of its file, an
\* agent about to register is at an entry.
TypeOK ==
  /\ disk \subseteq dropped /\ dropped \subseteq Files
  /\ vault \in [Places -> Secrets \cup {None, Broken}]
  /\ table \in [Places -> Statuses \cup {None}]
  /\ queue \in Seq(Places)
  /\ torn \in BOOLEAN /\ disturbed \in BOOLEAN
  /\ mem \in [Procs -> Memory]
  /\ \A d \in Droppers :
       mem[d].at \in {"write", "store", "judge", "register", "append", "trunc", "fill",
                      "delete"} =>
         mem[d].file \in Files /\ mem[d].key \in DOMAIN KeysOf[mem[d].file]
  /\ \A a \in Agents : mem[a].at = "settle" => mem[a].copy # << >>
  /\ \A v \in Validators : mem[v].at = "register" => mem[v].place \in Places
  /\ owed \subseteq Places /\ lost \subseteq Places
  /\ faults \in 0..MaxFaults

\* Place s has a file without a whole key because key i of file g is being
\* written there, or because its writing was cut short.
Mars(g, i, s) == /\ vault[s] = Broken /\ s = Place(g, i)
                 /\ \/ <<g, i>> \in cut
                    \/ \E d \in Droppers : At(d, "store") /\ Key(d) = <<g, i>>
Marred(s) == \E g \in Files : \E i \in DOMAIN KeysOf[g] : Mars(g, i, s)

\* What the queue names is registered, and what is registered has a file in
\* the vault, with a whole key unless a write of it is under way, failed or
\* died half done: keydrop writes, registers, then queues, and gives a key up
\* where one of these fails, while validate-keys registers what it finds.
QueuedOnlyRegistered == \A i \in DOMAIN queue : table[queue[i]] # None
RegisteredOnlyVaulted == \A s \in Places : table[s] # None =>
                            vault[s] \in Secrets \/ Marred(s)
RegistryOrder == QueuedOnlyRegistered /\ RegisteredOnlyVaulted

\* At the place of key i of file f there is what a file of the same provider
\* has under that number, and has had written there.
Holds(f, i, g) == /\ ProvOf[g] = ProvOf[f]
                  /\ <<g, i>> \in mirrored /\ i \in DOMAIN KeysOf[g]
                  /\ vault[Place(f, i)] = KeysOf[g][i]

\* Another dropping than the one that wrote key i of f: of another file, or by
\* another of several keydrops that run at a time.
Another(f, g) == g # f \/ \E d, e \in Droppers : d # e

\* A key of a file deleted from the Disk is in the vault, unless an error was
\* logged for it, or a later dropping has written, or begun to write and not
\* ended, a key of the same number there.  A crash or an error between the
\* truncation and the filling costs the key only then: otherwise the file is
\* still on the Disk.
DeletedUnlessOverwritten ==
  \A f \in dropped \ disk : \A i \in DOMAIN KeysOf[f] :
     \/ vault[Place(f, i)] = KeysOf[f][i]
     \/ <<f, i>> \in givenUp
     \/ \E g \in Files : Another(f, g) /\ (Holds(f, i, g) \/ Mars(g, i, Place(f, i)))

\* While droppers and agents do not overlap, a key the dropper found not valid
\* is not forgotten: it is in the queue until an agent has registered it, or
\* its file is still on the Disk and will be done again, or an error was
\* logged for it, or it was in the queue when a write of that was cut short.
InQueue(s) == \E i \in DOMAIN queue : queue[i] = s
NothingForgotten ==
  ~disturbed =>
    \A s \in owed :
      \/ InQueue(s) \/ s \in lost
      \/ \E f \in disk : s \in PlacesOf(f)
      \/ \E k \in givenUp : s = Place(k[1], k[2])

\* Every file with keys is eventually taken from the Disk.
DropsTaken == \A f \in Files : (f \in disk /\ KeysOf[f] # << >>) ~> f \notin disk

\* Every entry eventually leaves the queue, dry runs and failures included.
QueueServed == \A s \in Places : InQueue(s) ~> (~InQueue(s) \/ disturbed)

-----------------------------------------------------------------------------
(* What the code says of a deleted file, and two files of one provider do  *)
(* not keep.                                                               *)

\* keydrop.go, where it deletes the file: "the key is already in the vault".
NothingLost == \A f \in dropped \ disk : \A i \in DOMAIN KeysOf[f] :
                 \E s \in Places : vault[s] = KeysOf[f][i]
=============================================================================
