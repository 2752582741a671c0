--------------------------- MODULE KeyIntakeProofs ---------------------------
(* Theorems about KeyIntake for any number of files, keys and programs.    *)
EXTENDS KeyIntake, SequenceTheorems, TLAPS

\* The part of TypeOK that speaks of one variable at a time.
Typed ==
  /\ disk \subseteq dropped /\ dropped \subseteq Files
  /\ vault \in [Places -> Secrets \cup {None, Broken}]
  /\ table \in [Places -> Statuses \cup {None}]
  /\ queue \in Seq(Places)
  /\ torn \in BOOLEAN /\ disturbed \in BOOLEAN
  /\ mem \in [Procs -> Memory]
  /\ owed \subseteq Places /\ lost \subseteq Places
  /\ faults \in 0..MaxFaults

Handled == mirrored \cup givenUp

\* What is registered has a file in the vault.
RegisteredHasFile == \A s \in Places : table[s] # None => vault[s] # None

\* A file is deleted from the Disk only when each of its keys has been written
\* to the vault, or given up after an error that was logged.
DeletedOnlyMirrored ==
  \A f \in dropped \ disk : \A i \in DOMAIN KeysOf[f] :
     <<f, i>> \in mirrored \cup givenUp

Listed(list) == \A i \in DOMAIN list : table[list[i]] # None

\* What a dropper has done when it is at a step: the keys before this one are
\* handled, this one has a file in the vault, and is then in the table.
Written == {"judge", "register", "append", "trunc", "fill"}
Recorded == {"append", "trunc", "fill"}
DropperOK(d) ==
  /\ mem[d].at \in {"write", "store", "delete"} \cup Written =>
       /\ mem[d].file \in Files /\ mem[d].key \in DOMAIN KeysOf[mem[d].file]
       /\ \A i \in DOMAIN KeysOf[mem[d].file] :
            i < mem[d].key => <<mem[d].file, i>> \in Handled
  /\ mem[d].at \in Written => /\ <<mem[d].file, mem[d].key>> \in Handled
                              /\ vault[Here(d)] # None
  /\ mem[d].at \in Recorded => table[Here(d)] # None
  /\ mem[d].at = "delete" =>
       \A i \in DOMAIN KeysOf[mem[d].file] : <<mem[d].file, i>> \in Handled

\* What each program remembers is still true of the vault and the table.
MemOK(p) ==
  /\ Listed(mem[p].copy) /\ Listed(mem[p].failed)
  /\ p \in Droppers => DropperOK(p)
  /\ p \in Agents /\ mem[p].at = "settle" => mem[p].copy # << >>
  /\ p \in Validators => mem[p].at \in {"idle", "register"}
  /\ p \in Validators /\ mem[p].at = "register" =>
       mem[p].place \in Places /\ vault[mem[p].place] # None

IInv == /\ Typed
        /\ \A p \in Procs : MemOK(p)
        /\ RegisteredHasFile
        /\ QueuedOnlyRegistered
        /\ DeletedOnlyMirrored

\* The vault and the table lose no place, and nothing handled is unhandled.
Grows == /\ \A s \in Places : vault[s] # None => vault'[s] # None
         /\ \A s \in Places : table[s] # None => table'[s] # None
         /\ Handled \subseteq Handled'

-----------------------------------------------------------------------------
(* Lemmas.                                                                 *)

LEMMA PlaceOfKey ==
  ASSUME NEW f \in Files, NEW i \in DOMAIN KeysOf[f]
  PROVE  /\ Place(f, i) \in Places
         /\ KeysOf[f] \in Seq(Secrets) /\ KeysOf[f][i] \in Secrets
         /\ KeysOf[f][i] # None /\ KeysOf[f][i] # Broken
         /\ i \in 1..Len(KeysOf[f]) /\ Len(KeysOf[f]) \in Nat
<1>1. KeysOf[f] \in Seq(Secrets)
  BY IntakeType
<1>2. KeysOf[f][i] \in Secrets /\ i \in 1..Len(KeysOf[f]) /\ Len(KeysOf[f]) \in Nat
  BY <1>1, LenProperties, ElementOfSeq
<1>3. Place(f, i) \in Places
  BY DEF Places, PlacesOf
<1>4. QED
  BY <1>1, <1>2, <1>3, IntakeType

LEMMA BlankIsMemory == Blank \in Memory
<1>1. << >> \in Seq(Places)
  BY EmptySeq
<1>2. QED
  BY <1>1 DEF Blank, Memory, Statuses

LEMMA NothingListed ==
  Listed(<< >>) /\ Listed(<< >>)'
  BY EmptySeq DEF Listed

\* A list of registered places stays one.
LEMMA ListedStays ==
  ASSUME NEW list \in Seq(Places), Grows, Listed(list)
  PROVE  Listed(list)'
<1> SUFFICES ASSUME NEW i \in DOMAIN list PROVE table'[list[i]] # None
  BY DEF Listed
<1>1. list[i] \in Places
  BY LenProperties, ElementOfSeq
<1>2. QED
  BY <1>1 DEF Listed, Grows

\* What another program remembers is untouched by a step.
LEMMA OthersKeep ==
  ASSUME NEW q \in Procs, mem[q] \in Memory, mem'[q] = mem[q], Grows, MemOK(q)
  PROVE  MemOK(q)'
<1>1. Listed(mem[q].copy)' /\ Listed(mem[q].failed)'
  <2>1. mem[q].copy \in Seq(Places) /\ mem[q].failed \in Seq(Places)
    BY DEF Memory
  <2>2. Listed(mem[q].copy) /\ Listed(mem[q].failed)
    BY DEF MemOK
  <2>3. QED
    BY <2>1, <2>2, ListedStays DEF Listed
<1>2. q \in Droppers => DropperOK(q)'
  <2> SUFFICES ASSUME q \in Droppers PROVE DropperOK(q)'
    OBVIOUS
  <2>1. DropperOK(q)
    BY DEF MemOK
  <2>2. Here(q)' = Here(q)
    BY DEF Here, Place
  <2>3. mem[q].at \in Written => Here(q) \in Places
    BY <2>1, PlaceOfKey DEF DropperOK, Here
  <2>4. Recorded \subseteq Written
    BY DEF Recorded, Written
  <2>5. QED
    BY <2>1, <2>2, <2>3, <2>4 DEF DropperOK, Grows
<1>3. QED
  BY <1>1, <1>2 DEF MemOK, Grows

\* It remains to show what a step does to the program that takes it.
LEMMA StepOf ==
  ASSUME NEW p \in Procs, IInv, Typed', Grows, MemOK(p)',
         \A q \in Procs \ {p} : mem'[q] = mem[q],
         RegisteredHasFile', QueuedOnlyRegistered', DeletedOnlyMirrored'
  PROVE  IInv'
<1>1. ASSUME NEW q \in Procs \ {p} PROVE MemOK(q)'
  BY <1>1, OthersKeep DEF IInv, Typed
<1>2. QED
  BY <1>1 DEF IInv

\* Steps that leave the shared state and its history alone.
LEMMA PrivateStep ==
  ASSUME IInv, UNCHANGED <<disk, vault, table, dropped, mirrored, givenUp>>
  PROVE  /\ Grows /\ RegisteredHasFile' /\ DeletedOnlyMirrored'
         /\ queue' = queue => QueuedOnlyRegistered'
  BY DEF IInv, Grows, Handled, RegisteredHasFile, DeletedOnlyMirrored,
         QueuedOnlyRegistered

\* A program's step replaces its own memory and no other.
LEMMA OwnMemory ==
  ASSUME NEW p \in Procs, NEW m \in Memory, mem \in [Procs -> Memory],
         mem' = [mem EXCEPT ![p] = m]
  PROVE  /\ mem' \in [Procs -> Memory] /\ mem'[p] = m
         /\ \A q \in Procs \ {p} : mem'[q] = mem[q]
  OBVIOUS

LEMMA ForgetKey ==
  ASSUME NEW x \in Memory, NEW a \in {"write", "delete"}, NEW n \in Nat
  PROVE  [x EXCEPT !.status = "bad", !.copy = << >>, !.at = a, !.key = n] \in Memory
<1>1. << >> \in Seq(Places)
  BY EmptySeq
<1>2. QED
  BY <1>1 DEF Memory, Statuses

LEMMA Exits ==
  ASSUME NEW p \in Procs, mem \in [Procs -> Memory], Exit(p)
  PROVE  /\ mem' \in [Procs -> Memory] /\ MemOK(p)'
         /\ \A q \in Procs \ {p} : mem'[q] = mem[q]
<1>1. /\ mem' \in [Procs -> Memory] /\ mem'[p] = Blank
      /\ \A q \in Procs \ {p} : mem'[q] = mem[q]
  BY OwnMemory, BlankIsMemory DEF Exit
<1>2. MemOK(p)'
  BY <1>1, NothingListed DEF MemOK, DropperOK, Blank, Written, Recorded
<1>3. QED
  BY <1>1, <1>2

\* Once a key is handled the dropper may go on to the next, or to the deletion.
LEMMA NextKeyOK ==
  ASSUME NEW d \in Droppers, IInv, Grows, NextKey(d),
         mem[d].at \in {"write", "store"} \cup Written,
         <<mem[d].file, mem[d].key>> \in Handled'
  PROVE  /\ mem' \in [Procs -> Memory] /\ MemOK(d)'
         /\ \A q \in Procs \ {d} : mem'[q] = mem[q]
<1> DEFINE f == mem[d].file
           k == mem[d].key
           more == k < Len(KeysOf[f])
           m == [mem[d] EXCEPT !.status = "bad", !.copy = << >>,
                               !.at = IF more THEN "write" ELSE "delete",
                               !.key = IF more THEN k + 1 ELSE k]
<1>1. d \in Procs /\ mem \in [Procs -> Memory] /\ mem[d] \in Memory /\ DropperOK(d)
      /\ Listed(mem[d].failed) /\ d \notin Agents /\ d \notin Validators
  BY IntakeProcs DEF IInv, Typed, MemOK, Procs
<1>2. f \in Files /\ k \in DOMAIN KeysOf[f]
      /\ \A i \in DOMAIN KeysOf[f] : i < k => <<f, i>> \in Handled
  BY <1>1 DEF DropperOK
<1>3. k \in 1..Len(KeysOf[f]) /\ Len(KeysOf[f]) \in Nat /\ KeysOf[f] \in Seq(Secrets)
  BY <1>2, PlaceOfKey
<1>4. mem' = [mem EXCEPT ![d] = m]
  BY <1>1 DEF NextKey, Memory
<1>5. m \in Memory
  <2>1. k \in Nat /\ (IF more THEN k + 1 ELSE k) \in Nat
    BY <1>3
  <2>2. QED
    BY <1>1, <2>1, ForgetKey
<1>6. /\ mem' \in [Procs -> Memory] /\ mem'[d] = m
      /\ \A q \in Procs \ {d} : mem'[q] = mem[q]
  <2> HIDE DEF m
  <2>1. QED
    BY <1>1, <1>4, <1>5, OwnMemory
<1>7. /\ m.file = f /\ m.copy = << >> /\ m.failed = mem[d].failed
      /\ more => m.at = "write" /\ m.key = k + 1
      /\ ~more => m.at = "delete" /\ m.key = k
  BY <1>1 DEF Memory
<1> HIDE DEF m, f, k
<1>8. \A i \in DOMAIN KeysOf[f] : i <= k => <<f, i>> \in Handled'
  <2> SUFFICES ASSUME NEW i \in DOMAIN KeysOf[f], i <= k PROVE <<f, i>> \in Handled'
    OBVIOUS
  <2>1. i \in 1..Len(KeysOf[f])
    BY <1>3, LenProperties
  <2>2. CASE i = k
    BY <2>2 DEF f, k
  <2>3. CASE i < k
    BY <1>2, <2>3 DEF Grows
  <2>4. QED
    BY <2>1, <2>2, <2>3, <1>3
<1>9. DropperOK(d)'
  <2>1. CASE more
    <3>1. k + 1 \in DOMAIN KeysOf[f]
      BY <1>3, <2>1, LenProperties
    <3>2. \A i \in DOMAIN KeysOf[f] : i < k + 1 => <<f, i>> \in Handled'
      <4> SUFFICES ASSUME NEW i \in DOMAIN KeysOf[f], i < k + 1
                   PROVE <<f, i>> \in Handled'
        OBVIOUS
      <4>1. i \in 1..Len(KeysOf[f]) /\ i <= k
        BY <1>3, LenProperties
      <4>2. QED
        BY <4>1, <1>8
    <3>3. QED
      BY <1>2, <1>6, <1>7, <2>1, <3>1, <3>2 DEF DropperOK, Written, Recorded
  <2>2. CASE ~more
    <3>1. \A i \in DOMAIN KeysOf[f] : <<f, i>> \in Handled'
      <4> SUFFICES ASSUME NEW i \in DOMAIN KeysOf[f] PROVE <<f, i>> \in Handled'
        OBVIOUS
      <4>1. i \in 1..Len(KeysOf[f]) /\ i <= k
        BY <1>3, <2>2, LenProperties
      <4>2. QED
        BY <4>1, <1>8
    <3>2. QED
      BY <1>2, <1>6, <1>7, <2>2, <3>1 DEF DropperOK, Written, Recorded
  <2>3. QED
    BY <2>1, <2>2
<1>10. Listed(mem[d].failed)' /\ Listed(mem[d].copy)'
  <2>1. mem[d].failed \in Seq(Places)
    BY <1>1 DEF Memory
  <2>2. \A j \in DOMAIN mem[d].failed : table'[mem[d].failed[j]] # None
    BY <1>1, <2>1, ListedStays DEF Listed
  <2>3. QED
    BY <1>6, <1>7, <2>2, NothingListed DEF Listed
<1>11. QED
  BY <1>1, <1>6, <1>9, <1>10 DEF MemOK

\* What IInv says of a dropper, of an agent and of a validator.
LEMMA OfDropper ==
  ASSUME NEW d \in Droppers, IInv
  PROVE  /\ d \in Procs /\ d \notin Agents /\ d \notin Validators
         /\ mem \in [Procs -> Memory] /\ mem[d] \in Memory
         /\ MemOK(d) /\ DropperOK(d)
         /\ mem[d].at \in {"write", "store", "delete"} \cup Written =>
              /\ mem[d].file \in Files /\ Here(d) \in Places
              /\ mem[d].key \in DOMAIN KeysOf[mem[d].file]
              /\ Secret(d) \in Secrets /\ Secret(d) # None /\ Secret(d) # Broken
<1>1. /\ d \in Procs /\ d \notin Agents /\ d \notin Validators
      /\ mem \in [Procs -> Memory] /\ mem[d] \in Memory
      /\ MemOK(d) /\ DropperOK(d)
  BY IntakeProcs DEF IInv, Typed, Procs, MemOK
<1>2. QED
  BY <1>1, PlaceOfKey DEF DropperOK, Here, Secret

LEMMA OfAgent ==
  ASSUME NEW a \in Agents, IInv
  PROVE  /\ a \in Procs /\ a \notin Droppers /\ a \notin Validators
         /\ mem \in [Procs -> Memory] /\ mem[a] \in Memory /\ MemOK(a)
         /\ Listed(mem[a].copy) /\ Listed(mem[a].failed)
         /\ mem[a].at = "settle" => mem[a].copy # << >>
  BY IntakeProcs DEF IInv, Typed, Procs, MemOK

LEMMA OfValidator ==
  ASSUME NEW v \in Validators, IInv
  PROVE  /\ v \in Procs /\ v \notin Droppers /\ v \notin Agents
         /\ mem \in [Procs -> Memory] /\ mem[v] \in Memory /\ MemOK(v)
         /\ Listed(mem[v].copy) /\ Listed(mem[v].failed)
         /\ mem[v].at = "register" =>
              mem[v].place \in Places /\ vault[mem[v].place] # None
  BY IntakeProcs DEF IInv, Typed, Procs, MemOK

\* The first entry of a list of registered places is one, the rest is a list.
LEMMA FirstListed ==
  ASSUME NEW list \in Seq(Places), Listed(list), list # << >>
  PROVE  /\ Head(list) \in Places /\ table[Head(list)] # None
         /\ Tail(list) \in Seq(Places) /\ Listed(Tail(list))
<1>1. /\ Head(list) \in Places /\ Tail(list) \in Seq(Places)
      /\ Len(list) \in Nat /\ DOMAIN list = 1..Len(list)
      /\ Head(list) = list[1] /\ 1 \in DOMAIN list
      /\ DOMAIN Tail(list) = 1..(Len(list) - 1)
      /\ \A i \in 1..(Len(list) - 1) : Tail(list)[i] = list[i + 1]
  BY HeadTailProperties, LenProperties, EmptySeq
<1>2. ASSUME NEW i \in DOMAIN Tail(list) PROVE table[Tail(list)[i]] # None
  <2>1. i + 1 \in DOMAIN list /\ Tail(list)[i] = list[i + 1]
    BY <1>1
  <2>2. QED
    BY <2>1 DEF Listed
<1>3. QED
  BY <1>1, <1>2 DEF Listed

LEMMA AppendListed ==
  ASSUME NEW list \in Seq(Places), Listed(list), NEW s \in Places, table[s] # None
  PROVE  Append(list, s) \in Seq(Places) /\ Listed(Append(list, s))
<1>1. /\ Append(list, s) \in Seq(Places) /\ Len(list) \in Nat
      /\ DOMAIN list = 1..Len(list)
      /\ DOMAIN Append(list, s) = 1..(Len(list) + 1)
      /\ \A i \in 1..Len(list) : Append(list, s)[i] = list[i]
      /\ Append(list, s)[Len(list) + 1] = s
  BY AppendProperties, LenProperties
<1>2. ASSUME NEW i \in DOMAIN Append(list, s) PROVE table[Append(list, s)[i]] # None
  <2>1. i \in DOMAIN list \/ i = Len(list) + 1
    BY <1>1
  <2>2. QED
    BY <1>1, <2>1 DEF Listed
<1>3. QED
  BY <1>1, <1>2 DEF Listed

\* A dropper may always give the key it is at up.
LEMMA GiveUpOK ==
  ASSUME NEW d \in Droppers, IInv, GiveUp(d),
         mem[d].at \in {"write", "store"} \cup Written,
         UNCHANGED <<disk, vault, table, dropped, mirrored, owed, disturbed>>,
         queue' \in Seq(Places), QueuedOnlyRegistered', torn' \in BOOLEAN,
         lost' \subseteq Places
  PROVE  IInv'
<1>1. Grows /\ RegisteredHasFile'
  BY DEF GiveUp, Grows, Handled, IInv, RegisteredHasFile
<1>2. DeletedOnlyMirrored'
  BY DEF GiveUp, IInv, DeletedOnlyMirrored
<1>3. /\ mem' \in [Procs -> Memory] /\ MemOK(d)'
      /\ \A q \in Procs \ {d} : mem'[q] = mem[q]
  <2>1. <<mem[d].file, mem[d].key>> \in Handled'
    BY DEF GiveUp, Handled, Key
  <2>2. QED
    BY <1>1, <2>1, NextKeyOK DEF GiveUp
<1>4. Typed'
  <2>1. faults' \in 0..MaxFaults
    BY IntakeType DEF GiveUp, Fault, IInv, Typed
  <2>2. QED
    BY <1>3, <2>1 DEF GiveUp, IInv, Typed
<1>5. QED
  BY <1>1, <1>2, <1>3, <1>4, OfDropper, StepOf

\* The same of one that leaves the queue alone.
LEMMA GiveUpHere ==
  ASSUME NEW d \in Droppers, IInv, GiveUp(d),
         mem[d].at \in {"write", "store"} \cup Written,
         UNCHANGED <<disk, vault, table, queue, torn, dropped, mirrored, owed, lost,
                     disturbed>>
  PROVE  IInv'
<1>1. queue' \in Seq(Places) /\ torn' \in BOOLEAN /\ lost' \subseteq Places
  BY DEF IInv, Typed
<1>2. QueuedOnlyRegistered'
  BY DEF IInv, QueuedOnlyRegistered
<1>3. QED
  BY <1>1, <1>2, GiveUpOK

\* A queue whose filling was abandoned holds registered places, if any.
LEMMA Abandons ==
  ASSUME IInv, Abandon, UNCHANGED table
  PROVE  /\ queue' \in Seq(Places) /\ QueuedOnlyRegistered'
         /\ lost' \subseteq Places
<1>1. queue \in Seq(Places) /\ lost \subseteq Places
  BY DEF IInv, Typed
<1>2. CASE torn
  <2>1. {queue[i] : i \in DOMAIN queue} \subseteq Places
    BY <1>1, LenProperties, ElementOfSeq
  <2>2. queue' = << >> /\ lost' = lost \cup {queue[i] : i \in DOMAIN queue}
    BY <1>2 DEF Abandon
  <2>3. QED
    BY <1>1, <2>1, <2>2, EmptySeq DEF QueuedOnlyRegistered
<1>3. CASE ~torn
  BY <1>1, <1>3 DEF Abandon, IInv, QueuedOnlyRegistered
<1>4. QED
  BY <1>2, <1>3

-----------------------------------------------------------------------------
(* One lemma for each action.                                              *)

LEMMA DropOK ==
  ASSUME NEW f \in Files, IInv, Drop(f)
  PROVE  IInv'
<1>1. Grows /\ Typed'
  BY DEF Drop, Grows, Handled, IInv, Typed
<1>2. ASSUME NEW p \in Procs PROVE MemOK(p)'
  BY <1>1, OthersKeep DEF Drop, IInv, Typed
<1>3. RegisteredHasFile' /\ QueuedOnlyRegistered' /\ DeletedOnlyMirrored'
  BY DEF Drop, IInv, RegisteredHasFile, QueuedOnlyRegistered, DeletedOnlyMirrored
<1>4. QED
  BY <1>1, <1>2, <1>3 DEF IInv

LEMMA DropListOK ==
  ASSUME NEW d \in Droppers, IInv, DropList(d)
  PROVE  IInv'
<1>1. /\ Grows /\ RegisteredHasFile' /\ DeletedOnlyMirrored'
      /\ QueuedOnlyRegistered'
  BY PrivateStep DEF DropList
<1> DEFINE m == [mem[d] EXCEPT !.at = "file", !.files = disk]
<1>2. /\ d \in Procs /\ mem[d] \in Memory /\ mem \in [Procs -> Memory] /\ MemOK(d)
      /\ d \notin Agents /\ d \notin Validators
  BY OfDropper
<1>3. m \in Memory /\ mem' = [mem EXCEPT ![d] = m]
  BY <1>2 DEF Memory, DropList, IInv, Typed
<1>4. m.at = "file" /\ m.copy = mem[d].copy /\ m.failed = mem[d].failed
  BY <1>2 DEF Memory
<1> HIDE DEF m
<1>5. /\ mem' \in [Procs -> Memory] /\ mem'[d] = m
      /\ \A q \in Procs \ {d} : mem'[q] = mem[q]
  BY <1>2, <1>3, OwnMemory
<1>6. MemOK(d)'
  BY <1>2, <1>4, <1>5 DEF DropList, MemOK, DropperOK, Written, Recorded, Listed
<1>7. Typed'
  BY <1>5 DEF DropList, Begins, At, Busy, IInv, Typed
<1>8. QED
  BY <1>1, <1>2, <1>5, <1>6, <1>7, StepOf

LEMMA DropGetOK ==
  ASSUME NEW d \in Droppers, IInv, DropGet(d)
  PROVE  IInv'
<1>1. /\ Grows /\ RegisteredHasFile' /\ DeletedOnlyMirrored'
      /\ QueuedOnlyRegistered'
  BY PrivateStep DEF DropGet, history
<1>2. PICK f \in mem[d].files :
        /\ f \in disk /\ KeysOf[f] # << >>
        /\ mem' = [mem EXCEPT ![d].at = "write", ![d].files = @ \ {f},
                              ![d].file = f, ![d].key = 1]
  BY DEF DropGet
<1> DEFINE m == [mem[d] EXCEPT !.at = "write", !.files = @ \ {f},
                               !.file = f, !.key = 1]
<1>3. /\ d \in Procs /\ mem[d] \in Memory /\ mem \in [Procs -> Memory] /\ MemOK(d)
      /\ d \notin Agents /\ d \notin Validators
  BY OfDropper
<1>4. f \in Files
  BY <1>2 DEF IInv, Typed
<1>5. m \in Memory /\ mem' = [mem EXCEPT ![d] = m]
  BY <1>2, <1>3, <1>4 DEF Memory
<1>6. /\ m.at = "write" /\ m.copy = mem[d].copy /\ m.failed = mem[d].failed
      /\ m.file = f /\ m.key = 1
  BY <1>3 DEF Memory
<1> HIDE DEF m
<1>7. /\ mem' \in [Procs -> Memory] /\ mem'[d] = m
      /\ \A q \in Procs \ {d} : mem'[q] = mem[q]
  BY <1>3, <1>5, OwnMemory
<1>8. 1 \in DOMAIN KeysOf[f] /\ \A i \in DOMAIN KeysOf[f] : ~(i < 1)
  <2>1. KeysOf[f] \in Seq(Secrets)
    BY <1>4, IntakeType
  <2>2. QED
    BY <1>2, <2>1, LenProperties, EmptySeq
<1>9. DropperOK(d)'
  BY <1>4, <1>6, <1>7, <1>8 DEF DropperOK, Written, Recorded
<1>10. MemOK(d)'
  BY <1>3, <1>6, <1>7, <1>9 DEF DropGet, MemOK, Listed
<1>11. Typed'
  BY <1>7 DEF DropGet, history, IInv, Typed
<1>12. QED
  BY <1>1, <1>3, <1>7, <1>10, <1>11, StepOf

LEMMA DropSkipOK ==
  ASSUME NEW d \in Droppers, IInv, DropSkip(d)
  PROVE  IInv'
<1>1. /\ Grows /\ RegisteredHasFile' /\ DeletedOnlyMirrored'
      /\ QueuedOnlyRegistered'
  BY PrivateStep DEF DropSkip, history
<1>2. PICK f \in mem[d].files : mem' = [mem EXCEPT ![d].files = @ \ {f}]
  BY DEF DropSkip
<1> DEFINE m == [mem[d] EXCEPT !.files = @ \ {f}]
<1>3. /\ d \in Procs /\ mem[d] \in Memory /\ mem \in [Procs -> Memory] /\ MemOK(d)
      /\ d \notin Agents /\ d \notin Validators
  BY OfDropper
<1>4. m \in Memory /\ mem' = [mem EXCEPT ![d] = m]
  BY <1>2, <1>3 DEF Memory
<1>5. m.at = "file" /\ m.copy = mem[d].copy /\ m.failed = mem[d].failed
  BY <1>3 DEF Memory, DropSkip, At
<1> HIDE DEF m
<1>6. /\ mem' \in [Procs -> Memory] /\ mem'[d] = m
      /\ \A q \in Procs \ {d} : mem'[q] = mem[q]
  BY <1>3, <1>4, OwnMemory
<1>7. MemOK(d)'
  BY <1>3, <1>5, <1>6 DEF DropSkip, MemOK, DropperOK, Written, Recorded, Listed
<1>8. faults' \in 0..MaxFaults
  BY IntakeType DEF DropSkip, Fault, IInv, Typed
<1>9. Typed'
  BY <1>6, <1>8 DEF DropSkip, history, IInv, Typed
<1>10. QED
  BY <1>1, <1>3, <1>6, <1>7, <1>9, StepOf

\* A program that ends its run forgets everything.  The queue may be left
\* truncated.
LEMMA ExitOK ==
  ASSUME NEW p \in Procs, IInv, Exit(p), faults' \in 0..MaxFaults,
         torn' \in BOOLEAN, disturbed' \in BOOLEAN, lost' \subseteq Places,
         UNCHANGED <<disk, vault, table, dropped, mirrored, givenUp, owed>>,
         queue' \in Seq(Places), QueuedOnlyRegistered'
  PROVE  IInv'
<1>1. Grows /\ RegisteredHasFile' /\ DeletedOnlyMirrored'
  BY PrivateStep
<1>2. /\ mem' \in [Procs -> Memory] /\ MemOK(p)'
      /\ \A q \in Procs \ {p} : mem'[q] = mem[q]
  BY Exits DEF IInv, Typed
<1>3. Typed'
  BY <1>2 DEF IInv, Typed
<1>4. QED
  BY <1>1, <1>2, <1>3, StepOf

LEMMA ExitHere ==
  ASSUME NEW p \in Procs, IInv, Exit(p), faults' \in 0..MaxFaults,
         UNCHANGED <<disk, vault, table, queue, torn, dropped, mirrored, givenUp, owed,
                     lost, disturbed>>
  PROVE  IInv'
<1>1. /\ queue' \in Seq(Places) /\ torn' \in BOOLEAN /\ disturbed' \in BOOLEAN
      /\ lost' \subseteq Places
  BY DEF IInv, Typed
<1>2. QueuedOnlyRegistered'
  BY DEF IInv, QueuedOnlyRegistered
<1>3. QED
  BY <1>1, <1>2, ExitOK

LEMMA DropEndOK ==
  ASSUME NEW d \in Droppers, IInv, DropEnd(d)
  PROVE  IInv'
<1>1. faults' \in 0..MaxFaults
  BY DEF DropEnd, IInv, Typed
<1>2. QED
  BY <1>1, OfDropper, ExitHere DEF DropEnd, history

LEMMA CrashOK ==
  ASSUME NEW p \in Procs, IInv, Crash(p)
  PROVE  IInv'
<1>1. faults' \in 0..MaxFaults /\ torn' \in BOOLEAN /\ disturbed' \in BOOLEAN
  BY IntakeType DEF Crash, Fault, IInv, Typed
<1>2. CASE Abandon
  BY <1>1, <1>2, Abandons, ExitOK DEF Crash
<1>3. CASE UNCHANGED <<queue, lost>>
  BY <1>1, <1>3, ExitHere DEF Crash
<1>4. QED
  BY <1>2, <1>3 DEF Crash

\* The step of a dropper from one step of a key to the next.
LEMMA GotoOK ==
  ASSUME NEW d \in Droppers, NEW label \in Written, IInv, Goto(d, label), Grows,
         mem[d].at \in {"write", "store"} \cup Written,
         <<mem[d].file, mem[d].key>> \in Handled', vault'[Here(d)] # None,
         label \in Recorded => table'[Here(d)] # None
  PROVE  /\ mem' \in [Procs -> Memory] /\ MemOK(d)'
         /\ \A q \in Procs \ {d} : mem'[q] = mem[q]
<1> DEFINE m == [mem[d] EXCEPT !.at = label]
<1>1. /\ d \in Procs /\ mem[d] \in Memory /\ mem \in [Procs -> Memory]
      /\ MemOK(d) /\ DropperOK(d) /\ d \notin Agents /\ d \notin Validators
  BY OfDropper
<1>2. m \in Memory /\ mem' = [mem EXCEPT ![d] = m]
  BY <1>1 DEF Memory, Goto, Written
<1>3. /\ m.at = label /\ m.copy = mem[d].copy /\ m.failed = mem[d].failed
      /\ m.file = mem[d].file /\ m.key = mem[d].key
  BY <1>1 DEF Memory
<1> HIDE DEF m
<1>4. /\ mem' \in [Procs -> Memory] /\ mem'[d] = m
      /\ \A q \in Procs \ {d} : mem'[q] = mem[q]
  BY <1>1, <1>2, OwnMemory
<1>5. Here(d)' = Here(d)
  BY <1>3, <1>4 DEF Here, Place
<1>6. DropperOK(d)'
  <2>1. /\ mem[d].file \in Files /\ mem[d].key \in DOMAIN KeysOf[mem[d].file]
        /\ \A i \in DOMAIN KeysOf[mem[d].file] :
             i < mem[d].key => <<mem[d].file, i>> \in Handled'
    BY <1>1 DEF DropperOK, Grows
  <2>2. label # "delete"
    BY DEF Written
  <2>3. vault'[Here(d)'] # None /\ (label \in Recorded => table'[Here(d)'] # None)
    BY <1>5
  <2>4. QED
    BY <1>3, <1>4, <2>1, <2>2, <2>3 DEF DropperOK
<1>7. Listed(mem[d].copy)' /\ Listed(mem[d].failed)'
  <2>1. mem[d].copy \in Seq(Places) /\ mem[d].failed \in Seq(Places)
        /\ Listed(mem[d].copy) /\ Listed(mem[d].failed)
    BY <1>1 DEF Memory, MemOK
  <2>2. /\ \A j \in DOMAIN mem[d].copy : table'[mem[d].copy[j]] # None
        /\ \A j \in DOMAIN mem[d].failed : table'[mem[d].failed[j]] # None
    BY <2>1, ListedStays DEF Listed
  <2>3. QED
    BY <1>3, <1>4, <2>2 DEF Listed
<1>8. QED
  BY <1>1, <1>4, <1>6, <1>7 DEF MemOK

\* A place whose file is truncated or filled has one, and nothing is lost.
LEMMA VaultWritten ==
  ASSUME NEW d \in Droppers, IInv, NEW x \in Secrets \cup {Broken},
         mem[d].at \in {"write", "store"}, vault' = [vault EXCEPT ![Here(d)] = x],
         UNCHANGED <<disk, table, queue, dropped, givenUp>>,
         mirrored \subseteq mirrored'
  PROVE  /\ vault' \in [Places -> Secrets \cup {None, Broken}] /\ vault'[Here(d)] # None
         /\ Grows /\ RegisteredHasFile' /\ QueuedOnlyRegistered' /\ DeletedOnlyMirrored'
<1>1. Here(d) \in Places /\ x # None
  BY IntakeType, OfDropper
<1>2. vault \in [Places -> Secrets \cup {None, Broken}]
  BY DEF IInv, Typed
<1>3. /\ vault' \in [Places -> Secrets \cup {None, Broken}] /\ vault'[Here(d)] # None
      /\ \A s \in Places : vault[s] # None => vault'[s] # None
  BY <1>1, <1>2
<1>4. Grows
  BY <1>3 DEF Grows, Handled
<1>5. RegisteredHasFile'
  BY <1>3 DEF IInv, RegisteredHasFile
<1>6. QueuedOnlyRegistered'
  BY DEF IInv, QueuedOnlyRegistered
<1>7. DeletedOnlyMirrored'
  BY DEF IInv, DeletedOnlyMirrored
<1>8. QED
  BY <1>3, <1>4, <1>5, <1>6, <1>7

LEMMA DropWriteOK ==
  ASSUME NEW d \in Droppers, IInv, DropWrite(d)
  PROVE  IInv'
<1>1. CASE GiveUp(d) /\ UNCHANGED vault
  BY <1>1, GiveUpHere DEF DropWrite, At
<1>2. CASE /\ vault' = [vault EXCEPT ![Here(d)] = Broken]
           /\ Goto(d, "store") /\ UNCHANGED <<givenUp, faults>>
  <2> DEFINE m == [mem[d] EXCEPT !.at = "store"]
  <2>1. /\ d \in Procs /\ mem[d].at = "write" /\ mem[d] \in Memory
        /\ mem \in [Procs -> Memory] /\ MemOK(d) /\ DropperOK(d)
        /\ d \notin Agents /\ d \notin Validators
    BY OfDropper DEF DropWrite, At
  <2>2. /\ vault' \in [Places -> Secrets \cup {None, Broken}]
        /\ Grows /\ RegisteredHasFile' /\ QueuedOnlyRegistered' /\ DeletedOnlyMirrored'
    BY <1>2, <2>1, VaultWritten DEF DropWrite
  <2>3. m \in Memory /\ mem' = [mem EXCEPT ![d] = m]
    BY <1>2, <2>1 DEF Memory, Goto
  <2>4. /\ m.at = "store" /\ m.copy = mem[d].copy /\ m.failed = mem[d].failed
        /\ m.file = mem[d].file /\ m.key = mem[d].key
    BY <2>1 DEF Memory
  <2> HIDE DEF m
  <2>5. /\ mem' \in [Procs -> Memory] /\ mem'[d] = m
        /\ \A q \in Procs \ {d} : mem'[q] = mem[q]
    BY <2>1, <2>3, OwnMemory
  <2>6. DropperOK(d)'
    BY <2>1, <2>2, <2>4, <2>5 DEF DropperOK, Written, Recorded, Grows
  <2>7. Listed(mem[d].copy)' /\ Listed(mem[d].failed)'
    <3>1. table' = table
      BY DEF DropWrite
    <3>2. QED
      BY <2>1, <2>4, <2>5, <3>1 DEF MemOK, Listed
  <2>8. MemOK(d)'
    BY <2>1, <2>6, <2>7 DEF MemOK
  <2>9. Typed'
    BY <1>2, <2>2, <2>5 DEF DropWrite, IInv, Typed
  <2>10. QED
    BY <2>1, <2>2, <2>5, <2>8, <2>9, StepOf
<1>3. QED
  BY <1>1, <1>2 DEF DropWrite

LEMMA DropStoreOK ==
  ASSUME NEW d \in Droppers, IInv, DropStore(d)
  PROVE  IInv'
<1>1. CASE GiveUp(d) /\ UNCHANGED <<vault, mirrored>>
  BY <1>1, GiveUpHere DEF DropStore, At
<1>2. ASSUME NEW x \in Secrets \cup {Broken}, vault' = [vault EXCEPT ![Here(d)] = x],
             mirrored' = mirrored \cup {Key(d)}, Goto(d, "judge"),
             UNCHANGED <<givenUp, faults>>
      PROVE  IInv'
  <2>1. d \in Procs /\ mem[d].at = "store"
    BY OfDropper DEF DropStore, At
  <2>2. /\ vault' \in [Places -> Secrets \cup {None, Broken}] /\ vault'[Here(d)] # None
        /\ Grows /\ RegisteredHasFile' /\ QueuedOnlyRegistered' /\ DeletedOnlyMirrored'
    BY <1>2, <2>1, VaultWritten DEF DropStore
  <2>3. /\ mem' \in [Procs -> Memory] /\ MemOK(d)'
        /\ \A q \in Procs \ {d} : mem'[q] = mem[q]
    <3>1. <<mem[d].file, mem[d].key>> \in Handled'
      BY <1>2 DEF Handled, Key
    <3>2. "judge" \in Written /\ "judge" \notin Recorded
      BY DEF Written, Recorded
    <3>3. QED
      BY <1>2, <2>1, <2>2, <3>1, <3>2, GotoOK
  <2>4. Typed'
    BY <1>2, <2>2, <2>3 DEF DropStore, IInv, Typed
  <2>5. QED
    BY <2>1, <2>2, <2>3, <2>4, StepOf
<1>3. Secret(d) \in Secrets
  BY OfDropper DEF DropStore, At
<1>4. QED
  BY <1>1, <1>2, <1>3 DEF DropStore

LEMMA DropJudgeOK ==
  ASSUME NEW d \in Droppers, IInv, DropJudge(d)
  PROVE  IInv'
<1>1. /\ Grows /\ RegisteredHasFile' /\ DeletedOnlyMirrored'
      /\ QueuedOnlyRegistered'
  BY PrivateStep DEF DropJudge, history
<1>2. PICK v \in Probe(Here(d)) :
        mem' = [mem EXCEPT ![d].at = "register", ![d].status = v]
  BY DEF DropJudge
<1> DEFINE m == [mem[d] EXCEPT !.at = "register", !.status = v]
<1>3. /\ d \in Procs /\ mem[d] \in Memory /\ mem \in [Procs -> Memory]
      /\ MemOK(d) /\ DropperOK(d) /\ d \notin Agents /\ d \notin Validators
  BY OfDropper
<1>4. m \in Memory /\ mem' = [mem EXCEPT ![d] = m]
  BY <1>2, <1>3 DEF Memory, Probe, Statuses
<1>5. /\ m.at = "register" /\ m.copy = mem[d].copy /\ m.failed = mem[d].failed
      /\ m.file = mem[d].file /\ m.key = mem[d].key
  BY <1>3 DEF Memory
<1> HIDE DEF m
<1>6. /\ mem' \in [Procs -> Memory] /\ mem'[d] = m
      /\ \A q \in Procs \ {d} : mem'[q] = mem[q]
  BY <1>3, <1>4, OwnMemory
<1>7. DropperOK(d)'
  <2>1. Here(d)' = Here(d) /\ mem[d].at = "judge"
    BY <1>5, <1>6 DEF DropJudge, At, Here, Place
  <2>2. QED
    BY <1>3, <1>5, <1>6, <2>1
    DEF DropJudge, history, DropperOK, Written, Recorded, Handled
<1>8. MemOK(d)'
  BY <1>3, <1>5, <1>6, <1>7 DEF DropJudge, MemOK, Listed
<1>9. Typed'
  BY <1>6 DEF DropJudge, history, IInv, Typed
<1>10. QED
  BY <1>1, <1>3, <1>6, <1>8, <1>9, StepOf

\* Registering a place that the vault holds.
LEMMA Registers ==
  ASSUME NEW s \in Places, NEW v \in Statuses, IInv, vault[s] # None,
         table' = [table EXCEPT ![s] = v],
         UNCHANGED <<disk, vault, queue, dropped, mirrored, givenUp>>
  PROVE  /\ Grows /\ table' \in [Places -> Statuses \cup {None}] /\ table'[s] # None
         /\ RegisteredHasFile' /\ QueuedOnlyRegistered' /\ DeletedOnlyMirrored'
<1>1. table \in [Places -> Statuses \cup {None}] /\ queue \in Seq(Places)
  BY DEF IInv, Typed
<1>2. v # None
  BY IntakeType DEF Statuses
<1>3. /\ table' \in [Places -> Statuses \cup {None}] /\ table'[s] # None
      /\ \A t \in Places : table[t] # None => table'[t] # None
      /\ \A t \in Places : t # s => table'[t] = table[t]
  BY <1>1, <1>2
<1>4. Grows
  BY <1>3 DEF Grows, Handled
<1>5. RegisteredHasFile'
  BY <1>3 DEF IInv, RegisteredHasFile
<1>6. QueuedOnlyRegistered'
  <2>1. Listed(queue)
    BY DEF IInv, QueuedOnlyRegistered, Listed
  <2>2. \A i \in DOMAIN queue : table'[queue[i]] # None
    BY <1>1, <1>4, <2>1, ListedStays DEF Listed
  <2>3. QED
    BY <2>2 DEF QueuedOnlyRegistered
<1>7. DeletedOnlyMirrored'
  BY DEF IInv, DeletedOnlyMirrored
<1>8. QED
  BY <1>3, <1>4, <1>5, <1>6, <1>7

LEMMA DropRegisterOK ==
  ASSUME NEW d \in Droppers, IInv, DropRegister(d)
  PROVE  IInv'
<1>1. CASE GiveUp(d) /\ UNCHANGED <<table, owed>>
  BY <1>1, GiveUpHere DEF DropRegister, At, Written
<1>2. CASE /\ table' = [table EXCEPT ![Here(d)] = mem[d].status]
           /\ IF mem[d].status = "valid"
                THEN NextKey(d) /\ owed' = owed \ {Here(d)}
                ELSE Goto(d, "append") /\ owed' = owed \cup {Here(d)}
           /\ UNCHANGED <<givenUp, faults>>
  <2>1. /\ d \in Procs /\ Here(d) \in Places /\ mem[d].status \in Statuses
        /\ mem[d].at = "register" /\ vault[Here(d)] # None
        /\ <<mem[d].file, mem[d].key>> \in Handled
    BY OfDropper DEF DropRegister, At, Written, Memory, DropperOK
  <2>2. /\ Grows /\ table' \in [Places -> Statuses \cup {None}]
        /\ table'[Here(d)] # None /\ <<mem[d].file, mem[d].key>> \in Handled'
        /\ RegisteredHasFile' /\ QueuedOnlyRegistered' /\ DeletedOnlyMirrored'
    BY <1>2, <2>1, Registers DEF DropRegister, Grows
  <2>3. /\ mem' \in [Procs -> Memory] /\ MemOK(d)'
        /\ \A q \in Procs \ {d} : mem'[q] = mem[q]
    <3>1. CASE NextKey(d)
      BY <2>1, <2>2, <3>1, NextKeyOK DEF Written
    <3>2. CASE Goto(d, "append")
      <4>1. vault'[Here(d)] # None
        BY <2>1 DEF DropRegister
      <4>2. QED
        BY <2>1, <2>2, <3>2, <4>1, GotoOK DEF Written
    <3>3. QED
      BY <1>2, <3>1, <3>2
  <2>4. owed' \subseteq Places
    BY <1>2, <2>1 DEF IInv, Typed
  <2>5. Typed'
    BY <1>2, <2>2, <2>3, <2>4 DEF DropRegister, IInv, Typed
  <2>6. QED
    BY <2>1, <2>2, <2>3, <2>5, StepOf
<1>3. QED
  BY <1>1, <1>2 DEF DropRegister

LEMMA DropReadQueueOK ==
  ASSUME NEW d \in Droppers, IInv, DropReadQueue(d)
  PROVE  IInv'
<1>1. /\ Grows /\ RegisteredHasFile' /\ DeletedOnlyMirrored'
      /\ QueuedOnlyRegistered'
  BY PrivateStep DEF DropReadQueue, history
<1> DEFINE list == IF torn THEN << >> ELSE queue
           m == [mem[d] EXCEPT !.at = "trunc", !.copy = list]
<1>2. /\ d \in Procs /\ mem[d] \in Memory /\ mem \in [Procs -> Memory]
      /\ MemOK(d) /\ DropperOK(d) /\ d \notin Agents /\ d \notin Validators
  BY OfDropper
<1>3. list \in Seq(Places) /\ \A i \in DOMAIN list : table'[list[i]] # None
  BY EmptySeq DEF IInv, Typed, QueuedOnlyRegistered, DropReadQueue
<1>4. mem' = [mem EXCEPT ![d] = m]
  BY <1>2 DEF DropReadQueue, Memory
<1> HIDE DEF list
<1>5. m \in Memory
  BY <1>2, <1>3 DEF Memory
<1>6. /\ m.at = "trunc" /\ m.copy = list /\ m.failed = mem[d].failed
      /\ m.file = mem[d].file /\ m.key = mem[d].key
  BY <1>2 DEF Memory
<1> HIDE DEF m
<1>7. /\ mem' \in [Procs -> Memory] /\ mem'[d] = m
      /\ \A q \in Procs \ {d} : mem'[q] = mem[q]
  BY <1>2, <1>4, <1>5, OwnMemory
<1>8. DropperOK(d)'
  <2>1. Here(d)' = Here(d) /\ mem[d].at = "append"
    BY <1>6, <1>7 DEF DropReadQueue, At, Here, Place
  <2>2. QED
    BY <1>2, <1>6, <1>7, <2>1
    DEF DropReadQueue, history, DropperOK, Written, Recorded, Handled
<1>9. MemOK(d)'
  <2>1. table' = table
    BY DEF DropReadQueue
  <2>2. Listed(mem[d].copy)'
    BY <1>3, <1>6, <1>7, <2>1 DEF Listed
  <2>3. Listed(mem[d].failed)'
    BY <1>2, <1>6, <1>7, <2>1 DEF MemOK, Listed
  <2>4. QED
    BY <1>2, <1>8, <2>2, <2>3 DEF MemOK
<1>10. Typed'
  BY <1>7 DEF DropReadQueue, history, IInv, Typed
<1>11. QED
  BY <1>1, <1>2, <1>7, <1>9, <1>10, StepOf

LEMMA DropTruncateOK ==
  ASSUME NEW d \in Droppers, IInv, DropTruncate(d)
  PROVE  IInv'
<1>1. CASE GiveUp(d) /\ UNCHANGED torn
  BY <1>1, GiveUpHere DEF DropTruncate, At, Written
<1>2. CASE torn' = TRUE /\ Goto(d, "fill") /\ UNCHANGED <<givenUp, faults>>
  <2>1. /\ Grows /\ RegisteredHasFile' /\ DeletedOnlyMirrored'
        /\ QueuedOnlyRegistered'
    BY <1>2, PrivateStep DEF DropTruncate
  <2>2. /\ d \in Procs /\ mem[d].at = "trunc" /\ vault[Here(d)] # None
        /\ table[Here(d)] # None /\ <<mem[d].file, mem[d].key>> \in Handled
    BY OfDropper DEF DropTruncate, At, DropperOK, Written, Recorded
  <2>3. /\ vault'[Here(d)] # None /\ table'[Here(d)] # None
        /\ <<mem[d].file, mem[d].key>> \in Handled'
    BY <2>1, <2>2 DEF DropTruncate, Grows
  <2>4. /\ mem' \in [Procs -> Memory] /\ MemOK(d)'
        /\ \A q \in Procs \ {d} : mem'[q] = mem[q]
    BY <1>2, <2>1, <2>2, <2>3, GotoOK DEF Written
  <2>5. Typed'
    BY <1>2, <2>4 DEF DropTruncate, IInv, Typed
  <2>6. QED
    BY <2>1, <2>2, <2>4, <2>5, StepOf
<1>3. QED
  BY <1>1, <1>2 DEF DropTruncate

\* Filling the queue with registered places.
LEMMA Fills ==
  ASSUME NEW list \in Seq(Places), IInv, Listed(list), Fill(list),
         UNCHANGED <<disk, vault, table, dropped, mirrored, givenUp>>
  PROVE  /\ Grows /\ queue' \in Seq(Places) /\ torn' \in BOOLEAN
         /\ RegisteredHasFile' /\ QueuedOnlyRegistered' /\ DeletedOnlyMirrored'
<1>1. Grows /\ RegisteredHasFile' /\ DeletedOnlyMirrored'
  BY PrivateStep
<1>2. queue' \in Seq(Places) /\ torn' \in BOOLEAN
  BY DEF Fill, IInv, Typed
<1>3. QueuedOnlyRegistered'
  BY DEF Fill, Listed, QueuedOnlyRegistered
<1>4. QED
  BY <1>1, <1>2, <1>3

LEMMA DropFillOK ==
  ASSUME NEW d \in Droppers, IInv, DropFill(d)
  PROVE  IInv'
<1>1. /\ d \in Procs /\ mem[d] \in Memory /\ mem[d].at = "fill"
      /\ Here(d) \in Places /\ table[Here(d)] # None
      /\ Listed(mem[d].copy) /\ <<mem[d].file, mem[d].key>> \in Handled
  BY OfDropper DEF DropFill, At, DropperOK, MemOK, Written, Recorded
<1>2. CASE GiveUp(d) /\ Abandon /\ UNCHANGED torn
  <2>1. torn' \in BOOLEAN
    BY <1>2 DEF IInv, Typed
  <2>2. QED
    BY <1>1, <1>2, <2>1, Abandons, GiveUpOK DEF DropFill, Written
<1>3. CASE /\ Fill(Append(mem[d].copy, Here(d))) /\ lost' = lost \ {Here(d)}
           /\ NextKey(d) /\ UNCHANGED <<givenUp, faults>>
  <2>1. /\ Append(mem[d].copy, Here(d)) \in Seq(Places)
        /\ Listed(Append(mem[d].copy, Here(d)))
    BY <1>1, AppendListed DEF Memory
  <2>2. /\ Grows /\ queue' \in Seq(Places) /\ torn' \in BOOLEAN
        /\ RegisteredHasFile' /\ QueuedOnlyRegistered' /\ DeletedOnlyMirrored'
    BY <1>3, <2>1, Fills DEF DropFill
  <2>3. /\ mem' \in [Procs -> Memory] /\ MemOK(d)'
        /\ \A q \in Procs \ {d} : mem'[q] = mem[q]
    BY <1>1, <1>3, <2>2, NextKeyOK DEF Grows, Written
  <2>4. Typed'
    BY <1>3, <2>2, <2>3 DEF DropFill, IInv, Typed
  <2>5. QED
    BY <1>1, <2>2, <2>3, <2>4, StepOf
<1>4. QED
  BY <1>2, <1>3 DEF DropFill

LEMMA DropDeleteOK ==
  ASSUME NEW d \in Droppers, IInv, DropDelete(d)
  PROVE  IInv'
<1> DEFINE m == [Blank EXCEPT !.at = "file", !.files = mem[d].files]
<1>1. /\ d \in Procs /\ mem[d] \in Memory /\ mem \in [Procs -> Memory]
      /\ mem[d].at = "delete" /\ DropperOK(d)
      /\ d \notin Agents /\ d \notin Validators
  BY OfDropper DEF DropDelete, At
<1>2. m \in Memory /\ mem' = [mem EXCEPT ![d] = m]
  BY <1>1, BlankIsMemory DEF Memory, DropDelete
<1>3. m.at = "file" /\ m.copy = << >> /\ m.failed = << >>
  BY DEF Blank
<1> HIDE DEF m
<1>4. /\ mem' \in [Procs -> Memory] /\ mem'[d] = m
      /\ \A q \in Procs \ {d} : mem'[q] = mem[q]
  BY <1>1, <1>2, OwnMemory
<1>5. MemOK(d)'
  BY <1>1, <1>3, <1>4, NothingListed DEF MemOK, DropperOK, Written, Recorded
<1>6. /\ Grows /\ RegisteredHasFile' /\ QueuedOnlyRegistered'
  BY DEF DropDelete, history, Grows, Handled, IInv, RegisteredHasFile,
         QueuedOnlyRegistered
<1>7. DeletedOnlyMirrored'
  <2>1. \A i \in DOMAIN KeysOf[mem[d].file] : <<mem[d].file, i>> \in Handled
    BY <1>1 DEF DropperOK
  <2>2. disk \ {mem[d].file} \subseteq disk'
    BY DEF DropDelete
  <2>3. dropped' = dropped /\ mirrored' = mirrored /\ givenUp' = givenUp
    BY DEF DropDelete, history
  <2>4. QED
    BY <2>1, <2>2, <2>3 DEF IInv, DeletedOnlyMirrored, Handled
<1>8. Typed'
  <2>1. disk' \subseteq disk /\ faults' \in 0..MaxFaults
    BY IntakeType DEF DropDelete, Fault, IInv, Typed
  <2>2. QED
    BY <1>4, <2>1 DEF DropDelete, history, IInv, Typed
<1>9. QED
  BY <1>1, <1>4, <1>5, <1>6, <1>7, <1>8, StepOf

\* A step of an agent to the entry it is at, or past one.
LEMMA AgentMemory ==
  ASSUME NEW a \in Agents, IInv, Grows, NEW m \in Memory,
         mem' = [mem EXCEPT ![a] = m], Listed(m.copy), Listed(m.failed),
         m.at = "settle" => m.copy # << >>
  PROVE  /\ mem' \in [Procs -> Memory] /\ MemOK(a)'
         /\ \A q \in Procs \ {a} : mem'[q] = mem[q]
<1>1. /\ a \in Procs /\ mem \in [Procs -> Memory]
      /\ a \notin Droppers /\ a \notin Validators
  BY OfAgent
<1>2. /\ mem' \in [Procs -> Memory] /\ mem'[a] = m
      /\ \A q \in Procs \ {a} : mem'[q] = mem[q]
  BY <1>1, OwnMemory
<1>3. /\ \A j \in DOMAIN m.copy : table'[m.copy[j]] # None
      /\ \A j \in DOMAIN m.failed : table'[m.failed[j]] # None
  <2>1. m.copy \in Seq(Places) /\ m.failed \in Seq(Places)
    BY DEF Memory
  <2>2. QED
    BY <2>1, ListedStays DEF Listed
<1>4. Listed(mem[a].copy)' /\ Listed(mem[a].failed)'
  BY <1>2, <1>3 DEF Listed
<1>5. QED
  BY <1>1, <1>2, <1>4 DEF MemOK

LEMMA AgentLoadOK ==
  ASSUME NEW a \in Agents, IInv, AgentLoad(a)
  PROVE  IInv'
<1>1. /\ Grows /\ RegisteredHasFile' /\ DeletedOnlyMirrored'
      /\ QueuedOnlyRegistered'
  BY PrivateStep DEF AgentLoad
<1>2. PICK b \in BOOLEAN :
        mem' = [mem EXCEPT ![a] = [Blank EXCEPT !.at = "entry", !.copy = queue, !.dry = b]]
  BY DEF AgentLoad
<1> DEFINE m == [Blank EXCEPT !.at = "entry", !.copy = queue, !.dry = b]
<1>3. m \in Memory
  BY BlankIsMemory DEF Memory, IInv, Typed
<1>4. m.at = "entry" /\ m.copy = queue /\ m.failed = << >>
  BY DEF Blank
<1>5. Listed(queue)
  BY DEF IInv, QueuedOnlyRegistered, Listed
<1>6. mem' = [mem EXCEPT ![a] = m]
  BY <1>2
<1> HIDE DEF m
<1>7. /\ mem' \in [Procs -> Memory] /\ MemOK(a)'
      /\ \A q \in Procs \ {a} : mem'[q] = mem[q]
  BY <1>1, <1>3, <1>4, <1>5, <1>6, NothingListed, AgentMemory
<1>8. Typed'
  BY <1>7 DEF AgentLoad, Begins, At, Busy, IInv, Typed
<1>9. QED
  BY <1>1, <1>7, <1>8, OfAgent, StepOf

\* Steps of an agent that change nothing but its memory.
LEMMA AgentAlone ==
  ASSUME NEW a \in Agents, IInv, NEW m \in Memory,
         mem' = [mem EXCEPT ![a] = m], Listed(m.copy), Listed(m.failed),
         m.at = "settle" => m.copy # << >>, faults' \in 0..MaxFaults,
         UNCHANGED <<disk, vault, table, queue, torn, history>>
  PROVE  IInv'
<1>1. /\ Grows /\ RegisteredHasFile' /\ DeletedOnlyMirrored'
      /\ QueuedOnlyRegistered'
  BY PrivateStep DEF history
<1>2. /\ mem' \in [Procs -> Memory] /\ MemOK(a)'
      /\ \A q \in Procs \ {a} : mem'[q] = mem[q]
  BY <1>1, AgentMemory
<1>3. Typed'
  BY <1>2 DEF history, IInv, Typed
<1>4. QED
  BY <1>1, <1>2, <1>3, OfAgent, StepOf

LEMMA AgentProbeOK ==
  ASSUME NEW a \in Agents, IInv, AgentProbe(a) \/ AgentAsk(a)
  PROVE  IInv'
<1>1. PICK v \in Statuses :
        mem' = [mem EXCEPT ![a].at = "settle", ![a].status = v]
  BY DEF AgentProbe, AgentAsk, Probe, Statuses
<1> DEFINE m == [mem[a] EXCEPT !.at = "settle", !.status = v]
<1>2. m \in Memory /\ mem' = [mem EXCEPT ![a] = m]
  <2>1. mem[a] \in Memory
    BY OfAgent
  <2>2. m \in Memory
    BY <2>1 DEF Memory
  <2>3. mem' = [mem EXCEPT ![a] = m]
    BY <1>1, <2>1 DEF Memory
  <2>4. QED
    BY <2>2, <2>3
<1>3. m.copy = mem[a].copy /\ m.failed = mem[a].failed
  BY OfAgent DEF Memory
<1> HIDE DEF m
<1>4. m.copy # << >>
  BY <1>3 DEF AgentProbe, AgentAsk, AtEntry
<1>5. faults' \in 0..MaxFaults
  BY DEF AgentProbe, AgentAsk, IInv, Typed
<1>6. QED
  BY <1>2, <1>3, <1>4, <1>5, OfAgent, AgentAlone DEF AgentProbe, AgentAsk

LEMMA AgentPassOK ==
  ASSUME NEW a \in Agents, IInv, AgentPass(a)
  PROVE  IInv'
<1> DEFINE m == [mem[a] EXCEPT !.copy = Tail(@)]
<1>1. /\ mem[a] \in Memory /\ mem[a].copy # << >> /\ mem[a].at = "entry"
      /\ Tail(mem[a].copy) \in Seq(Places) /\ Listed(Tail(mem[a].copy))
  BY OfAgent, FirstListed DEF AgentPass, AtEntry, At, Memory
<1>2. m \in Memory /\ mem' = [mem EXCEPT ![a] = m]
  BY <1>1, OfAgent DEF Memory, AgentPass
<1>3. /\ m.copy = Tail(mem[a].copy) /\ m.failed = mem[a].failed /\ m.at = "entry"
  BY <1>1 DEF Memory
<1> HIDE DEF m
<1>4. faults' \in 0..MaxFaults
  BY DEF AgentPass, IInv, Typed
<1>5. Listed(m.copy) /\ Listed(m.failed)
  BY <1>1, <1>3, OfAgent
<1>6. m.at # "settle"
  BY <1>3
<1>7. UNCHANGED <<disk, vault, table, queue, torn, history>>
  BY DEF AgentPass
<1>8. QED
  BY <1>2, <1>4, <1>5, <1>6, <1>7, AgentAlone

LEMMA AgentFailOK ==
  ASSUME NEW a \in Agents, IInv, AgentFail(a)
  PROVE  IInv'
<1> DEFINE m == [mem[a] EXCEPT !.at = "entry", !.copy = Tail(@), !.status = "bad",
                               !.failed = Append(@, Entry(a))]
<1>1. mem[a] \in Memory /\ mem[a].copy # << >>
  BY OfAgent DEF AgentFail, AtEntry, At
<1>2. /\ Tail(mem[a].copy) \in Seq(Places) /\ Listed(Tail(mem[a].copy))
      /\ Entry(a) \in Places /\ table[Entry(a)] # None
  BY <1>1, OfAgent, FirstListed DEF Memory, Entry
<1>3. /\ Append(mem[a].failed, Entry(a)) \in Seq(Places)
      /\ Listed(Append(mem[a].failed, Entry(a)))
  BY <1>1, <1>2, OfAgent, AppendListed DEF Memory
<1>4. m \in Memory
  BY <1>1, <1>2, <1>3 DEF Memory, Statuses
<1>5. mem' = [mem EXCEPT ![a] = m]
  BY <1>1, OfAgent DEF AgentFail, Memory
<1>6. /\ m.copy = Tail(mem[a].copy) /\ m.at = "entry"
      /\ m.failed = Append(mem[a].failed, Entry(a))
  BY <1>1 DEF Memory
<1> HIDE DEF m
<1>7. faults' \in 0..MaxFaults
  BY IntakeType DEF AgentFail, Fault, IInv, Typed
<1>8. Listed(m.copy) /\ Listed(m.failed)
  BY <1>2, <1>3, <1>6
<1>9. m.at # "settle"
  BY <1>6
<1>10. UNCHANGED <<disk, vault, table, queue, torn, history>>
  BY DEF AgentFail
<1>11. QED
  BY <1>4, <1>5, <1>7, <1>8, <1>9, <1>10, AgentAlone

LEMMA AgentSettleOK ==
  ASSUME NEW a \in Agents, IInv, AgentSettle(a)
  PROVE  IInv'
<1> DEFINE m == [mem[a] EXCEPT !.at = "entry", !.copy = Tail(@), !.status = "bad"]
<1>1. /\ mem[a] \in Memory /\ mem[a].copy # << >> /\ mem[a].status \in Statuses
      /\ mem[a].copy \in Seq(Places)
  BY OfAgent DEF AgentSettle, At, Memory
<1>2. /\ Tail(mem[a].copy) \in Seq(Places) /\ Listed(Tail(mem[a].copy))
      /\ Entry(a) \in Places /\ table[Entry(a)] # None
  BY <1>1, OfAgent, FirstListed DEF Entry
<1>3. vault[Entry(a)] # None
  BY <1>2 DEF IInv, RegisteredHasFile
<1>4. /\ Grows /\ table' \in [Places -> Statuses \cup {None}]
      /\ RegisteredHasFile' /\ QueuedOnlyRegistered' /\ DeletedOnlyMirrored'
  BY <1>1, <1>2, <1>3, Registers DEF AgentSettle
<1>5. m \in Memory
  BY <1>1, <1>2 DEF Memory, Statuses
<1>6. mem' = [mem EXCEPT ![a] = m]
  BY <1>1, OfAgent DEF AgentSettle, Memory
<1>7. /\ m.copy = Tail(mem[a].copy) /\ m.at = "entry" /\ m.failed = mem[a].failed
  BY <1>1 DEF Memory
<1> HIDE DEF m
<1>8. /\ mem' \in [Procs -> Memory] /\ MemOK(a)'
      /\ \A q \in Procs \ {a} : mem'[q] = mem[q]
  BY <1>2, <1>4, <1>5, <1>6, <1>7, OfAgent, AgentMemory
<1>9. Typed'
  BY <1>4, <1>8 DEF AgentSettle, IInv, Typed
<1>10. QED
  BY <1>4, <1>8, <1>9, OfAgent, StepOf

LEMMA AgentTruncateOK ==
  ASSUME NEW a \in Agents, IInv, AgentTruncate(a)
  PROVE  IInv'
<1>1. faults' \in 0..MaxFaults
  BY IntakeType DEF AgentTruncate, Fault, IInv, Typed
<1>2. CASE Exit(a) /\ UNCHANGED torn
  BY <1>1, <1>2, OfAgent, ExitHere DEF AgentTruncate, history
<1>3. CASE Goto(a, "fill") /\ torn' = TRUE
  <2> DEFINE m == [mem[a] EXCEPT !.at = "fill"]
  <2>1. m \in Memory /\ mem' = [mem EXCEPT ![a] = m]
    <3>1. mem[a] \in Memory
      BY OfAgent
    <3>2. m \in Memory
      BY <3>1 DEF Memory
    <3>3. mem' = [mem EXCEPT ![a] = m]
      BY <1>3, <3>1 DEF Goto, Memory
    <3>4. QED
      BY <3>2, <3>3
  <2>2. m.at = "fill" /\ m.copy = mem[a].copy /\ m.failed = mem[a].failed
    BY OfAgent DEF Memory
  <2> HIDE DEF m
  <2>3. /\ Grows /\ RegisteredHasFile' /\ DeletedOnlyMirrored'
        /\ QueuedOnlyRegistered'
    BY PrivateStep DEF AgentTruncate, history
  <2>4. /\ mem' \in [Procs -> Memory] /\ MemOK(a)'
        /\ \A q \in Procs \ {a} : mem'[q] = mem[q]
    BY <2>1, <2>2, <2>3, OfAgent, AgentMemory
  <2>5. Typed'
    BY <1>1, <1>3, <2>4 DEF AgentTruncate, history, IInv, Typed
  <2>6. QED
    BY <2>3, <2>4, <2>5, OfAgent, StepOf
<1>4. QED
  BY <1>2, <1>3 DEF AgentTruncate

LEMMA AgentFillOK ==
  ASSUME NEW a \in Agents, IInv, AgentFill(a)
  PROVE  IInv'
<1>1. CASE Fill(mem[a].failed) /\ UNCHANGED <<lost, faults>>
  <2>1. mem[a].failed \in Seq(Places) /\ Listed(mem[a].failed)
    BY OfAgent DEF Memory
  <2>2. /\ Grows /\ queue' \in Seq(Places) /\ torn' \in BOOLEAN
        /\ RegisteredHasFile' /\ QueuedOnlyRegistered' /\ DeletedOnlyMirrored'
    BY <1>1, <2>1, Fills DEF AgentFill
  <2>3. /\ mem' \in [Procs -> Memory] /\ MemOK(a)'
        /\ \A q \in Procs \ {a} : mem'[q] = mem[q]
    BY OfAgent, Exits DEF AgentFill
  <2>4. Typed'
    BY <1>1, <2>2, <2>3 DEF AgentFill, IInv, Typed
  <2>5. QED
    BY <2>2, <2>3, <2>4, OfAgent, StepOf
<1>2. CASE Abandon /\ Fault /\ UNCHANGED torn
  <2>1. faults' \in 0..MaxFaults /\ torn' \in BOOLEAN /\ disturbed' \in BOOLEAN
    BY <1>2, IntakeType DEF AgentFill, Fault, IInv, Typed
  <2>2. QED
    BY <1>2, <2>1, Abandons, OfAgent, ExitOK DEF AgentFill
<1>3. QED
  BY <1>1, <1>2 DEF AgentFill

LEMMA ValidatorProbeOK ==
  ASSUME NEW v \in Validators, IInv, ValidatorProbe(v)
  PROVE  IInv'
<1>1. /\ Grows /\ RegisteredHasFile' /\ DeletedOnlyMirrored'
      /\ QueuedOnlyRegistered'
  BY PrivateStep DEF ValidatorProbe, history
<1>2. PICK s \in Places, r \in Statuses :
        /\ vault[s] # None
        /\ mem' = [mem EXCEPT ![v].at = "register", ![v].place = s, ![v].status = r]
  BY DEF ValidatorProbe, Probe, Statuses
<1> DEFINE m == [mem[v] EXCEPT !.at = "register", !.place = s, !.status = r]
<1>3. /\ v \in Procs /\ mem[v] \in Memory /\ mem \in [Procs -> Memory]
      /\ v \notin Droppers /\ v \notin Agents
      /\ Listed(mem[v].copy) /\ Listed(mem[v].failed)
  BY OfValidator
<1>4. m \in Memory /\ mem' = [mem EXCEPT ![v] = m]
  BY <1>2, <1>3 DEF Memory
<1>5. m.copy = mem[v].copy /\ m.failed = mem[v].failed /\ m.place = s
  BY <1>3 DEF Memory
<1> HIDE DEF m
<1>6. /\ mem' \in [Procs -> Memory] /\ mem'[v] = m
      /\ \A q \in Procs \ {v} : mem'[q] = mem[q]
  BY <1>3, <1>4, OwnMemory
<1>7. table' = table /\ vault' = vault
  BY DEF ValidatorProbe
<1>8. MemOK(v)'
  BY <1>2, <1>3, <1>5, <1>6, <1>7 DEF MemOK, Listed
<1>9. Typed'
  BY <1>6 DEF ValidatorProbe, history, IInv, Typed
<1>10. QED
  BY <1>1, <1>3, <1>6, <1>8, <1>9, StepOf

LEMMA ValidatorRegisterOK ==
  ASSUME NEW v \in Validators, IInv, ValidatorRegister(v)
  PROVE  IInv'
<1>1. CASE Fault /\ UNCHANGED table
  <2>1. faults' \in 0..MaxFaults
    BY <1>1, IntakeType DEF Fault, IInv, Typed
  <2>2. QED
    BY <1>1, <2>1, OfValidator, ExitHere DEF ValidatorRegister, history
<1>2. CASE /\ table' = [table EXCEPT ![mem[v].place] = mem[v].status]
           /\ UNCHANGED faults
  <2>1. /\ mem[v].place \in Places /\ vault[mem[v].place] # None
        /\ mem[v].status \in Statuses
    BY OfValidator DEF ValidatorRegister, At, Memory
  <2>2. /\ Grows /\ table' \in [Places -> Statuses \cup {None}]
        /\ RegisteredHasFile' /\ QueuedOnlyRegistered' /\ DeletedOnlyMirrored'
    BY <1>2, <2>1, Registers DEF ValidatorRegister, history
  <2>3. /\ mem' \in [Procs -> Memory] /\ MemOK(v)'
        /\ \A q \in Procs \ {v} : mem'[q] = mem[q]
    BY OfValidator, Exits DEF ValidatorRegister
  <2>4. Typed'
    BY <1>2, <2>2, <2>3 DEF ValidatorRegister, history, IInv, Typed
  <2>5. QED
    BY <2>2, <2>3, <2>4, OfValidator, StepOf
<1>3. QED
  BY <1>1, <1>2 DEF ValidatorRegister

-----------------------------------------------------------------------------
(* The invariant.                                                          *)

LEMMA IInvInit == Init => IInv
<1> SUFFICES ASSUME Init PROVE IInv
  OBVIOUS
<1>1. Typed
  <2>1. << >> \in Seq(Places) /\ 0 \in 0..MaxFaults
    BY EmptySeq, IntakeType
  <2>2. [p \in Procs |-> Blank] \in [Procs -> Memory]
    BY BlankIsMemory
  <2>3. QED
    BY <2>1, <2>2 DEF Init, Typed
<1>2. ASSUME NEW p \in Procs PROVE MemOK(p)
  BY NothingListed DEF Init, Blank, MemOK, DropperOK, Written, Recorded
<1>3. RegisteredHasFile /\ QueuedOnlyRegistered /\ DeletedOnlyMirrored
  BY EmptySeq DEF Init, RegisteredHasFile, QueuedOnlyRegistered,
                  DeletedOnlyMirrored
<1>4. QED
  BY <1>1, <1>2, <1>3 DEF IInv

LEMMA IInvStep == IInv /\ [Next]_vars => IInv'
<1> SUFFICES ASSUME IInv, [Next]_vars PROVE IInv'
  OBVIOUS
<1>1. ASSUME NEW f \in Files, Drop(f) PROVE IInv'
  BY <1>1, DropOK
<1>2. ASSUME NEW d \in Droppers, Dropper(d) PROVE IInv'
  BY <1>2, DropListOK, DropGetOK, DropSkipOK, DropEndOK, DropWriteOK, DropStoreOK,
     DropJudgeOK, DropRegisterOK, DropReadQueueOK, DropTruncateOK, DropFillOK, DropDeleteOK
  DEF Dropper
<1>3. ASSUME NEW a \in Agents, Agent(a) PROVE IInv'
  BY <1>3, AgentLoadOK, AgentProbeOK, AgentPassOK, AgentSettleOK, AgentFailOK,
     AgentTruncateOK, AgentFillOK
  DEF Agent
<1>4. ASSUME NEW v \in Validators, Validator(v) PROVE IInv'
  BY <1>4, ValidatorProbeOK, ValidatorRegisterOK DEF Validator
<1>5. ASSUME NEW p \in Procs, Crash(p) PROVE IInv'
  BY <1>5, CrashOK
<1>6. CASE UNCHANGED vars
  <2>1. Grows /\ Typed'
    BY <1>6 DEF vars, history, Grows, Handled, IInv, Typed
  <2>2. ASSUME NEW p \in Procs PROVE MemOK(p)'
    BY <1>6, <2>1, OthersKeep DEF vars, IInv, Typed
  <2>3. RegisteredHasFile' /\ QueuedOnlyRegistered' /\ DeletedOnlyMirrored'
    BY <1>6 DEF vars, history, IInv, RegisteredHasFile, QueuedOnlyRegistered,
                DeletedOnlyMirrored
  <2>4. QED
    BY <2>1, <2>2, <2>3 DEF IInv
<1>7. QED
  BY <1>1, <1>2, <1>3, <1>4, <1>5, <1>6 DEF Next

LEMMA Invariant == Spec => []IInv
  BY IInvInit, IInvStep, PTL DEF Spec

\* The types of the state of key intake (keydrop, validate-pending and
\* validate-keys): a program past a download is at a key of its file, and one
\* about to register is at a place of the vault.
THEOREM IntakeTypes == Spec => []TypeOK
<1>1. IInv => TypeOK
  <2> SUFFICES ASSUME IInv PROVE TypeOK
    OBVIOUS
  <2>1. \A d \in Droppers :
          mem[d].at \in {"write", "store", "judge", "register", "append", "trunc", "fill",
                         "delete"} =>
            mem[d].file \in Files /\ mem[d].key \in DOMAIN KeysOf[mem[d].file]
    BY OfDropper DEF Written
  <2>2. QED
    BY <2>1, OfAgent, OfValidator DEF IInv, Typed, TypeOK
<1>2. QED
  BY <1>1, Invariant, PTL

\* keydrop deletes a file from the Disk only when it has written each of its
\* keys to the vault, or has logged an error for it.
THEOREM DeletionIsSafe == Spec => []DeletedOnlyMirrored
<1>1. IInv => DeletedOnlyMirrored
  BY DEF IInv
<1>2. QED
  BY <1>1, Invariant, PTL

-----------------------------------------------------------------------------
(* What the vault holds: every whole key in it was written there by        *)
(* keydrop, and every file without one is being written or was cut short.  *)

\* Who put the key at place s there.
Source(s) == \E g \in Files : \E i \in DOMAIN KeysOf[g] :
               /\ s = Place(g, i) /\ <<g, i>> \in mirrored
               /\ vault[s] = KeysOf[g][i]

Sourced == \A s \in Places : vault[s] = None \/ Marred(s) \/ Source(s)

MirroredHasFile == \A f \in Files : \A i \in DOMAIN KeysOf[f] :
                     <<f, i>> \in mirrored => vault[Place(f, i)] # None

VaultInv == IInv /\ Sourced /\ MirroredHasFile

\* The droppers that are filling the file at s go on doing so, or leave it cut
\* short.
StoresStay(s) == /\ cut \subseteq cut' /\ mirrored \subseteq mirrored'
                 /\ \A e \in Droppers : mem[e].at = "store" /\ Here(e) = s =>
                      mem'[e] = mem[e] \/ Key(e) \in cut'

\* No step touches the memory of another program.
LEMMA OnlyDropper ==
  ASSUME NEW d \in Droppers, IInv, Dropper(d)
  PROVE  \A q \in Procs : q # d => mem'[q] = mem[q]
<1>1. mem \in [Procs -> Memory] /\ d \in Procs
  BY OfDropper
<1>2. CASE DropList(d) \/ DropGet(d) \/ DropSkip(d) \/ DropEnd(d)
  BY <1>1, <1>2 DEF DropList, DropGet, DropSkip, DropEnd, Exit
<1>3. CASE NextKey(d)
  BY <1>1, <1>3 DEF NextKey
<1>4. CASE DropWrite(d) \/ DropStore(d)
  BY <1>1, <1>3, <1>4 DEF DropWrite, DropStore, Goto, GiveUp
<1>5. CASE DropJudge(d) \/ DropReadQueue(d) \/ DropDelete(d)
  BY <1>1, <1>5 DEF DropJudge, DropReadQueue, DropDelete
<1>6. CASE DropRegister(d) \/ DropTruncate(d) \/ DropFill(d)
  BY <1>1, <1>3, <1>6 DEF DropRegister, DropTruncate, DropFill, Goto, GiveUp
<1>7. QED
  BY <1>2, <1>4, <1>5, <1>6 DEF Dropper

LEMMA OnlyAgent ==
  ASSUME NEW a \in Agents, IInv, Agent(a)
  PROVE  \A q \in Procs : q # a => mem'[q] = mem[q]
<1>1. mem \in [Procs -> Memory] /\ a \in Procs
  BY OfAgent
<1>2. CASE AgentLoad(a) \/ AgentProbe(a) \/ AgentAsk(a) \/ AgentPass(a)
  BY <1>1, <1>2 DEF AgentLoad, AgentProbe, AgentAsk, AgentPass
<1>3. CASE AgentSettle(a) \/ AgentFail(a) \/ AgentTruncate(a) \/ AgentFill(a)
  BY <1>1, <1>3 DEF AgentSettle, AgentFail, AgentTruncate, AgentFill, Goto, Exit
<1>4. QED
  BY <1>2, <1>3 DEF Agent

LEMMA OnlyValidator ==
  ASSUME NEW v \in Validators, IInv, Validator(v)
  PROVE  \A q \in Procs : q # v => mem'[q] = mem[q]
<1>1. mem \in [Procs -> Memory] /\ v \in Procs
  BY OfValidator
<1>2. QED
  BY <1>1 DEF Validator, ValidatorProbe, ValidatorRegister, Exit

\* Only the two halves of os.WriteFile, and a crash between them, concern the
\* vault.
LEMMA VaultElsewhere ==
  ASSUME IInv, [Next]_vars, \A d \in Droppers : ~DropWrite(d) /\ ~DropStore(d)
  PROVE  UNCHANGED <<vault, mirrored>> /\ \A s \in Places : StoresStay(s)
<1>1. CASE UNCHANGED vars
  BY <1>1 DEF vars, history, StoresStay
<1>2. ASSUME NEW f \in Files, Drop(f)
      PROVE  UNCHANGED <<vault, mirrored>> /\ \A s \in Places : StoresStay(s)
  BY <1>2 DEF Drop, StoresStay
<1>3. ASSUME NEW d \in Droppers, Dropper(d)
      PROVE  UNCHANGED <<vault, mirrored>> /\ \A s \in Places : StoresStay(s)
  <2>1. UNCHANGED <<vault, mirrored, cut>> /\ mem[d].at # "store"
    BY <1>3 DEF Dropper, DropList, Begins, DropGet, DropSkip, DropEnd, DropJudge,
       DropRegister, DropReadQueue, DropTruncate, DropFill, DropDelete, history, At
  <2>2. \A q \in Procs : q # d => mem'[q] = mem[q]
    BY <1>3, OnlyDropper
  <2>3. QED
    BY <2>1, <2>2 DEF StoresStay, Procs
<1>4. ASSUME NEW a \in Agents, Agent(a)
      PROVE  UNCHANGED <<vault, mirrored>> /\ \A s \in Places : StoresStay(s)
  <2>1. UNCHANGED <<vault, mirrored, cut>>
    BY <1>4 DEF Agent, AgentLoad, AgentProbe, AgentAsk, AgentPass, AgentSettle,
       AgentFail, AgentTruncate, AgentFill, history
  <2>2. QED
    BY <1>4, <2>1, OnlyAgent, OfAgent DEF StoresStay, Procs
<1>5. ASSUME NEW v \in Validators, Validator(v)
      PROVE  UNCHANGED <<vault, mirrored>> /\ \A s \in Places : StoresStay(s)
  <2>1. UNCHANGED <<vault, mirrored, cut>>
    BY <1>5 DEF Validator, ValidatorProbe, ValidatorRegister, history
  <2>2. QED
    BY <1>5, <2>1, OnlyValidator, OfValidator DEF StoresStay, Procs
<1>6. ASSUME NEW p \in Procs, Crash(p)
      PROVE  UNCHANGED <<vault, mirrored>> /\ \A s \in Places : StoresStay(s)
  <2>1. /\ UNCHANGED <<vault, mirrored>> /\ cut' = cut \cup {k \in {Key(p)} : At(p, "store")}
        /\ Exit(p) /\ mem \in [Procs -> Memory]
    BY <1>6 DEF Crash, IInv, Typed
  <2>2. \A q \in Procs : q # p => mem'[q] = mem[q]
    BY <2>1 DEF Exit
  <2>3. At(p, "store") => Key(p) \in cut'
    BY <2>1
  <2>4. QED
    BY <2>1, <2>2, <2>3 DEF StoresStay, Procs, At
<1>7. QED
  BY <1>1, <1>2, <1>3, <1>4, <1>5, <1>6 DEF Next

\* What was true of a place stays true while its file is not touched.
LEMMA MarsStays ==
  ASSUME NEW s, NEW g \in Files, NEW i, Mars(g, i, s), vault'[s] = vault[s], StoresStay(s)
  PROVE  Mars(g, i, s)'
<1>1. <<g, i>> \in cut' \/ \E d \in Droppers : At(d, "store")' /\ Key(d)' = <<g, i>>
  <2>1. CASE <<g, i>> \in cut
    BY <2>1 DEF StoresStay
  <2>2. ASSUME NEW d \in Droppers, At(d, "store"), Key(d) = <<g, i>>
        PROVE  \/ <<g, i>> \in cut'
               \/ \E e \in Droppers : At(e, "store")' /\ Key(e)' = <<g, i>>
    BY <2>2 DEF StoresStay, Mars, At, Key, Here
  <2>3. QED
    BY <2>1, <2>2 DEF Mars
<1>2. QED
  BY <1>1 DEF Mars, Place

LEMMA PlaceStays ==
  ASSUME NEW s \in Places, vault'[s] = vault[s], StoresStay(s),
         vault[s] = None \/ Marred(s) \/ Source(s)
  PROVE  vault'[s] = None \/ Marred(s)' \/ Source(s)'
<1>1. CASE Marred(s)
  <2>1. PICK g \in Files : \E i \in DOMAIN KeysOf[g] : Mars(g, i, s)
    BY <1>1 DEF Marred
  <2>2. PICK i \in DOMAIN KeysOf[g] : Mars(g, i, s)
    BY <2>1
  <2>3. Mars(g, i, s)'
    BY <2>2, MarsStays
  <2>4. QED
    BY <2>3 DEF Marred
<1>2. CASE Source(s)
  BY <1>2 DEF Source, StoresStay, Place
<1>3. QED
  BY <1>1, <1>2

\* The two halves of writing a key, and their failures: the place is as it was,
\* or its file is without a whole key and somebody's, or it has the key.
LEMMA TheWrite ==
  ASSUME NEW d \in Droppers, IInv, DropWrite(d) \/ DropStore(d),
         NEW h, NEW k, h = mem[d].file, k = mem[d].key
  PROVE  /\ h \in Files /\ k \in DOMAIN KeysOf[h] /\ Place(h, k) \in Places
         /\ vault \in [Places -> Secrets \cup {None, Broken}]
         /\ \A s \in Places : s # Place(h, k) => vault'[s] = vault[s] /\ StoresStay(s)
         /\ cut \subseteq cut' /\ mirrored \subseteq mirrored'
         /\ \/ /\ UNCHANGED <<vault, mirrored>> /\ GiveUp(d)
               /\ \A s \in Places : StoresStay(s)
            \/ Mars(h, k, Place(h, k))' /\ mirrored' \subseteq mirrored \cup {<<h, k>>}
            \/ /\ vault'[Place(h, k)] = KeysOf[h][k]
               /\ mirrored' = mirrored \cup {<<h, k>>}
<1>1. /\ mem[d].at \in {"write", "store"}
      /\ DropWrite(d) => mem[d].at = "write"
      /\ DropStore(d) => mem[d].at = "store"
  BY DEF DropWrite, DropStore, At
<1>2. /\ d \in Procs /\ h \in Files /\ k \in DOMAIN KeysOf[h] /\ Place(h, k) \in Places
      /\ Here(d) = Place(h, k) /\ Key(d) = <<h, k>> /\ Secret(d) = KeysOf[h][k]
      /\ mem \in [Procs -> Memory] /\ mem[d] \in Memory
  BY <1>1, OfDropper DEF Here, Key, Secret
<1>3. vault \in [Places -> Secrets \cup {None, Broken}]
  BY DEF IInv, Typed
<1>4. \A s \in Places : s # Place(h, k) => vault'[s] = vault[s]
  BY <1>2, <1>3 DEF DropWrite, DropStore
<1>5. cut \subseteq cut' /\ mirrored \subseteq mirrored'
  BY DEF DropWrite, DropStore
<1>6. \A q \in Procs : q # d => mem'[q] = mem[q]
  BY OnlyDropper DEF Dropper
<1>7. \A s \in Places : s # Place(h, k) => StoresStay(s)
  BY <1>2, <1>5, <1>6 DEF StoresStay, Procs
<1>8. CASE GiveUp(d) /\ UNCHANGED <<vault, mirrored>>
  <2>1. mem[d].at = "store" => Key(d) \in cut'
    <3>1. CASE DropWrite(d)
      BY <3>1, <1>1
    <3>2. CASE DropStore(d) /\ cut' = cut \cup {Key(d)}
      BY <3>2
    <3>3. CASE DropStore(d) /\ Goto(d, "judge")
      <4>1. mem'[d].at = "judge"
        BY <1>2, <3>3 DEF Goto, Memory
      <4>2. mem'[d].at \in {"write", "delete"}
        BY <1>2, <1>8 DEF GiveUp, NextKey, Memory
      <4>3. QED
        BY <4>1, <4>2
    <3>4. QED
      BY <3>1, <3>2, <3>3 DEF DropStore
  <2>2. \A s \in Places : StoresStay(s)
    BY <1>5, <1>6, <2>1 DEF StoresStay, Procs
  <2>3. QED
    BY <1>2, <1>3, <1>4, <1>5, <1>7, <1>8, <2>2
<1>9. CASE /\ DropWrite(d) /\ vault' = [vault EXCEPT ![Here(d)] = Broken]
           /\ Goto(d, "store") /\ UNCHANGED mirrored
  <2>1. mem'[d].at = "store" /\ mem'[d].file = h /\ mem'[d].key = k
    BY <1>2, <1>9 DEF Goto, Memory
  <2>2. vault'[Place(h, k)] = Broken
    BY <1>2, <1>3, <1>9
  <2>3. Mars(h, k, Place(h, k))'
    BY <2>1, <2>2 DEF Mars, At, Key, Place
  <2>4. QED
    BY <1>2, <1>3, <1>4, <1>5, <1>7, <1>9, <2>3
<1>10. CASE vault' = [vault EXCEPT ![Here(d)] = Secret(d)] /\ mirrored' = mirrored \cup {Key(d)}
  <2>1. vault'[Place(h, k)] = KeysOf[h][k]
    BY <1>2, <1>3, <1>10
  <2>2. QED
    BY <1>2, <1>3, <1>4, <1>5, <1>7, <1>10, <2>1
<1>11. CASE /\ vault' = [vault EXCEPT ![Here(d)] = Broken] /\ cut' = cut \cup {Key(d)}
            /\ mirrored' = mirrored \cup {Key(d)}
  <2>1. vault'[Place(h, k)] = Broken /\ <<h, k>> \in cut'
    BY <1>2, <1>3, <1>11
  <2>2. Mars(h, k, Place(h, k))'
    BY <2>1 DEF Mars, Place
  <2>3. QED
    BY <1>2, <1>3, <1>4, <1>5, <1>7, <1>11, <2>2
<1>12. QED
  BY <1>8, <1>9, <1>10, <1>11 DEF DropWrite, DropStore

LEMMA WriteGrows ==
  ASSUME NEW d \in Droppers, IInv, DropWrite(d) \/ DropStore(d)
  PROVE  \A s \in Places : vault[s] # None => vault'[s] # None
<1>1. Here(d) \in Places /\ Secret(d) # None
  BY OfDropper DEF DropWrite, DropStore, At
<1>2. vault \in [Places -> Secrets \cup {None, Broken}] /\ Broken # None
  BY IntakeType DEF IInv, Typed
<1>3. QED
  BY <1>1, <1>2 DEF DropWrite, DropStore

LEMMA VaultStep == VaultInv /\ [Next]_vars => VaultInv'
<1> SUFFICES ASSUME VaultInv, [Next]_vars PROVE VaultInv'
  OBVIOUS
<1>1. IInv /\ IInv'
  BY IInvStep DEF VaultInv
<1>2. CASE \A d \in Droppers : ~DropWrite(d) /\ ~DropStore(d)
  <2>1. UNCHANGED <<vault, mirrored>> /\ \A s \in Places : StoresStay(s)
    BY <1>1, <1>2, VaultElsewhere
  <2>2. \A s \in Places : vault'[s] = None \/ Marred(s)' \/ Source(s)'
    BY <2>1, PlaceStays DEF VaultInv, Sourced
  <2>3. Sourced' /\ MirroredHasFile'
    BY <2>1, <2>2 DEF VaultInv, Sourced, MirroredHasFile, Place
  <2>4. QED
    BY <1>1, <2>3 DEF VaultInv
<1>3. ASSUME NEW d \in Droppers, DropWrite(d) \/ DropStore(d) PROVE VaultInv'
  <2>1. PICK h, k : h = mem[d].file /\ k = mem[d].key
    OBVIOUS
  <2>2. /\ h \in Files /\ k \in DOMAIN KeysOf[h] /\ Place(h, k) \in Places
        /\ \A s \in Places : s # Place(h, k) => vault'[s] = vault[s] /\ StoresStay(s)
        /\ mirrored \subseteq mirrored'
    BY <1>1, <1>3, <2>1, TheWrite
  <2>3. \/ UNCHANGED <<vault, mirrored>> /\ \A s \in Places : StoresStay(s)
        \/ Mars(h, k, Place(h, k))' /\ mirrored' \subseteq mirrored \cup {<<h, k>>}
        \/ /\ vault'[Place(h, k)] = KeysOf[h][k]
           /\ mirrored' = mirrored \cup {<<h, k>>}
    BY <1>1, <1>3, <2>1, TheWrite
  <2>4. Sourced'
    <3> SUFFICES ASSUME NEW s \in Places
                 PROVE  vault'[s] = None \/ Marred(s)' \/ Source(s)'
      BY DEF Sourced
    <3>1. vault[s] = None \/ Marred(s) \/ Source(s)
      BY DEF VaultInv, Sourced
    <3>2. CASE vault'[s] = vault[s] /\ StoresStay(s)
      BY <3>1, <3>2, PlaceStays
    <3>3. CASE s = Place(h, k) /\ Mars(h, k, Place(h, k))'
      BY <2>2, <3>3 DEF Marred, Mars
    <3>4. CASE s = Place(h, k) /\ vault'[Place(h, k)] = KeysOf[h][k] /\ <<h, k>> \in mirrored'
      BY <2>2, <3>4 DEF Source, Place
    <3>5. QED
      BY <2>2, <2>3, <3>2, <3>3, <3>4
  <2>5. MirroredHasFile'
    <3> SUFFICES ASSUME NEW f \in Files, NEW i \in DOMAIN KeysOf[f], <<f, i>> \in mirrored'
                 PROVE  vault'[Place(f, i)] # None
      BY DEF MirroredHasFile, Place
    <3>1. Place(f, i) \in Places /\ KeysOf[h][k] # None
      BY <2>2, PlaceOfKey
    <3>3. <<f, i>> \in mirrored => vault[Place(f, i)] # None
      BY DEF VaultInv, MirroredHasFile
    <3>4. CASE <<f, i>> \in mirrored
      BY <1>1, <1>3, <3>1, <3>3, <3>4, WriteGrows
    <3>5. CASE <<f, i>> \notin mirrored
      <4>1. f = h /\ i = k
        BY <2>3, <3>5
      <4>2. mirrored' # mirrored
        BY <3>5
      <4>3. QED
        BY <2>3, <3>1, <4>1, <4>2, IntakeType DEF Mars
    <3>6. QED
      BY <3>4, <3>5
  <2>6. QED
    BY <1>1, <2>4, <2>5 DEF VaultInv
<1>4. QED
  BY <1>2, <1>3

LEMMA VaultInitially == Init => VaultInv
<1> SUFFICES ASSUME Init PROVE VaultInv
  OBVIOUS
<1>1. Sourced /\ MirroredHasFile
  BY DEF Init, Sourced, MirroredHasFile
<1>2. QED
  BY <1>1, IInvInit DEF VaultInv

LEMMA VaultInvariant == Spec => []VaultInv
  BY VaultInitially, VaultStep, PTL DEF Spec

\* The queue of validate-pending names only keys the table "keys" lists, and
\* each of these has a file in the vault, with a whole key unless a keydrop is
\* writing it, failed at it or died at it: whatever keydrop, validate-pending
\* and validate-keys do at the same time, and wherever they crash.
THEOREM QueueTableVault == Spec => []RegistryOrder
<1>1. VaultInv => RegistryOrder
  <2> SUFFICES ASSUME VaultInv PROVE RegistryOrder
    OBVIOUS
  <2>1. ASSUME NEW s \in Places, table[s] # None
        PROVE  vault[s] \in Secrets \/ Marred(s)
    <3>1. vault[s] # None /\ (Marred(s) \/ Source(s))
      BY <2>1 DEF VaultInv, Sourced, IInv, RegisteredHasFile
    <3>2. Source(s) => vault[s] \in Secrets
      BY PlaceOfKey DEF Source
    <3>3. QED
      BY <3>1, <3>2
  <2>2. QED
    BY <2>1 DEF VaultInv, IInv, RegistryOrder, RegisteredOnlyVaulted
<1>2. QED
  BY <1>1, VaultInvariant, PTL

-----------------------------------------------------------------------------
(* What a deleted file leaves in the vault, when one keydrop runs at a     *)
(* time and when several do.                                               *)

Solo == \A d, e \in Droppers : d = e

\* Key i of f is in the vault, or was given up, or is another file's doing.
Fine(f, i) == \/ vault[Place(f, i)] = KeysOf[f][i]
              \/ <<f, i>> \in givenUp
              \/ \E g \in Files \ {f} : Holds(f, i, g) \/ Mars(g, i, Place(f, i))

\* A single dropper's file is on the Disk until it deletes it; it finds the file
\* it fills as it has truncated it; and the keys it is done with are fine.
Filing == {"write", "store", "delete"} \cup Written
Passed(d, i) == \/ mem[d].at = "delete" \/ i < mem[d].key
                \/ mem[d].at \in Written /\ i = mem[d].key
SoloOK(d) ==
  mem[d].at \in Filing =>
    /\ mem[d].file \in disk
    /\ mem[d].at = "store" => vault[Here(d)] = Broken
    /\ \A i \in DOMAIN KeysOf[mem[d].file] : Passed(d, i) => Fine(mem[d].file, i)

DeletedFine == \A f \in dropped \ disk : \A i \in DOMAIN KeysOf[f] : Fine(f, i)

SoloInv == DeletedFine /\ \A d \in Droppers : SoloOK(d)

\* Where the file is not touched, a key that is fine stays so.
LEMMA FineStays ==
  ASSUME NEW f \in Files, NEW i, Fine(f, i), givenUp \subseteq givenUp',
         vault'[Place(f, i)] = vault[Place(f, i)], StoresStay(Place(f, i))
  PROVE  Fine(f, i)'
<1>1. ASSUME NEW g \in Files \ {f}, Mars(g, i, Place(f, i)) PROVE Mars(g, i, Place(f, i))'
  <2>1. PICK s : s = Place(f, i)
    OBVIOUS
  <2>2. Mars(g, i, s)'
    BY <1>1, <2>1, MarsStays
  <2>3. QED
    BY <2>1, <2>2 DEF Mars, Place
<1>2. ASSUME NEW g \in Files \ {f}, Holds(f, i, g) PROVE Holds(f, i, g)'
  BY <1>2 DEF Holds, StoresStay, Place
<1>3. CASE vault[Place(f, i)] = KeysOf[f][i] \/ <<f, i>> \in givenUp
  BY <1>3 DEF Fine, Place
<1>4. QED
  BY <1>1, <1>2, <1>3 DEF Fine

\* After NextKey the dropper is done with this key and those before it.
LEMMA NextKeyPasses ==
  ASSUME NEW d \in Droppers, IInv, NextKey(d), mem[d].at \in {"write", "store"} \cup Written,
         NEW h, NEW k, h = mem[d].file, k = mem[d].key
  PROVE  /\ mem'[d].file = h /\ mem'[d].at \in {"write", "delete"}
         /\ \A i \in DOMAIN KeysOf[h] : Passed(d, i)' => i = k \/ i < k
<1>1. /\ d \in Procs /\ mem \in [Procs -> Memory] /\ mem[d] \in Memory
      /\ h \in Files /\ k \in DOMAIN KeysOf[h]
  BY OfDropper
<1>2. /\ DOMAIN KeysOf[h] = 1..Len(KeysOf[h]) /\ Len(KeysOf[h]) \in Nat
  BY <1>1, IntakeType, LenProperties
<1>3. /\ mem'[d].file = h
      /\ k < Len(KeysOf[h]) => mem'[d].at = "write" /\ mem'[d].key = k + 1
      /\ ~(k < Len(KeysOf[h])) => mem'[d].at = "delete"
  BY <1>1 DEF NextKey, Memory
<1>4. ASSUME NEW i \in DOMAIN KeysOf[h], Passed(d, i)' PROVE i = k \/ i < k
  <2>1. CASE k < Len(KeysOf[h])
    <3>1. i < k + 1
      BY <1>3, <1>4, <2>1 DEF Passed, Written
    <3>2. QED
      BY <1>1, <1>2, <3>1
  <2>2. CASE ~(k < Len(KeysOf[h]))
    BY <1>1, <1>2, <2>2
  <2>3. QED
    BY <2>1, <2>2
<1>5. QED
  BY <1>3, <1>4

\* What a step of a dropper other than the two of os.WriteFile does to it.
LEMMA DropperMoves ==
  ASSUME NEW d \in Droppers, IInv, Dropper(d), ~DropWrite(d), ~DropStore(d)
  PROVE  /\ dropped' = dropped /\ givenUp \subseteq givenUp'
         /\ \/ mem'[d].at \in {"idle", "file"} /\ disk' = disk
            \/ /\ mem[d].at = "delete" /\ mem'[d].at = "file"
               /\ disk' \in {disk, disk \ {mem[d].file}}
            \/ /\ mem'[d].at = "write" /\ mem'[d].file \in disk
               /\ mem'[d].key = 1 /\ disk' = disk
            \/ /\ mem[d].at \in Written /\ mem'[d].at \in Written /\ disk' = disk
               /\ mem'[d].file = mem[d].file /\ mem'[d].key = mem[d].key
            \/ mem[d].at \in Written /\ NextKey(d) /\ disk' = disk
<1>1. d \in Procs /\ mem \in [Procs -> Memory] /\ mem[d] \in Memory
  BY OfDropper
<1>2. CASE DropList(d) \/ DropSkip(d) \/ DropEnd(d)
  BY <1>1, <1>2 DEF DropList, DropSkip, DropEnd, Exit, Blank, At, Memory, history
<1>3. CASE DropGet(d)
  BY <1>1, <1>3 DEF DropGet, Memory, history
<1>4. CASE DropJudge(d) \/ DropReadQueue(d)
  BY <1>1, <1>4 DEF DropJudge, DropReadQueue, At, Written, Memory, history
<1>5. CASE DropRegister(d)
  BY <1>1, <1>5 DEF DropRegister, GiveUp, Goto, At, Written, Memory
<1>6. CASE DropTruncate(d)
  BY <1>1, <1>6 DEF DropTruncate, GiveUp, Goto, At, Written, Memory
<1>7. CASE DropFill(d)
  BY <1>1, <1>7 DEF DropFill, GiveUp, At, Written
<1>8. CASE DropDelete(d)
  BY <1>1, <1>8 DEF DropDelete, At, Blank, history
<1>9. QED
  BY <1>2, <1>3, <1>4, <1>5, <1>6, <1>7, <1>8 DEF Dropper

\* A program that is left alone finds its keys as they were.
LEMMA SoloStays ==
  ASSUME NEW d \in Droppers, IInv, SoloOK(d), mem'[d] = mem[d],
         givenUp \subseteq givenUp', disk \subseteq disk', vault' = vault,
         \A s \in Places : StoresStay(s)
  PROVE  SoloOK(d)'
<1> SUFFICES ASSUME mem[d].at \in Filing
             PROVE  /\ mem'[d].file \in disk'
                    /\ mem'[d].at = "store" => vault'[Here(d)'] = Broken
                    /\ \A i \in DOMAIN KeysOf[mem'[d].file] :
                         Passed(d, i)' => Fine(mem[d].file, i)'
  BY DEF SoloOK, Filing, Written
<1>1. mem[d].file \in Files
  BY OfDropper DEF Filing
<1>2. \A i \in DOMAIN KeysOf[mem[d].file] : Passed(d, i) => Fine(mem[d].file, i)'
  <2>1. PICK h : h = mem[d].file
    OBVIOUS
  <2>2. \A i \in DOMAIN KeysOf[h] : Passed(d, i) => Fine(h, i)'
    BY <1>1, <2>1, FineStays, PlaceOfKey DEF SoloOK
  <2>3. QED
    BY <2>1, <2>2
<1>3. Here(d)' = Here(d)
  BY DEF Here, Place
<1>4. QED
  BY <1>2, <1>3 DEF SoloOK, Passed

\* Steps that leave the vault alone.
LEMMA SoloElsewhere ==
  ASSUME Solo, IInv, SoloInv, [Next]_vars, \A d \in Droppers : ~DropWrite(d) /\ ~DropStore(d)
  PROVE  SoloInv'
<1>1. /\ vault' = vault /\ mirrored' = mirrored /\ \A s \in Places : StoresStay(s)
      /\ dropped \subseteq Files /\ disk \subseteq dropped
  BY VaultElsewhere DEF IInv, Typed
<1>2. ASSUME givenUp \subseteq givenUp', NEW f \in Files, NEW i \in DOMAIN KeysOf[f], Fine(f, i)
      PROVE  Fine(f, i)'
  BY <1>1, <1>2, FineStays, PlaceOfKey
<1>3. ASSUME givenUp \subseteq givenUp', dropped' \ disk' \subseteq dropped \ disk
      PROVE  DeletedFine'
  BY <1>1, <1>2, <1>3 DEF SoloInv, DeletedFine
<1>4. ASSUME UNCHANGED givenUp, disk \subseteq disk', dropped' \ disk' \subseteq dropped \ disk,
             \A d \in Droppers : mem'[d] = mem[d]
      PROVE  SoloInv'
  BY <1>1, <1>3, <1>4, SoloStays DEF SoloInv
<1>5. CASE UNCHANGED vars
  BY <1>4, <1>5 DEF vars, history
<1>6. ASSUME NEW f \in Files, Drop(f) PROVE SoloInv'
  <2>1. UNCHANGED <<givenUp, mem>> /\ disk \subseteq disk' /\ dropped' \ disk' \subseteq dropped \ disk
    BY <1>6 DEF Drop
  <2>2. QED
    BY <1>4, <2>1
<1>7. ASSUME NEW a \in Agents, Agent(a) PROVE SoloInv'
  <2>1. UNCHANGED <<givenUp, disk, dropped>>
    BY <1>7 DEF Agent, AgentLoad, AgentProbe, AgentAsk, AgentPass, AgentSettle, AgentFail,
       AgentTruncate, AgentFill, history
  <2>2. \A d \in Droppers : mem'[d] = mem[d]
    BY <1>7, OnlyAgent, OfAgent DEF Procs
  <2>3. QED
    BY <1>4, <2>1, <2>2
<1>8. ASSUME NEW v \in Validators, Validator(v) PROVE SoloInv'
  <2>1. UNCHANGED <<givenUp, disk, dropped>>
    BY <1>8 DEF Validator, ValidatorProbe, ValidatorRegister, history
  <2>2. \A d \in Droppers : mem'[d] = mem[d]
    BY <1>8, OnlyValidator, OfValidator DEF Procs
  <2>3. QED
    BY <1>4, <2>1, <2>2
<1>9. ASSUME NEW p \in Procs, Crash(p) PROVE SoloInv'
  <2>1. UNCHANGED <<givenUp, disk, dropped>> /\ Exit(p) /\ mem \in [Procs -> Memory]
    BY <1>9 DEF Crash, IInv, Typed
  <2>2. \A d \in Droppers : mem'[d] = mem[d] \/ mem'[d] = Blank
    BY <2>1 DEF Exit, Procs
  <2>3. ASSUME NEW d \in Droppers PROVE SoloOK(d)'
    <3>1. CASE mem'[d] = mem[d]
      BY <1>1, <2>1, <3>1, SoloStays DEF SoloInv
    <3>2. CASE mem'[d] = Blank
      BY <3>2 DEF SoloOK, Blank, Filing, Written
    <3>3. QED
      BY <2>2, <3>1, <3>2
  <2>4. QED
    BY <1>3, <2>1, <2>3 DEF SoloInv
<1>10. ASSUME NEW d \in Droppers, Dropper(d) PROVE SoloInv'
  <2>1. ~DropWrite(d) /\ ~DropStore(d)
    OBVIOUS
  <2>2. \A e \in Droppers : e = d
    BY DEF Solo
  <2>3. SoloOK(d) /\ DeletedFine /\ dropped' = dropped /\ givenUp \subseteq givenUp'
    BY <1>10, <2>1, DropperMoves DEF SoloInv
  <2>4. PICK h, k : h = mem[d].file /\ k = mem[d].key
    OBVIOUS
  <2>5. mem[d].at \in Filing =>
          /\ h \in Files /\ h \in disk /\ k \in DOMAIN KeysOf[h]
          /\ \A i \in DOMAIN KeysOf[h] : Passed(d, i) => Fine(h, i)'
    <3>1. mem[d].at \in Filing => h \in Files /\ k \in DOMAIN KeysOf[h]
      BY <2>4, OfDropper DEF Filing
    <3>2. mem[d].at \in Filing =>
            h \in disk /\ \A i \in DOMAIN KeysOf[h] : Passed(d, i) => Fine(h, i)
      BY <2>3, <2>4 DEF SoloOK
    <3>3. QED
      BY <1>2, <2>3, <3>1, <3>2
  <2>6. disk' = disk => DeletedFine'
    BY <1>3, <2>3
  <2>7. CASE mem'[d].at \in {"idle", "file"} /\ disk' = disk
    BY <2>2, <2>6, <2>7 DEF SoloInv, SoloOK, Filing, Written
  <2>8. CASE /\ mem[d].at = "delete" /\ mem'[d].at = "file"
             /\ disk' \in {disk, disk \ {mem[d].file}}
    <3>1. \A i \in DOMAIN KeysOf[h] : Fine(h, i)'
      BY <2>5, <2>8 DEF Passed, Filing
    <3>2. ASSUME NEW f \in dropped' \ disk', NEW i \in DOMAIN KeysOf[f] PROVE Fine(f, i)'
      <4>1. f \in Files /\ (f = h \/ f \in dropped \ disk)
        BY <1>1, <2>3, <2>4, <2>8
      <4>2. CASE f = h
        BY <3>1, <4>2
      <4>3. CASE f \in dropped \ disk
        BY <1>2, <2>3, <4>1, <4>3 DEF DeletedFine
      <4>4. QED
        BY <4>1, <4>2, <4>3
    <3>3. DeletedFine'
      BY <3>2 DEF DeletedFine
    <3>4. QED
      BY <2>2, <2>8, <3>3 DEF SoloInv, SoloOK, Filing, Written
  <2>9. CASE /\ mem'[d].at = "write" /\ mem'[d].file \in disk
             /\ mem'[d].key = 1 /\ disk' = disk
    <3>1. \A i \in DOMAIN KeysOf[mem'[d].file] : ~Passed(d, i)'
      <4>1. KeysOf[mem'[d].file] \in Seq(Secrets)
        BY <1>1, <2>9, IntakeType
      <4>2. \A i \in DOMAIN KeysOf[mem'[d].file] : ~(i < 1)
        BY <4>1, LenProperties
      <4>3. QED
        BY <2>9, <4>2 DEF Passed, Written
    <3>2. QED
      BY <2>2, <2>6, <2>9, <3>1 DEF SoloInv, SoloOK
  <2>10. CASE /\ mem[d].at \in Written /\ mem'[d].at \in Written /\ disk' = disk
              /\ mem'[d].file = mem[d].file /\ mem'[d].key = mem[d].key
    <3>1. \A i \in DOMAIN KeysOf[h] : Passed(d, i)' => Fine(h, i)'
      BY <2>4, <2>5, <2>10 DEF Passed, Filing, Written
    <3>2. mem'[d].at # "store" /\ mem'[d].file = h /\ h \in disk'
      BY <2>4, <2>5, <2>10 DEF Filing, Written
    <3>3. SoloOK(d)'
      BY <3>1, <3>2 DEF SoloOK
    <3>4. QED
      BY <2>2, <2>6, <2>10, <3>3 DEF SoloInv
  <2>11. CASE mem[d].at \in Written /\ NextKey(d) /\ disk' = disk
    <3>1. /\ mem'[d].file = h /\ mem'[d].at \in {"write", "delete"}
          /\ \A i \in DOMAIN KeysOf[h] : Passed(d, i)' => i = k \/ i < k
      BY <2>4, <2>11, NextKeyPasses
    <3>2. \A i \in DOMAIN KeysOf[h] : i = k \/ i < k => Passed(d, i)
      BY <2>4, <2>11 DEF Passed
    <3>3. \A i \in DOMAIN KeysOf[h] : Passed(d, i)' => Fine(h, i)'
      BY <2>5, <2>11, <3>1, <3>2 DEF Filing
    <3>4. SoloOK(d)'
      BY <2>5, <2>11, <3>1, <3>3 DEF SoloOK, Filing
    <3>5. QED
      BY <2>2, <2>6, <2>11, <3>4 DEF SoloInv
  <2>12. QED
    BY <1>10, <2>1, <2>7, <2>8, <2>9, <2>10, <2>11, DropperMoves
<1>11. QED
  BY <1>5, <1>6, <1>7, <1>8, <1>9, <1>10 DEF Next

\* The two halves of os.WriteFile.
LEMMA SoloWrites ==
  ASSUME Solo, IInv, SoloInv, NEW d \in Droppers, DropWrite(d) \/ DropStore(d)
  PROVE  SoloInv'
<1>1. PICK h, k : h = mem[d].file /\ k = mem[d].key
  OBVIOUS
<1>2. /\ h \in Files /\ k \in DOMAIN KeysOf[h] /\ Place(h, k) \in Places
      /\ vault \in [Places -> Secrets \cup {None, Broken}]
      /\ \A s \in Places : s # Place(h, k) => vault'[s] = vault[s] /\ StoresStay(s)
  BY <1>1, TheWrite
<1>3. /\ mem[d].at \in {"write", "store"}
      /\ DropStore(d) => mem[d].at = "store"
      /\ Here(d) = Place(h, k) /\ Key(d) = <<h, k>> /\ Secret(d) = KeysOf[h][k]
      /\ mem \in [Procs -> Memory] /\ mem[d] \in Memory /\ d \in Procs
      /\ UNCHANGED <<disk, dropped>> /\ dropped \subseteq Files /\ givenUp \subseteq givenUp'
  BY <1>1, OfDropper DEF DropWrite, DropStore, GiveUp, At, Here, Key, Secret, IInv, Typed
<1>4. /\ h \in disk
      /\ DropStore(d) => vault[Place(h, k)] = Broken
      /\ \A i \in DOMAIN KeysOf[h] : i < k => Fine(h, i)
  BY <1>1, <1>3 DEF SoloInv, SoloOK, Filing, Passed
<1>5. ASSUME NEW f \in Files, NEW i \in DOMAIN KeysOf[f], Fine(f, i), Place(f, i) # Place(h, k)
      PROVE  Fine(f, i)'
  BY <1>2, <1>3, <1>5, FineStays, PlaceOfKey
<1>6. \A i \in DOMAIN KeysOf[h] : i < k => Fine(h, i)'
  <2> SUFFICES ASSUME NEW i \in DOMAIN KeysOf[h], i < k PROVE Fine(h, i)'
    OBVIOUS
  <2>1. Place(h, i) # Place(h, k)
    <3>1. i \in Nat /\ k \in Nat
      BY <1>2, PlaceOfKey
    <3>2. QED
      BY <3>1 DEF Place
  <2>2. QED
    BY <1>2, <1>4, <1>5, <2>1
\* It remains to look at the place that is written, and at what comes next.
<1>7. ASSUME \A f \in Files \ {h} : \A i \in DOMAIN KeysOf[f] :
               Fine(f, i) /\ Place(f, i) = Place(h, k) => Fine(f, i)',
             SoloOK(d)'
      PROVE  SoloInv'
  <2>1. \A e \in Droppers : SoloOK(e)'
    BY <1>7 DEF Solo
  <2>2. \A f \in dropped \ disk : \A i \in DOMAIN KeysOf[f] : Fine(f, i)'
    BY <1>3, <1>4, <1>5, <1>7 DEF SoloInv, DeletedFine
  <2>3. QED
    BY <1>3, <2>1, <2>2 DEF SoloInv, DeletedFine
<1>8. CASE GiveUp(d) /\ UNCHANGED <<vault, mirrored>>
  <2>1. NextKey(d) /\ <<h, k>> \in givenUp'
    BY <1>3, <1>8 DEF GiveUp
  <2>2. /\ mem'[d].file = h /\ mem'[d].at \in {"write", "delete"}
        /\ \A i \in DOMAIN KeysOf[h] : Passed(d, i)' => i = k \/ i < k
    BY <1>1, <1>3, <2>1, NextKeyPasses
  <2>3. Fine(h, k)'
    BY <2>1 DEF Fine
  <2>4. SoloOK(d)'
    BY <1>3, <1>4, <1>6, <2>2, <2>3 DEF SoloOK
  <2>5. \A q \in Procs : q # d => mem'[q] = mem[q]
    BY OnlyDropper DEF Dropper
  <2>6. StoresStay(Place(h, k))
    <3>1. DropStore(d) => Key(d) \in cut'
      <4>1. mem'[d].at # "judge"
        BY <2>2
      <4>2. QED
        BY <1>3, <4>1 DEF DropStore, Goto, Memory
    <3>2. \A e \in Droppers : mem[e].at = "store" => mem'[e] = mem[e] \/ Key(e) \in cut'
      BY <2>5, <3>1 DEF Procs, DropWrite, At
    <3>3. cut \subseteq cut' /\ mirrored \subseteq mirrored'
      BY DEF DropWrite, DropStore
    <3>4. QED
      BY <3>2, <3>3 DEF StoresStay
  <2>7. \A f \in Files \ {h} : \A i \in DOMAIN KeysOf[f] :
          Fine(f, i) /\ Place(f, i) = Place(h, k) => Fine(f, i)'
    BY <1>3, <1>8, <2>6, FineStays
  <2>8. QED
    BY <1>7, <2>4, <2>7
<1>9. CASE DropWrite(d) /\ vault' = [vault EXCEPT ![Here(d)] = Broken] /\ Goto(d, "store")
  <2>1. /\ mem'[d].at = "store" /\ mem'[d].file = h /\ mem'[d].key = k
        /\ vault'[Place(h, k)] = Broken
    BY <1>1, <1>2, <1>3, <1>9 DEF Goto, Memory
  <2>2. Mars(h, k, Place(h, k))'
    BY <2>1 DEF Mars, At, Key, Place
  <2>3. \A f \in Files \ {h} : \A i \in DOMAIN KeysOf[f] :
          Place(f, i) = Place(h, k) => Fine(f, i)'
    BY <1>2, <2>2 DEF Fine, Place
  <2>4. Here(d)' = Place(h, k)
    BY <2>1 DEF Here, Place
  <2>5. \A i \in DOMAIN KeysOf[h] : Passed(d, i)' => i < k
    BY <2>1 DEF Passed, Written
  <2>6. SoloOK(d)'
    BY <1>3, <1>4, <1>6, <2>1, <2>4, <2>5 DEF SoloOK
  <2>7. QED
    BY <1>7, <2>3, <2>6
<1>10. CASE /\ DropStore(d) /\ vault' = [vault EXCEPT ![Here(d)] = Secret(d)]
            /\ mirrored' = mirrored \cup {Key(d)} /\ Goto(d, "judge")
  <2>1. /\ mem'[d].at = "judge" /\ mem'[d].file = h /\ mem'[d].key = k
        /\ vault'[Place(h, k)] = KeysOf[h][k] /\ <<h, k>> \in mirrored'
    BY <1>1, <1>2, <1>3, <1>10 DEF Goto, Memory
  <2>2. Fine(h, k)'
    BY <2>1 DEF Fine, Place
  <2>3. ASSUME NEW f \in Files \ {h}, NEW i \in DOMAIN KeysOf[f], Place(f, i) = Place(h, k)
        PROVE  Fine(f, i)'
    <3>1. ProvOf[h] = ProvOf[f] /\ i = k
      BY <2>3 DEF Place
    <3>2. Holds(f, i, h)'
      BY <1>2, <2>1, <2>3, <3>1 DEF Holds, Place
    <3>3. QED
      BY <1>2, <2>3, <3>2 DEF Fine
  <2>4. \A i \in DOMAIN KeysOf[h] : Passed(d, i)' => i = k \/ i < k
    BY <2>1 DEF Passed
  <2>5. \A i \in DOMAIN KeysOf[h] : Passed(d, i)' => Fine(h, i)'
    BY <1>6, <2>2, <2>4
  <2>6. SoloOK(d)'
    BY <1>3, <1>4, <2>1, <2>5 DEF SoloOK
  <2>7. QED
    BY <1>7, <2>3, <2>6
<1>11. CASE DropStore(d) /\ vault[Here(d)] \notin {Broken, Secret(d)}
  BY <1>3, <1>4, <1>11
<1>12. QED
  BY <1>8, <1>9, <1>10, <1>11 DEF DropWrite, DropStore

LEMMA SoloInvariant == ASSUME Solo PROVE Spec => []SoloInv
<1>1. Init => SoloInv
  <2> SUFFICES ASSUME Init PROVE SoloInv
    OBVIOUS
  <2>1. \A d \in Droppers : mem[d].at = "idle"
    BY DEF Init, Procs, Blank
  <2>2. \A d \in Droppers : SoloOK(d)
    BY <2>1 DEF SoloOK, Filing, Written
  <2>3. QED
    BY <2>2 DEF Init, SoloInv, DeletedFine
<1>2. IInv /\ SoloInv /\ [Next]_vars => SoloInv'
  BY SoloElsewhere, SoloWrites
<1>3. QED
  BY <1>1, <1>2, Invariant, PTL DEF Spec

\* A key of a deleted file is in the vault, or an error was logged for it, or a
\* file of the same provider -- or, of several keydrops that overlap, another
\* over the same file -- has written its own key there, or has left the vault's
\* file without a whole key: being written, cut short, or a mixture.  Whatever
\* overlaps and dies, a key that was written whole is lost to a later dropping
\* only.
THEOREM OnlyFilesOverwrite == Spec => []DeletedUnlessOverwritten
<1>1. Solo /\ IInv /\ SoloInv => DeletedUnlessOverwritten
  <2> SUFFICES ASSUME Solo, IInv, SoloInv, NEW f \in dropped \ disk, NEW i \in DOMAIN KeysOf[f]
               PROVE  \/ vault[Place(f, i)] = KeysOf[f][i]
                      \/ <<f, i>> \in givenUp
                      \/ \E g \in Files : /\ Another(f, g)
                                          /\ Holds(f, i, g) \/ Mars(g, i, Place(f, i))
    BY DEF DeletedUnlessOverwritten
  <2>1. Fine(f, i)
    BY DEF SoloInv, DeletedFine
  <2>2. QED
    BY <2>1 DEF Fine, Another
<1>2. ~Solo /\ VaultInv => DeletedUnlessOverwritten
  <2> SUFFICES ASSUME ~Solo, VaultInv, NEW f \in dropped \ disk, NEW i \in DOMAIN KeysOf[f],
                      <<f, i>> \notin givenUp
               PROVE  \E g \in Files : /\ Another(f, g)
                                       /\ Holds(f, i, g) \/ Mars(g, i, Place(f, i))
    BY DEF DeletedUnlessOverwritten
  <2>1. f \in Files /\ <<f, i>> \in mirrored
    BY DEF VaultInv, IInv, Typed, DeletedOnlyMirrored
  <2>2. \A g \in Files : Another(f, g)
    BY DEF Solo, Another
  <2>3. Place(f, i) \in Places /\ vault[Place(f, i)] # None
    BY <2>1, PlaceOfKey DEF VaultInv, MirroredHasFile
  <2>4. Marred(Place(f, i)) \/ Source(Place(f, i))
    BY <2>3 DEF VaultInv, Sourced
  <2>5. CASE Marred(Place(f, i))
    <3>1. PICK g \in Files : \E j \in DOMAIN KeysOf[g] : Mars(g, j, Place(f, i))
      BY <2>5 DEF Marred
    <3>2. PICK j \in DOMAIN KeysOf[g] : Mars(g, j, Place(f, i))
      BY <3>1
    <3>3. j = i
      BY <3>2 DEF Mars, Place
    <3>4. QED
      BY <2>2, <3>2, <3>3
  <2>6. CASE Source(Place(f, i))
    <3>1. PICK g \in Files : \E j \in DOMAIN KeysOf[g] :
            /\ Place(f, i) = Place(g, j) /\ <<g, j>> \in mirrored
            /\ vault[Place(f, i)] = KeysOf[g][j]
      BY <2>6 DEF Source
    <3>2. PICK j \in DOMAIN KeysOf[g] :
            /\ Place(f, i) = Place(g, j) /\ <<g, j>> \in mirrored
            /\ vault[Place(f, i)] = KeysOf[g][j]
      BY <3>1
    <3>3. j = i /\ ProvOf[g] = ProvOf[f]
      BY <3>2 DEF Place
    <3>4. Holds(f, i, g)
      BY <3>2, <3>3 DEF Holds
    <3>5. QED
      BY <2>2, <3>4
  <2>7. QED
    BY <2>4, <2>5, <2>6
<1>3. CASE Solo
  <2>1. Spec => []SoloInv
    BY <1>3, SoloInvariant
  <2>2. IInv /\ SoloInv => DeletedUnlessOverwritten
    BY <1>1, <1>3
  <2>3. QED
    BY <2>1, <2>2, Invariant, PTL
<1>4. CASE ~Solo
  <2>1. VaultInv => DeletedUnlessOverwritten
    BY <1>2, <1>4
  <2>2. QED
    BY <2>1, VaultInvariant, PTL
<1>5. QED
  BY <1>3, <1>4

\* What keydrop's comment says: each key of a deleted file is at its place in
\* the vault -- or an error was logged for it.
DeletedAreVaulted ==
  \A f \in dropped \ disk : \A i \in DOMAIN KeysOf[f] :
     vault[Place(f, i)] = KeysOf[f][i] \/ <<f, i>> \in givenUp

OneFileEach == \A f, g \in Files : ProvOf[f] = ProvOf[g] => f = g

\* With a single keydrop and at most one file for each provider the comment is
\* true, whatever fails and wherever a program dies, in the middle of writing
\* the key too: then the file is still on the Disk.
THEOREM OneFileEachLosesNone ==
  ASSUME OneFileEach, Solo
  PROVE  Spec => []DeletedAreVaulted
<1>1. IInv /\ DeletedUnlessOverwritten => DeletedAreVaulted
  <2> SUFFICES ASSUME IInv, DeletedUnlessOverwritten,
                      NEW f \in dropped \ disk, NEW i \in DOMAIN KeysOf[f],
                      <<f, i>> \notin givenUp
               PROVE  vault[Place(f, i)] = KeysOf[f][i]
    BY DEF DeletedAreVaulted
  <2>1. f \in Files
    BY DEF IInv, Typed
  <2>2. \A g \in Files : ~Another(f, g) \/ (~Holds(f, i, g) /\ ~Mars(g, i, Place(f, i)))
    BY <2>1 DEF OneFileEach, Solo, Another, Holds, Mars, Place
  <2>3. QED BY <2>2 DEF DeletedUnlessOverwritten
<1>2. QED
  BY <1>1, Invariant, OnlyFilesOverwrite, PTL

-----------------------------------------------------------------------------
(* The queue of validate-pending forgets nothing while keydrop and         *)
(* validate-pending do not overlap.                                        *)

Queuers == Droppers \cup Agents
Idle(p) == mem[p].at = "idle"

InList(list, s) == \E i \in DOMAIN list : list[i] = s
OnDisk(s) == \E f \in disk : s \in PlacesOf(f)
Excused(s) == s \in lost \/ \E k \in givenUp : s = Place(k[1], k[2])

\* A place that is owed an answer is queued, will be dropped again, was given
\* up, or was in the queue when a write of it was cut short.
Kept(s) == InList(queue, s) \/ OnDisk(s) \/ Excused(s)

\* A dropper's file is on the Disk until it deletes it, and each key it has
\* passed and found not valid has reached the queue.
Past(d, i) == mem[d].at = "delete" \/ i < mem[d].key
DropTrack(d) ==
  /\ mem[d].at \in Filing =>
       /\ mem[d].file \in disk
       /\ \A i \in DOMAIN KeysOf[mem[d].file] :
            Past(d, i) /\ Place(mem[d].file, i) \in owed =>
              InList(queue, Place(mem[d].file, i)) \/ Excused(Place(mem[d].file, i))
  /\ mem[d].at \in {"trunc", "fill"} => mem[d].copy = queue

\* What an agent that will rewrite the queue has read is still in its memory,
\* or has been registered.
AgentTrack(a) ==
  /\ mem[a].at \in {"entry", "settle", "fill"} /\ ~mem[a].dry => \A s \in owed :
        \/ InList(mem[a].copy, s) \/ InList(mem[a].failed, s)
        \/ OnDisk(s) \/ Excused(s)
  /\ mem[a].at = "fill" => ~mem[a].dry /\ mem[a].copy = << >>

Track(p) == /\ p \in Droppers => DropTrack(p)
            /\ p \in Agents => AgentTrack(p)

Calm == /\ \A p, q \in Queuers : ~Idle(p) /\ ~Idle(q) => p = q
        /\ torn => queue = << >> \/ \E p \in Queuers : mem[p].at = "fill"
        /\ \A p \in Queuers : mem[p].at = "fill" => torn
        /\ \A p \in Queuers : Track(p)
        /\ \A s \in owed : Kept(s)

QueueInv == ~disturbed => Calm

-----------------------------------------------------------------------------
(* Lemmas.                                                                 *)

LEMMA AppendHas ==
  ASSUME NEW list \in Seq(Places), NEW x \in Places
  PROVE  /\ InList(Append(list, x), x)
         /\ \A s : InList(list, s) => InList(Append(list, x), s)
<1>1. /\ DOMAIN list = 1..Len(list) /\ Len(list) \in Nat
      /\ DOMAIN Append(list, x) = 1..(Len(list) + 1)
      /\ \A i \in 1..Len(list) : Append(list, x)[i] = list[i]
      /\ Append(list, x)[Len(list) + 1] = x
  BY AppendProperties, LenProperties
<1>2. \A i \in DOMAIN list : i \in DOMAIN Append(list, x)
  BY <1>1
<1>3. Len(list) + 1 \in DOMAIN Append(list, x)
  BY <1>1
<1>4. QED
  BY <1>1, <1>2, <1>3 DEF InList

LEMMA TailHas ==
  ASSUME NEW list \in Seq(Places), list # << >>, NEW s, InList(list, s), s # Head(list)
  PROVE  InList(Tail(list), s)
<1>1. /\ Len(list) \in Nat /\ DOMAIN list = 1..Len(list) /\ Head(list) = list[1]
      /\ DOMAIN Tail(list) = 1..(Len(list) - 1)
      /\ \A i \in 1..(Len(list) - 1) : Tail(list)[i] = list[i + 1]
  BY HeadTailProperties, LenProperties, EmptySeq
<1>2. PICK i \in DOMAIN list : list[i] = s
  BY DEF InList
<1>3. i \in 1..Len(list) /\ i # 1
  BY <1>1, <1>2
<1>4. i - 1 \in DOMAIN Tail(list) /\ Tail(list)[i - 1] = list[i]
  BY <1>1, <1>3
<1>5. QED
  BY <1>2, <1>4 DEF InList

\* The queue is truncated where p is about to fill it; a truncated queue that
\* nobody fills holds nothing.
Tidy(p) == /\ mem[p].at = "fill" => torn
           /\ torn => mem[p].at = "fill" \/ queue = << >>

\* Nobody else is at work while the run of a dropper or an agent is undisturbed.
LEMMA Sole ==
  ASSUME Calm, NEW p \in Queuers, ~Idle(p),
         \A q \in Queuers : q # p => mem'[q] = mem[q]
  PROVE  \A q \in Queuers : q # p => Idle(q) /\ Idle(q)'
  BY DEF Calm, Idle

\* One dropper or agent steps; the others are idle, before and after.
LEMMA OneQueues ==
  ASSUME NEW p \in Queuers, \A q \in Queuers : q # p => Idle(q)',
         Tidy(p)', Track(p)', \A s \in owed' : Kept(s)'
  PROVE  Calm'
<1>1. \A q \in Queuers : q # p => Track(q)'
  BY DEF Track, DropTrack, AgentTrack, Idle, Filing, Written
<1>2. \A q \in Queuers : q # p => mem'[q].at # "fill"
  BY DEF Idle
<1>3. QED
  BY <1>1, <1>2 DEF Calm, Idle, Tidy

\* The same of a step that leaves the queue, the Disk and the debts alone.
LEMMA OneWorks ==
  ASSUME Calm, NEW p \in Queuers, ~Idle(p),
         \A q \in Queuers : q # p => mem'[q] = mem[q],
         UNCHANGED <<disk, queue, owed, givenUp, lost>>,
         Tidy(p)', Track(p)'
  PROVE  Calm'
<1>1. \A s \in owed' : Kept(s)'
  BY DEF Calm, Kept, InList, OnDisk, Excused, PlacesOf, Place
<1>2. QED
  BY <1>1, Sole, OneQueues

LEMMA TornIsMine ==
  ASSUME Calm, NEW p \in Queuers, ~Idle(p)
  PROVE  Tidy(p)
  BY DEF Calm, Idle, Tidy

\* A program that ends has nothing to track, and leaves a queue that is whole.
LEMMA QueueExit ==
  ASSUME IInv, Calm, NEW p \in Queuers, ~Idle(p), Exit(p),
         torn' => queue' = << >>, UNCHANGED owed, \A s \in owed : Kept(s)'
  PROVE  Calm'
<1>1. mem'[p] = Blank /\ \A q \in Queuers : q # p => mem'[q] = mem[q]
  BY OfDropper, OfAgent DEF Exit, Queuers
<1>2. Track(p)'
  BY <1>1 DEF Track, DropTrack, AgentTrack, Blank, Filing, Written
<1>3. Tidy(p)'
  BY <1>1 DEF Tidy, Blank
<1>4. QED
  BY <1>1, <1>2, <1>3, Sole, OneQueues

\* Writing the queue is cut short: what it held is lost, and on record.
LEMMA QueueAbandon ==
  ASSUME Calm, NEW p \in Queuers, mem[p].at = "fill", Abandon, UNCHANGED torn
  PROVE  /\ torn' /\ queue' = << >> /\ lost \subseteq lost'
         /\ \A s : InList(queue, s) => s \in lost'
  BY DEF Calm, Abandon, InList

LEMMA QueueInit == Init => QueueInv
<1> SUFFICES ASSUME Init PROVE Calm
  BY DEF QueueInv
<1>1. \A p \in Queuers : mem[p] = Blank
  BY DEF Init, Queuers, Procs
<1>2. \A p \in Queuers : Track(p) /\ Idle(p) /\ mem[p].at # "fill"
  BY <1>1 DEF Track, DropTrack, AgentTrack, Idle, Blank, Filing, Written
<1>3. QED
  BY <1>2 DEF Calm, Init

-----------------------------------------------------------------------------
(* The dropper.                                                            *)

LEMMA QueueDropList ==
  ASSUME NEW d \in Droppers, IInv, QueueInv, DropList(d), ~disturbed'
  PROVE  Calm'
<1>1. d \in Procs /\ d \in Queuers /\ d \notin Agents /\ mem[d] \in Memory /\ mem \in [Procs -> Memory]
  BY OfDropper DEF Queuers
<1>2. ~disturbed /\ ~Busy(d) /\ Idle(d)
  BY DEF DropList, Begins, At, Idle, IInv, Typed
<1>3. Calm /\ \A q \in Queuers : q # d => Idle(q)
  BY <1>2 DEF QueueInv, Busy, At, Idle, Queuers
<1>4. /\ mem'[d].at = "file" /\ \A q \in Queuers : q # d => mem'[q] = mem[q]
      /\ UNCHANGED <<disk, queue, torn, owed, givenUp, lost>>
  BY <1>1 DEF DropList, Memory, Queuers, Procs
<1>5. Track(d)'
  BY <1>1, <1>4 DEF Track, DropTrack, Filing, Written
<1>6. Tidy(d)'
  BY <1>2, <1>3, <1>4 DEF Calm, Idle, Tidy
<1>7. \A s \in owed' : Kept(s)'
  BY <1>3, <1>4 DEF Calm, Kept, InList, OnDisk, Excused, PlacesOf, Place
<1>8. QED
  BY <1>1, <1>3, <1>4, <1>5, <1>6, <1>7, OneQueues DEF Idle

LEMMA QueueDropGet ==
  ASSUME NEW d \in Droppers, IInv, Calm, DropGet(d)
  PROVE  Calm'
<1>1. d \in Procs /\ d \in Queuers /\ d \notin Agents /\ mem[d] \in Memory /\ mem \in [Procs -> Memory]
  BY OfDropper DEF Queuers
<1>2. PICK f \in disk :
        /\ mem'[d].at = "write" /\ mem'[d].file = f /\ mem'[d].key = 1
        /\ \A q \in Queuers : q # d => mem'[q] = mem[q]
  BY <1>1 DEF DropGet, Memory, Queuers, Procs
<1>3. mem[d].at = "file" /\ UNCHANGED <<disk, queue, torn, owed, givenUp, lost>>
  BY DEF DropGet, At, history
<1>4. f \in Files /\ KeysOf[f] \in Seq(Secrets)
  BY IntakeType DEF IInv, Typed
<1>5. \A i \in DOMAIN KeysOf[f] : ~(i < 1)
  BY <1>4, LenProperties
<1>6. Track(d)'
  BY <1>1, <1>2, <1>3, <1>5 DEF Track, DropTrack, Past
<1>7. Tidy(d)'
  BY <1>1, <1>2, <1>3, TornIsMine DEF Idle, Tidy
<1>8. QED
  BY <1>1, <1>2, <1>3, <1>6, <1>7, OneWorks DEF Idle

LEMMA QueueDropSkip ==
  ASSUME NEW d \in Droppers, IInv, Calm, DropSkip(d)
  PROVE  Calm'
<1>1. d \in Procs /\ d \in Queuers /\ d \notin Agents /\ mem[d] \in Memory /\ mem \in [Procs -> Memory]
  BY OfDropper DEF Queuers
<1>2. /\ mem[d].at = "file" /\ mem'[d].at = "file"
      /\ \A q \in Queuers : q # d => mem'[q] = mem[q]
      /\ UNCHANGED <<disk, queue, torn, owed, givenUp, lost>>
  BY <1>1 DEF DropSkip, At, Memory, history
<1>3. Track(d)'
  BY <1>1, <1>2 DEF Track, DropTrack, Filing, Written
<1>4. QED
  BY <1>1, <1>2, <1>3, TornIsMine, OneWorks DEF Idle, Tidy

LEMMA QueueDropEnd ==
  ASSUME NEW d \in Droppers, IInv, Calm, DropEnd(d)
  PROVE  Calm'
<1>1. d \in Queuers /\ mem[d].at = "file"
  BY DEF Queuers, DropEnd, At
<1>2. (torn' => queue' = << >>) /\ UNCHANGED owed /\ \A s \in owed : Kept(s)'
  BY <1>1, TornIsMine
     DEF DropEnd, history, Idle, Tidy, Calm, Kept, InList, OnDisk, Excused, PlacesOf, Place
<1>3. QED
  BY <1>1, <1>2, QueueExit DEF DropEnd, history, Idle

\* The same of a place and of what has been given up after the step.
ExcusedThen(s) == s \in lost' \/ \E k \in givenUp' : s = Place(k[1], k[2])

\* Going on to the next key, once the place of this one is settled.
LEMMA QueueNextKey ==
  ASSUME NEW d \in Droppers, IInv, Calm, NextKey(d), mem[d].at \in {"write", "store"} \cup Written,
         UNCHANGED disk, owed' \subseteq owed,
         \A s : InList(queue, s) \/ Excused(s) => InList(queue', s) \/ ExcusedThen(s),
         Here(d) \in owed' => InList(queue', Here(d)) \/ ExcusedThen(Here(d))
  PROVE  /\ Track(d)' /\ mem'[d].at # "fill"
         /\ \A q \in Queuers : q # d => mem'[q] = mem[q]
<1> DEFINE f == mem[d].file
           k == mem[d].key
           more == k < Len(KeysOf[f])
           settled(i) == Place(f, i) \in owed' =>
                            InList(queue', Place(f, i)) \/ ExcusedThen(Place(f, i))
<1>1. /\ d \in Procs /\ d \in Queuers /\ d \notin Agents
      /\ mem[d] \in Memory /\ mem \in [Procs -> Memory]
      /\ f \in Files /\ k \in DOMAIN KeysOf[f]
  BY OfDropper DEF Queuers
<1>2. KeysOf[f] \in Seq(Secrets) /\ Len(KeysOf[f]) \in Nat /\ DOMAIN KeysOf[f] = 1..Len(KeysOf[f])
  BY <1>1, IntakeType, LenProperties
<1>3. /\ mem'[d].file = f
      /\ more => mem'[d].at = "write" /\ mem'[d].key = k + 1
      /\ ~more => mem'[d].at = "delete"
      /\ \A q \in Queuers : q # d => mem'[q] = mem[q]
  BY <1>1 DEF NextKey, Memory, Queuers, Procs
<1>4. DropTrack(d) /\ f \in disk
  BY <1>1 DEF Calm, Track, DropTrack, Filing
<1>5. \A i \in DOMAIN KeysOf[f] : i < k => settled(i)
  <2>1. \A i \in DOMAIN KeysOf[f] : i < k /\ Place(f, i) \in owed =>
           InList(queue, Place(f, i)) \/ Excused(Place(f, i))
    BY <1>1, <1>4 DEF DropTrack, Past, Filing
  <2>2. QED
    BY <2>1
<1>6. settled(k)
  BY DEF Here
<1>7. \A i \in DOMAIN KeysOf[f] : i <= k => settled(i)
  <2> SUFFICES ASSUME NEW i \in DOMAIN KeysOf[f], i <= k PROVE settled(i)
    OBVIOUS
  <2> HIDE DEF settled
  <2>1. i = k \/ i < k
    BY <1>1, <1>2
  <2>2. QED
    BY <2>1, <1>5, <1>6
<1> HIDE DEF f, k, settled
<1>8. \A i \in DOMAIN KeysOf[f] :
         mem'[d].at = "delete" \/ i < mem'[d].key => settled(i)
  <2> SUFFICES ASSUME NEW i \in DOMAIN KeysOf[f],
                      mem'[d].at = "delete" \/ i < mem'[d].key
               PROVE  i <= k
    BY <1>7
  <2>1. CASE more
    BY <2>1, <1>1, <1>2, <1>3
  <2>2. CASE ~more
    BY <2>2, <1>1, <1>2
  <2>3. QED
    BY <2>1, <2>2
<1>9. mem'[d].at \in {"write", "delete"}
  BY <1>3
<1>10. DropTrack(d)'
  <2>1. \A i \in DOMAIN KeysOf[mem'[d].file] :
          Past(d, i)' => settled(i)
    BY <1>3, <1>8 DEF Past
  <2>2. QED
    BY <1>3, <1>4, <1>9, <2>1 DEF DropTrack, settled, Excused, ExcusedThen, InList, Place, Written, Filing
<1>11. QED
  BY <1>1, <1>3, <1>9, <1>10 DEF Track

\* Moving on within a key, when the memory of the queue is not concerned.
LEMMA QueueSameKey ==
  ASSUME NEW d \in Droppers, IInv, Calm, mem[d].at \in {"write", "store"} \cup Written,
         mem'[d].at \in {"store"} \cup Written,
         mem'[d].file = mem[d].file, mem'[d].key = mem[d].key,
         UNCHANGED <<disk, queue, givenUp, lost>>, owed' \subseteq owed \cup {Here(d)},
         mem'[d].at \in {"trunc", "fill"} => mem'[d].copy = queue
  PROVE  Track(d)'
<1> DEFINE f == mem[d].file
           k == mem[d].key
<1>1. d \in Queuers /\ d \notin Agents /\ f \in Files /\ k \in DOMAIN KeysOf[f]
  BY OfDropper DEF Queuers
<1>2. DropTrack(d)
  BY <1>1 DEF Calm, Track
<1>3. DOMAIN KeysOf[f] = 1..Len(KeysOf[f]) /\ Len(KeysOf[f]) \in Nat
  BY <1>1, IntakeType, LenProperties
<1>4. \A i \in DOMAIN KeysOf[f] : i < k => Place(f, i) # Here(d)
  BY <1>1, <1>3 DEF Place, Here
<1>5. \A i \in DOMAIN KeysOf[f] : i < k /\ Place(f, i) \in owed' =>
         InList(queue, Place(f, i)) \/ Excused(Place(f, i))
  BY <1>2, <1>4 DEF DropTrack, Past, Filing
<1> HIDE DEF f, k
<1>6. mem'[d].at # "delete"
  BY DEF Written
<1>7. f \in disk
  BY <1>2 DEF DropTrack, Filing, f
<1>8. DropTrack(d)'
  BY <1>5, <1>6, <1>7 DEF DropTrack, Past, InList, Excused, Place, f, k
<1>9. QED
  BY <1>1, <1>8 DEF Track

\* A key that is given up: whatever fails, what the queue held is in it or lost.
LEMMA QueueGiveUp ==
  ASSUME NEW d \in Droppers, IInv, Calm, mem[d].at \in {"write", "store"} \cup Written,
         GiveUp(d), UNCHANGED <<disk, owed>>, lost \subseteq lost',
         \A s : InList(queue, s) => InList(queue', s) \/ s \in lost',
         torn' => queue' = << >>
  PROVE  Calm'
<1>1. /\ d \in Queuers /\ ~Idle(d)
  BY DEF Queuers, Idle, Written
<1>2. NextKey(d) /\ givenUp \subseteq givenUp' /\ Key(d) \in givenUp'
  BY DEF GiveUp
<1>3. ExcusedThen(Here(d))
  <2>1. Here(d) = Place(Key(d)[1], Key(d)[2])
    BY DEF Here, Key
  <2>2. QED
    BY <1>2, <2>1 DEF ExcusedThen
<1>4. \A s : InList(queue, s) \/ Excused(s) => InList(queue', s) \/ ExcusedThen(s)
  BY <1>2 DEF Excused, ExcusedThen
<1>5. /\ Track(d)' /\ mem'[d].at # "fill"
      /\ \A q \in Queuers : q # d => mem'[q] = mem[q]
  BY <1>2, <1>3, <1>4, QueueNextKey
<1>6. \A s \in owed' : Kept(s)'
  <2>1. \A s \in owed' : OnDisk(s) \/ InList(queue', s) \/ ExcusedThen(s)
    BY <1>4 DEF Calm, Kept
  <2>2. QED
    BY <2>1 DEF Kept, InList, OnDisk, Excused, ExcusedThen, PlacesOf, Place
<1>7. Tidy(d)'
  BY <1>5 DEF Tidy
<1>8. QED
  BY <1>1, <1>5, <1>6, <1>7, Sole, OneQueues

\* The same where the queue is not touched.
LEMMA QueueGiveUpHere ==
  ASSUME NEW d \in Droppers, IInv, Calm, mem[d].at \in {"write", "store"} \cup Written,
         mem[d].at # "fill", GiveUp(d), UNCHANGED <<disk, queue, torn, owed, lost>>
  PROVE  Calm'
<1>1. d \in Queuers /\ ~Idle(d)
  BY DEF Queuers, Idle, Written
<1>2. torn => queue = << >>
  BY <1>1, TornIsMine DEF Tidy
<1>3. QED
  BY <1>2, QueueGiveUp DEF InList

\* A step within a key that leaves queue, Disk and debts alone.
LEMMA QueueWithin ==
  ASSUME NEW d \in Droppers, IInv, Calm, mem[d].at \in {"write", "store"} \cup Written,
         NEW a \in {"store"} \cup Written, mem'[d].at = a,
         mem'[d].file = mem[d].file, mem'[d].key = mem[d].key,
         \A q \in Queuers : q # d => mem'[q] = mem[q],
         UNCHANGED <<disk, queue, owed, givenUp, lost>>,
         a \in {"trunc", "fill"} => mem'[d].copy = queue,
         Tidy(d)'
  PROVE  Calm'
<1>1. d \in Queuers /\ ~Idle(d)
  BY DEF Queuers, Idle, Written
<1>2. Track(d)'
  BY QueueSameKey
<1>3. QED
  BY <1>1, <1>2, OneWorks

LEMMA QueueDropWrite ==
  ASSUME NEW d \in Droppers, IInv, Calm, DropWrite(d) \/ DropStore(d)
  PROVE  Calm'
<1>1. /\ d \in Procs /\ d \in Queuers /\ mem[d] \in Memory /\ mem \in [Procs -> Memory]
      /\ mem[d].at \in {"write", "store"} /\ Tidy(d)
      /\ UNCHANGED <<disk, queue, torn, owed, lost>>
  BY OfDropper, TornIsMine DEF Queuers, DropWrite, DropStore, At, Idle
<1>2. CASE GiveUp(d)
  BY <1>1, <1>2, QueueGiveUpHere
<1>3. ASSUME NEW a \in {"store", "judge"}, Goto(d, a), UNCHANGED givenUp
      PROVE  Calm'
  <2>1. /\ mem'[d].at = a /\ mem'[d].file = mem[d].file /\ mem'[d].key = mem[d].key
        /\ \A q \in Queuers : q # d => mem'[q] = mem[q]
    BY <1>1, <1>3 DEF Goto, Memory, Queuers, Procs
  <2>2. Tidy(d)'
    BY <1>1, <2>1 DEF Tidy
  <2>3. QED
    BY <1>1, <1>3, <2>1, <2>2, QueueWithin DEF Written
<1>4. QED
  BY <1>2, <1>3 DEF DropWrite, DropStore

LEMMA QueueDropJudge ==
  ASSUME NEW d \in Droppers, IInv, Calm, DropJudge(d)
  PROVE  Calm'
<1>1. /\ d \in Procs /\ d \in Queuers /\ mem[d] \in Memory /\ mem \in [Procs -> Memory]
      /\ mem[d].at = "judge" /\ Tidy(d)
  BY OfDropper, TornIsMine DEF Queuers, DropJudge, At, Idle
<1>2. /\ mem'[d].at = "register" /\ mem'[d].file = mem[d].file /\ mem'[d].key = mem[d].key
      /\ \A q \in Queuers : q # d => mem'[q] = mem[q]
  BY <1>1 DEF DropJudge, Memory, Queuers, Procs
<1>3. UNCHANGED <<disk, queue, torn, owed, givenUp, lost>>
  BY DEF DropJudge, history
<1>4. Tidy(d)'
  BY <1>1, <1>2, <1>3 DEF Tidy
<1>5. QED
  BY <1>1, <1>2, <1>3, <1>4, QueueWithin DEF Written

\* A place found valid is owed nothing; one found not valid is, and its file
\* is still on the Disk.
LEMMA QueueDropRegister ==
  ASSUME NEW d \in Droppers, IInv, Calm, DropRegister(d)
  PROVE  Calm'
<1>1. /\ d \in Procs /\ d \in Queuers /\ mem[d] \in Memory /\ mem \in [Procs -> Memory]
      /\ mem[d].at = "register" /\ Tidy(d) /\ ~Idle(d)
  BY OfDropper, TornIsMine DEF Queuers, DropRegister, At, Idle
<1>2. CASE GiveUp(d) /\ UNCHANGED owed
  BY <1>1, <1>2, QueueGiveUpHere DEF DropRegister, Written
<1>3. UNCHANGED <<disk, queue, torn, lost>>
  BY DEF DropRegister
<1>4. CASE NextKey(d) /\ owed' = owed \ {Here(d)} /\ UNCHANGED givenUp
  <2>1. /\ Track(d)' /\ mem'[d].at # "fill"
        /\ \A q \in Queuers : q # d => mem'[q] = mem[q]
    BY <1>1, <1>3, <1>4, QueueNextKey DEF Written, Excused, ExcusedThen
  <2>2. \A s \in owed' : Kept(s)'
    BY <1>3, <1>4 DEF Calm, Kept, InList, OnDisk, Excused, PlacesOf, Place
  <2>3. Tidy(d)'
    BY <1>1, <1>3, <2>1 DEF Tidy
  <2>4. QED
    BY <1>1, <2>1, <2>2, <2>3, Sole, OneQueues
<1>5. CASE Goto(d, "append") /\ owed' = owed \cup {Here(d)} /\ UNCHANGED givenUp
  <2>1. /\ mem'[d].at = "append" /\ mem'[d].file = mem[d].file /\ mem'[d].key = mem[d].key
        /\ \A q \in Queuers : q # d => mem'[q] = mem[q]
    BY <1>1, <1>5 DEF Goto, Memory, Queuers, Procs
  <2>2. Track(d)'
    BY <1>1, <1>3, <1>5, <2>1, QueueSameKey DEF Written
  <2>3. mem[d].file \in disk /\ Here(d) \in PlacesOf(mem[d].file)
    BY <1>1, OfDropper DEF Calm, Track, DropTrack, Filing, Written, Here, PlacesOf
  <2>4. OnDisk(Here(d))
    BY <2>3 DEF OnDisk
  <2>5. \A s \in owed' : Kept(s)
    BY <1>5, <2>4 DEF Calm, Kept
  <2>6. \A s \in owed' : Kept(s)'
    BY <1>3, <1>5, <2>5 DEF Kept, InList, OnDisk, Excused, PlacesOf, Place
  <2>7. Tidy(d)'
    BY <1>1, <1>3, <2>1 DEF Tidy
  <2>8. QED
    BY <1>1, <2>1, <2>2, <2>6, <2>7, Sole, OneQueues
<1>6. QED
  BY <1>2, <1>4, <1>5 DEF DropRegister

LEMMA QueueDropReadQueue ==
  ASSUME NEW d \in Droppers, IInv, Calm, DropReadQueue(d)
  PROVE  Calm'
<1>1. /\ d \in Procs /\ d \in Queuers /\ mem[d] \in Memory /\ mem \in [Procs -> Memory]
      /\ mem[d].at = "append" /\ Tidy(d)
  BY OfDropper, TornIsMine DEF Queuers, DropReadQueue, At, Idle
<1>2. /\ mem'[d].at = "trunc" /\ mem'[d].file = mem[d].file /\ mem'[d].key = mem[d].key
      /\ mem'[d].copy = queue
      /\ \A q \in Queuers : q # d => mem'[q] = mem[q]
  BY <1>1 DEF DropReadQueue, Memory, Queuers, Procs, Tidy
<1>3. UNCHANGED <<disk, queue, torn, owed, givenUp, lost>>
  BY DEF DropReadQueue, history
<1>4. Tidy(d)'
  BY <1>1, <1>2, <1>3 DEF Tidy
<1>5. QED
  BY <1>1, <1>2, <1>3, <1>4, QueueWithin DEF Written

LEMMA QueueDropTruncate ==
  ASSUME NEW d \in Droppers, IInv, Calm, DropTruncate(d)
  PROVE  Calm'
<1>1. /\ d \in Procs /\ d \in Queuers /\ mem[d] \in Memory /\ mem \in [Procs -> Memory]
      /\ mem[d].at = "trunc" /\ Tidy(d)
  BY OfDropper, TornIsMine DEF Queuers, DropTruncate, At, Idle
<1>2. CASE GiveUp(d) /\ UNCHANGED torn
  BY <1>1, <1>2, QueueGiveUpHere DEF DropTruncate, Written
<1>3. CASE torn' = TRUE /\ Goto(d, "fill") /\ UNCHANGED givenUp
  <2>1. /\ mem'[d].at = "fill" /\ mem'[d].file = mem[d].file /\ mem'[d].key = mem[d].key
        /\ mem'[d].copy = mem[d].copy
        /\ \A q \in Queuers : q # d => mem'[q] = mem[q]
    BY <1>1, <1>3 DEF Goto, Memory, Queuers, Procs
  <2>2. UNCHANGED <<disk, queue, owed, lost>>
    BY DEF DropTruncate
  <2>3. mem[d].copy = queue /\ Tidy(d)'
    BY <1>1, <1>3, <2>1 DEF Calm, Track, DropTrack, Tidy
  <2>4. QED
    BY <1>1, <1>3, <2>1, <2>2, <2>3, QueueWithin DEF Written
<1>4. QED
  BY <1>2, <1>3 DEF DropTruncate

\* The queue grows by the key the dropper is at, and loses nothing; or the
\* filling fails, and all it held is lost.
LEMMA QueueDropFill ==
  ASSUME NEW d \in Droppers, IInv, Calm, DropFill(d)
  PROVE  Calm'
<1>1. /\ d \in Procs /\ d \in Queuers /\ mem[d].at = "fill" /\ torn /\ ~Idle(d)
      /\ Here(d) \in Places /\ queue \in Seq(Places) /\ UNCHANGED <<disk, owed>>
  BY OfDropper, TornIsMine
     DEF Queuers, DropFill, At, Idle, Tidy, Written, IInv, Typed
<1>2. CASE GiveUp(d) /\ Abandon /\ UNCHANGED torn
  <2>1. /\ queue' = << >> /\ lost \subseteq lost'
        /\ \A s : InList(queue, s) => s \in lost'
    BY <1>1, <1>2, QueueAbandon
  <2>2. QED
    BY <1>1, <1>2, <2>1, QueueGiveUp DEF Written
<1>3. CASE /\ Fill(Append(mem[d].copy, Here(d))) /\ lost' = lost \ {Here(d)}
           /\ NextKey(d) /\ UNCHANGED givenUp
  <2>1. mem[d].copy = queue
    BY <1>1 DEF Calm, Track, DropTrack
  <2>2. queue' = Append(queue, Here(d)) /\ torn' = FALSE
    BY <1>1, <1>3, <2>1 DEF Fill
  <2>3. InList(queue', Here(d)) /\ \A s : InList(queue, s) => InList(queue', s)
    BY <1>1, <2>2, AppendHas
  <2>4. \A s : InList(queue, s) \/ Excused(s) => InList(queue', s) \/ ExcusedThen(s)
    BY <1>3, <2>3 DEF Excused, ExcusedThen
  <2>5. /\ Track(d)' /\ mem'[d].at # "fill"
        /\ \A q \in Queuers : q # d => mem'[q] = mem[q]
    BY <1>1, <1>3, <2>3, <2>4, QueueNextKey DEF Written
  <2>6. \A s \in owed : InList(queue', s) \/ OnDisk(s) \/ ExcusedThen(s)
    BY <2>4 DEF Calm, Kept
  <2>7. \A s \in owed' : Kept(s)'
    BY <1>1, <2>6 DEF Kept, InList, OnDisk, Excused, ExcusedThen, PlacesOf, Place
  <2>8. Tidy(d)'
    BY <2>2, <2>5 DEF Tidy
  <2>9. QED
    BY <1>1, <2>5, <2>7, <2>8, Sole, OneQueues
<1>4. QED
  BY <1>2, <1>3 DEF DropFill

\* A deleted file takes no debt with it: each of its keys is settled.
LEMMA QueueDropDelete ==
  ASSUME NEW d \in Droppers, IInv, Calm, DropDelete(d)
  PROVE  Calm'
<1>1. /\ d \in Procs /\ d \in Queuers /\ d \notin Agents /\ mem \in [Procs -> Memory]
      /\ mem[d].at = "delete" /\ Tidy(d) /\ ~Idle(d)
  BY OfDropper, TornIsMine DEF Queuers, DropDelete, At, Idle
<1>2. /\ mem'[d].at = "file" /\ UNCHANGED <<queue, torn, owed, givenUp, lost>>
      /\ \A q \in Queuers : q # d => mem'[q] = mem[q]
  BY <1>1 DEF DropDelete, Blank, history, Queuers, Procs
<1>3. disk' = disk \/ disk' = disk \ {mem[d].file}
  BY DEF DropDelete
<1>4. \A s \in owed : s \in PlacesOf(mem[d].file) => InList(queue, s) \/ Excused(s)
  BY <1>1 DEF Calm, Track, DropTrack, Past, PlacesOf, Filing
<1>5. \A s \in owed : InList(queue, s) \/ Excused(s) \/ \E f \in disk' : s \in PlacesOf(f)
  BY <1>3, <1>4 DEF Calm, Kept, OnDisk
<1>6. \A s \in owed' : Kept(s)'
  BY <1>2, <1>5 DEF Kept, InList, OnDisk, Excused, PlacesOf, Place
<1>7. Track(d)'
  BY <1>1, <1>2 DEF Track, DropTrack, Filing, Written
<1>8. Tidy(d)'
  BY <1>1, <1>2 DEF Tidy
<1>9. QED
  BY <1>1, <1>2, <1>6, <1>7, <1>8, Sole, OneQueues

-----------------------------------------------------------------------------
(* The agent.                                                              *)

\* Every debt the agent has taken over, or not: the files still say so.
LEMMA QueueAgentWorks ==
  ASSUME NEW a \in Agents, IInv, Calm, ~Idle(a), mem[a].at # "fill",
         \A q \in Queuers : q # a => mem'[q] = mem[q],
         mem'[a].at \in {"entry", "settle"}, mem'[a].dry = mem[a].dry,
         UNCHANGED <<disk, queue, torn, givenUp, lost>>, owed' \subseteq owed,
         mem[a].at \in {"entry", "settle"} /\ ~mem[a].dry => \A s \in owed' :
            InList(mem[a].copy, s) \/ InList(mem[a].failed, s) =>
              InList(mem'[a].copy, s) \/ InList(mem'[a].failed, s),
         mem[a].at \in {"entry", "settle"}
  PROVE  Calm'
<1>1. a \in Queuers /\ a \notin Droppers /\ Tidy(a)
  BY OfAgent, TornIsMine DEF Queuers
<1>2. AgentTrack(a)
  BY <1>1 DEF Calm, Track
<1>3. ~mem[a].dry => \A s \in owed' :
        \/ InList(mem'[a].copy, s) \/ InList(mem'[a].failed, s)
        \/ OnDisk(s) \/ Excused(s)
  BY <1>2 DEF AgentTrack
<1>4. AgentTrack(a)'
  BY <1>3 DEF AgentTrack, InList, OnDisk, Excused, PlacesOf, Place
<1>5. \A s \in owed' : Kept(s)'
  BY DEF Calm, Kept, InList, OnDisk, Excused, PlacesOf, Place
<1>6. Tidy(a)'
  BY <1>1 DEF Tidy
<1>7. QED
  BY <1>1, <1>4, <1>5, <1>6, Sole, OneQueues DEF Track

LEMMA QueueAgentLoad ==
  ASSUME NEW a \in Agents, IInv, QueueInv, AgentLoad(a), ~disturbed'
  PROVE  Calm'
<1>1. /\ a \in Procs /\ a \in Queuers /\ a \notin Droppers
      /\ mem[a] \in Memory /\ mem \in [Procs -> Memory]
  BY OfAgent DEF Queuers
<1>2. ~disturbed /\ ~Busy(a)
  BY DEF AgentLoad, Begins, IInv, Typed
<1>3. Calm /\ \A q \in Queuers : q # a => Idle(q)
  BY <1>2 DEF QueueInv, Busy, At, Idle, Queuers
<1>4. /\ mem'[a].at = "entry" /\ mem'[a].copy = queue
      /\ \A q \in Queuers : q # a => mem'[q] = mem[q]
      /\ UNCHANGED <<disk, queue, torn, owed, givenUp, lost>> /\ ~torn
  BY <1>1 DEF AgentLoad, Blank, Queuers, Procs
<1>5. \A s \in owed' : Kept(s)'
  BY <1>3, <1>4 DEF Calm, Kept, InList, OnDisk, Excused, PlacesOf, Place
<1>6. Track(a)'
  BY <1>1, <1>4, <1>5 DEF Track, AgentTrack, Kept, InList
<1>7. Tidy(a)'
  BY <1>4 DEF Tidy
<1>8. QED
  BY <1>1, <1>3, <1>4, <1>5, <1>6, <1>7, OneQueues DEF Idle

LEMMA QueueAgentProbe ==
  ASSUME NEW a \in Agents, IInv, Calm, AgentProbe(a) \/ AgentAsk(a)
  PROVE  Calm'
<1>1. a \in Procs /\ mem[a] \in Memory /\ mem \in [Procs -> Memory] /\ mem[a].at = "entry"
  BY OfAgent DEF AgentProbe, AgentAsk, AtEntry, At
<1>2. /\ mem'[a].at = "settle" /\ mem'[a].dry = mem[a].dry
      /\ mem'[a].copy = mem[a].copy /\ mem'[a].failed = mem[a].failed
      /\ \A q \in Queuers : q # a => mem'[q] = mem[q]
      /\ UNCHANGED <<disk, queue, torn, owed, givenUp, lost>>
  BY <1>1 DEF AgentProbe, AgentAsk, Memory, history, Queuers, Procs
<1>3. QED
  BY <1>1, <1>2, QueueAgentWorks DEF Idle

LEMMA QueueAgentPass ==
  ASSUME NEW a \in Agents, IInv, Calm, AgentPass(a)
  PROVE  Calm'
<1>1. /\ a \in Procs /\ mem[a] \in Memory /\ mem \in [Procs -> Memory]
      /\ mem[a].at = "entry" /\ mem[a].dry
  BY OfAgent DEF AgentPass, AtEntry, At
<1>2. /\ mem'[a].at = "entry" /\ mem'[a].dry = mem[a].dry
      /\ \A q \in Queuers : q # a => mem'[q] = mem[q]
      /\ UNCHANGED <<disk, queue, torn, owed, givenUp, lost>>
  BY <1>1 DEF AgentPass, Memory, history, Queuers, Procs
<1>3. QED
  BY <1>1, <1>2, QueueAgentWorks DEF Idle

\* A registered entry is owed nothing any more.
LEMMA QueueAgentSettle ==
  ASSUME NEW a \in Agents, IInv, Calm, AgentSettle(a)
  PROVE  Calm'
<1>1. /\ a \in Procs /\ mem[a] \in Memory /\ mem \in [Procs -> Memory]
      /\ mem[a].at = "settle" /\ mem[a].copy # << >> /\ mem[a].copy \in Seq(Places)
  BY OfAgent DEF AgentSettle, At, Memory
<1>2. /\ mem'[a].at = "entry" /\ mem'[a].dry = mem[a].dry
      /\ mem'[a].copy = Tail(mem[a].copy) /\ mem'[a].failed = mem[a].failed
      /\ \A q \in Queuers : q # a => mem'[q] = mem[q]
      /\ UNCHANGED <<disk, queue, torn, givenUp, lost>> /\ owed' = owed \ {Entry(a)}
  BY <1>1 DEF AgentSettle, Memory, Queuers, Procs
<1>3. \A s \in owed' : InList(mem[a].copy, s) => InList(mem'[a].copy, s)
  BY <1>1, <1>2, TailHas DEF Entry
<1>4. QED
  BY <1>1, <1>2, <1>3, QueueAgentWorks DEF Idle

\* An entry that failed goes from the copy to the list of failures.
LEMMA QueueAgentFail ==
  ASSUME NEW a \in Agents, IInv, Calm, AgentFail(a)
  PROVE  Calm'
<1>1. /\ a \in Procs /\ mem[a] \in Memory /\ mem \in [Procs -> Memory]
      /\ mem[a].at \in {"entry", "settle"} /\ mem[a].copy # << >>
      /\ mem[a].copy \in Seq(Places) /\ mem[a].failed \in Seq(Places)
  BY OfAgent DEF AgentFail, AtEntry, At, Memory
<1>2. /\ mem'[a].at = "entry" /\ mem'[a].dry = mem[a].dry
      /\ mem'[a].copy = Tail(mem[a].copy)
      /\ mem'[a].failed = Append(mem[a].failed, Entry(a))
      /\ \A q \in Queuers : q # a => mem'[q] = mem[q]
      /\ UNCHANGED <<disk, queue, torn, owed, givenUp, lost>>
  BY <1>1 DEF AgentFail, Memory, history, Queuers, Procs
<1>3. Entry(a) \in Places
  BY <1>1, OfAgent, FirstListed DEF Entry
<1>4. /\ InList(mem'[a].failed, Entry(a))
      /\ \A s : InList(mem[a].failed, s) => InList(mem'[a].failed, s)
  BY <1>1, <1>2, <1>3, AppendHas
<1>5. \A s : InList(mem[a].copy, s) /\ s # Entry(a) => InList(mem'[a].copy, s)
  BY <1>1, <1>2, TailHas DEF Entry
<1>6. QED
  BY <1>1, <1>2, <1>4, <1>5, QueueAgentWorks DEF Idle

LEMMA QueueAgentTruncate ==
  ASSUME NEW a \in Agents, IInv, Calm, AgentTruncate(a)
  PROVE  Calm'
<1>1. /\ a \in Procs /\ a \in Queuers /\ a \notin Droppers
      /\ mem[a] \in Memory /\ mem \in [Procs -> Memory]
      /\ mem[a].at = "entry" /\ mem[a].copy = << >> /\ Tidy(a) /\ ~Idle(a)
      /\ UNCHANGED <<disk, queue, owed, givenUp, lost>>
  BY OfAgent, TornIsMine DEF Queuers, AgentTruncate, At, Idle, history
<1>2. \A s \in owed : Kept(s)'
  BY <1>1 DEF Calm, Kept, InList, OnDisk, Excused, PlacesOf, Place
<1>3. CASE Exit(a) /\ UNCHANGED torn
  BY <1>1, <1>2, <1>3, QueueExit DEF Tidy
<1>4. CASE Goto(a, "fill") /\ torn' = TRUE /\ ~mem[a].dry
  <2>1. /\ mem'[a].at = "fill" /\ mem'[a].dry = mem[a].dry
        /\ mem'[a].copy = << >> /\ mem'[a].failed = mem[a].failed
        /\ \A q \in Queuers : q # a => mem'[q] = mem[q]
    BY <1>1, <1>4 DEF Goto, Memory, Queuers, Procs
  <2>2. AgentTrack(a)
    BY <1>1 DEF Calm, Track
  <2>3. AgentTrack(a)' /\ Tidy(a)'
    BY <1>1, <1>4, <2>1, <2>2
       DEF AgentTrack, Tidy, InList, OnDisk, Excused, PlacesOf, Place
  <2>4. QED
    BY <1>1, <1>4, <2>1, <2>3, OneWorks DEF Track
<1>5. QED
  BY <1>3, <1>4 DEF AgentTruncate

\* The queue becomes what failed, for everything else in it has been registered;
\* or writing it fails, and what it held is lost.
LEMMA QueueAgentFill ==
  ASSUME NEW a \in Agents, IInv, Calm, AgentFill(a)
  PROVE  Calm'
<1>1. /\ a \in Queuers /\ mem[a].at = "fill" /\ torn /\ ~Idle(a)
      /\ UNCHANGED <<disk, owed, givenUp>> /\ Exit(a)
  BY TornIsMine DEF Queuers, AgentFill, At, Idle, Tidy
<1>2. AgentTrack(a) /\ DOMAIN << >> = {}
  BY <1>1, EmptySeq, LenProperties DEF Calm, Track
<1>3. CASE Fill(mem[a].failed) /\ UNCHANGED lost
  <2>1. queue' = mem[a].failed /\ torn' = FALSE
    BY <1>1, <1>3 DEF Fill
  <2>2. \A s \in owed : InList(mem[a].failed, s) \/ OnDisk(s) \/ Excused(s)
    BY <1>1, <1>2 DEF AgentTrack, InList
  <2>3. \A s \in owed : Kept(s)'
    BY <1>1, <1>3, <2>1, <2>2 DEF Kept, InList, OnDisk, Excused, PlacesOf, Place
  <2>4. QED
    BY <1>1, <2>1, <2>3, QueueExit
<1>4. CASE Abandon /\ UNCHANGED torn
  <2>1. /\ queue' = << >> /\ lost \subseteq lost'
        /\ \A s : InList(queue, s) => s \in lost'
    BY <1>1, <1>4, QueueAbandon
  <2>2. \A s \in owed : Kept(s)'
    BY <1>1, <2>1 DEF Calm, Kept, OnDisk, Excused, PlacesOf, Place
  <2>3. QED
    BY <1>1, <2>1, <2>2, QueueExit
<1>5. QED
  BY <1>3, <1>4 DEF AgentFill

-----------------------------------------------------------------------------
(* The theorem.                                                            *)

\* Steps that leave droppers, agents, the queue and the debts alone.
LEMMA QueueElsewhere ==
  ASSUME Calm, \A q \in Queuers : mem'[q] = mem[q],
         UNCHANGED <<queue, torn, owed, givenUp, lost>>, disk \subseteq disk'
  PROVE  Calm'
<1>1. \A s \in owed' : Kept(s)'
  BY DEF Calm, Kept, InList, OnDisk, Excused, PlacesOf, Place
<1>2. ASSUME NEW q \in Queuers, DropTrack(q) PROVE DropTrack(q)'
  BY <1>2 DEF DropTrack, Past, InList, Excused, Place
<1>3. ASSUME NEW q \in Queuers, AgentTrack(q) PROVE AgentTrack(q)'
  <2>1. \A s : OnDisk(s) => OnDisk(s)'
    BY DEF OnDisk, PlacesOf, Place
  <2>2. QED
    BY <1>3, <2>1 DEF AgentTrack, InList, Excused, Place
<1>4. \A q \in Queuers : Track(q)'
  BY <1>2, <1>3 DEF Calm, Track
<1>5. QED
  BY <1>1, <1>4 DEF Calm, Idle

LEMMA QueueCrash ==
  ASSUME NEW p \in Procs, IInv, Calm, Crash(p)
  PROVE  Calm'
<1>1. /\ Exit(p) /\ ~Idle(p) /\ UNCHANGED <<disk, torn, owed, givenUp>>
  BY DEF Crash, At, Idle
<1>2. CASE p \in Queuers /\ mem[p].at = "fill"
  <2>1. /\ queue' = << >> /\ lost \subseteq lost'
        /\ \A s : InList(queue, s) => s \in lost'
    BY <1>1, <1>2, QueueAbandon DEF Crash, At
  <2>2. \A s \in owed : Kept(s)'
    BY <1>1, <2>1 DEF Calm, Kept, OnDisk, Excused, PlacesOf, Place
  <2>3. QED
    BY <1>1, <1>2, <2>1, <2>2, QueueExit
<1>3. CASE p \in Queuers /\ mem[p].at # "fill"
  <2>1. UNCHANGED <<queue, lost>>
    BY <1>3 DEF Crash, At
  <2>2. (torn' => queue' = << >>) /\ \A s \in owed : Kept(s)'
    BY <1>1, <1>3, <2>1, TornIsMine
       DEF Tidy, Calm, Kept, InList, OnDisk, Excused, PlacesOf, Place
  <2>3. QED
    BY <1>1, <1>3, <2>2, QueueExit
<1>4. CASE p \notin Queuers
  <2>1. p \in Validators /\ mem[p].at # "fill"
    BY <1>4 DEF Queuers, Procs, IInv, MemOK
  <2>2. UNCHANGED <<queue, lost>>
    BY <2>1 DEF Crash, At
  <2>3. \A q \in Queuers : mem'[q] = mem[q]
    BY <1>1, <1>4 DEF Exit, Queuers, Procs, IInv, Typed
  <2>4. QED
    BY <1>1, <2>2, <2>3, QueueElsewhere
<1>5. QED
  BY <1>2, <1>3, <1>4

LEMMA QueueStep == IInv /\ QueueInv /\ [Next]_vars => QueueInv'
<1> SUFFICES ASSUME IInv, QueueInv, [Next]_vars, ~disturbed' PROVE Calm'
  BY DEF QueueInv
<1>1. ASSUME UNCHANGED disturbed PROVE Calm
  BY <1>1 DEF QueueInv
<1>2. ASSUME NEW f \in Files, Drop(f) PROVE Calm'
  BY <1>1, <1>2, QueueElsewhere DEF Drop
<1>3. ASSUME NEW d \in Droppers, Dropper(d) PROVE Calm'
  <2>1. CASE DropList(d)
    BY <2>1, QueueDropList
  <2>2. CASE ~DropList(d)
    <3>1. UNCHANGED disturbed
      BY <1>3, <2>2 DEF Dropper, DropGet, DropSkip, DropEnd, DropWrite, DropStore, DropJudge,
         DropRegister, DropReadQueue, DropTruncate, DropFill, DropDelete, history
    <3>2. QED
      BY <1>1, <1>3, <2>2, <3>1, QueueDropGet, QueueDropSkip, QueueDropEnd,
         QueueDropWrite, QueueDropJudge, QueueDropRegister, QueueDropReadQueue,
         QueueDropTruncate, QueueDropFill, QueueDropDelete DEF Dropper
  <2>3. QED
    BY <2>1, <2>2
<1>4. ASSUME NEW a \in Agents, Agent(a) PROVE Calm'
  <2>1. CASE AgentLoad(a)
    BY <2>1, QueueAgentLoad
  <2>2. CASE ~AgentLoad(a)
    <3>1. UNCHANGED disturbed
      BY <1>4, <2>2 DEF Agent, AgentProbe, AgentAsk, AgentPass, AgentSettle, AgentFail,
         AgentTruncate, AgentFill, history
    <3>2. QED
      BY <1>1, <1>4, <2>2, <3>1, QueueAgentProbe, QueueAgentPass, QueueAgentSettle,
         QueueAgentFail, QueueAgentTruncate, QueueAgentFill DEF Agent
  <2>3. QED
    BY <2>1, <2>2
<1>5. ASSUME NEW v \in Validators, Validator(v) PROVE Calm'
  <2>1. UNCHANGED <<disk, queue, torn, history>>
    BY <1>5 DEF Validator, ValidatorProbe, ValidatorRegister
  <2>2. v \notin Queuers /\ v \in Procs /\ mem \in [Procs -> Memory]
    BY OfValidator DEF Queuers
  <2>3. \A q \in Queuers : mem'[q] = mem[q]
    BY <1>5, <2>2 DEF Validator, ValidatorProbe, ValidatorRegister, Exit, Queuers, Procs
  <2>4. QED
    BY <1>1, <2>1, <2>3, QueueElsewhere DEF history
<1>6. ASSUME NEW p \in Procs, Crash(p) PROVE Calm'
  BY <1>1, <1>6, QueueCrash DEF Crash
<1>7. CASE UNCHANGED vars
  BY <1>1, <1>7, QueueElsewhere DEF vars, history
<1>8. QED
  BY <1>2, <1>3, <1>4, <1>5, <1>6, <1>7 DEF Next

\* While droppers and agents do not overlap, a key found not valid is queued
\* until an agent has registered it, or its file will be done again, or an
\* error was logged for it, or it was in the queue when a write of the queue was
\* cut short by an error or a crash: nothing else makes them forget it.
THEOREM DebtsAreKept == Spec => []NothingForgotten
<1>1. QueueInv => NothingForgotten
  BY DEF QueueInv, Calm, Kept, InList, OnDisk, Excused, NothingForgotten, InQueue
<1>2. QED
  BY <1>1, QueueInit, QueueStep, Invariant, PTL DEF Spec
=============================================================================
