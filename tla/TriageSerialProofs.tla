------------------------- MODULE TriageSerialProofs -------------------------
(* Theorems about runs of the review pipeline that do not overlap: what a  *)
(* reviewer said last is what the file says, what was denied is not put    *)
(* before a reviewer again, the three programs with their two files        *)
(* implement ReviewQueue, and a run that fails leaves at most one calendar *)
(* task per link that nothing refers to.                                   *)
EXTENDS TriageProofs

\* Nothing but the deployment keeps the programs apart.
OneAtATime == Overlap = FALSE

Running(p) == pc[p] # "idle"

-----------------------------------------------------------------------------
(* How the copy of the one program that runs differs from the file.        *)

\* A bridge has added items that nobody has judged and that are not denied.
Adds(b) ==
  /\ \A i \in DOMAIN pending : i \in DOMAIN view[b] /\ view[b][i] = pending[i]
  /\ \A i \in DOMAIN view[b] \ DOMAIN pending :
        /\ view[b][i].verdict = NoVerdict /\ view[b][i].synced = FALSE
        /\ view[b][i].source \notin rejected
  /\ pc[b] = "findings" => deny[b] = rejected

\* A setter has changed one item, to the verdict it was asked to record.
Speaks(s) ==
  /\ pc[s] = "write"
  /\ DOMAIN view[s] = DOMAIN pending
  /\ \E k \in DOMAIN pending :
        /\ pending[k].source = ruling[s].source
        /\ view[s][k].source = ruling[s].source
        /\ view[s][k].verdict = ruling[s].verdict
        /\ view[s][k].reviewed = TRUE
        /\ view[s][k].synced = pending[k].synced
        /\ \A j \in DOMAIN pending : j # k => view[s][j] = pending[j]

\* An applier has changed no verdict; it has synced and denied what it may.
Works(a) ==
  /\ DOMAIN view[a] = DOMAIN pending
  /\ \A i \in DOMAIN pending :
        /\ view[a][i].source = pending[i].source
        /\ view[a][i].verdict = pending[i].verdict
        /\ view[a][i].reviewed = pending[i].reviewed
        /\ pending[i].synced => view[a][i].synced
        /\ view[a][i].synced => pending[i].synced \/ pending[i].verdict = "backlog"
  /\ pc[a] \in {"items", "event"} =>
        /\ rejected \subseteq deny[a]
        /\ \A u \in deny[a] \ rejected : \E i \in DOMAIN pending :
              pending[i].source = u /\ pending[i].verdict = "rejected"

Continues(p) == /\ p \in Bridges => Adds(p)
                /\ p \in Setters => Speaks(p)
                /\ p \in Appliers => Works(p)

\* Nothing is judged without being flagged as reviewed.
Judged == \A i \in DOMAIN pending : pending[i].verdict # NoVerdict => pending[i].reviewed

SerialInv == /\ \A p, q \in Procs : Running(p) /\ Running(q) => p = q
             /\ \A p \in Procs : Running(p) => Continues(p)
             /\ Judged /\ NeverReoffered /\ LastWordStands

LEMMA SerialInit == Init => SerialInv
<1>1. DOMAIN << >> = {}
  BY EmptySeq, LenProperties
<1>2. QED
  BY <1>1 DEF Init, SerialInv, Running, Judged, NeverReoffered, LastWordStands

\* A program that starts or works is alone.
LEMMA Alone ==
  ASSUME OneAtATime, SerialInv, NEW p \in Procs, Running(p) \/ MayStart
  PROVE  \A q \in Procs : q # p => ~Running(q)
  BY DEF OneAtATime, MayStart, SerialInv, Running

\* The program that ends was the only one, so nothing runs after it.
LEMMA SerialExit ==
  ASSUME TypeInv, SerialInv, NEW p \in Procs, Running(p), Exit(p),
         Judged', NeverReoffered', LastWordStands'
  PROVE  SerialInv'
<1>1. \A q \in Procs : ~Running(q)'
  BY ExitForgets DEF SerialInv, Running
<1>2. QED
  BY <1>1 DEF SerialInv

\* A program that ends without writing anything.
LEMMA SerialQuit ==
  ASSUME TypeInv, SerialInv, NEW p \in Procs, Running(p), Exit(p), UNCHANGED <<files, last>>
  PROVE  SerialInv'
<1>1. Judged' /\ NeverReoffered' /\ LastWordStands'
  BY DEF SerialInv, Judged, NeverReoffered, LastWordStands, files
<1>2. QED
  BY <1>1, SerialExit

\* A step in which the only program that runs changes its memory.
LEMMA SerialWork ==
  ASSUME TypeInv, SerialInv, NEW p \in Procs,
         \A q \in Procs : q # p => ~Running(q) /\ pc'[q] = pc[q],
         UNCHANGED <<files, last>>, Continues(p)'
  PROVE  SerialInv'
<1>1. \A q \in Procs : q # p => ~Running(q)'
  BY DEF Running
<1>2. Judged' /\ NeverReoffered' /\ LastWordStands'
  BY DEF SerialInv, Judged, NeverReoffered, LastWordStands, files
<1>3. QED
  BY <1>1, <1>2 DEF SerialInv

-----------------------------------------------------------------------------
(* The steps of each program.                                              *)

LEMMA SerialBridge ==
  ASSUME OneAtATime, TypeInv, SerialInv, NEW b \in Bridges, Bridge(b)
  PROVE  SerialInv'
<1>1. b \in Procs /\ b \notin Appliers /\ b \notin Setters
  BY ProcsDisjoint DEF Procs
<1>2. Running(b) \/ MayStart
  BY DEF Bridge, BridgeLoad, BridgeReadDenylist, BridgeNothingNew, BridgeAppend,
         BridgeWrite, Running
<1>3. \A q \in Procs : q # b => ~Running(q)
  BY <1>1, <1>2, Alone
<1>4. Running(b) => Adds(b)
  BY <1>1 DEF SerialInv, Continues
<1>5. CASE BridgeLoad(b)
  <2>1. /\ view'[b] = pending /\ pc'[b] = "denylist" /\ UNCHANGED <<files, last>>
        /\ \A q \in Procs : q # b => pc'[q] = pc[q]
    BY <1>1, <1>5 DEF BridgeLoad, Goto, ghosts, TypeInv, TypeOK
  <2>2. Continues(b)'
    BY <1>1, <2>1 DEF Continues, Adds, files
  <2>3. QED
    BY <1>1, <1>3, <2>1, <2>2, SerialWork
<1>6. CASE BridgeReadDenylist(b)
  <2>1. /\ deny'[b] = rejected /\ pc[b] = "denylist" /\ UNCHANGED <<files, last, view>>
        /\ \A q \in Procs : q # b => pc'[q] = pc[q]
    BY <1>1, <1>6 DEF BridgeReadDenylist, Goto, ghosts, TypeInv, TypeOK
  <2>2. Continues(b)'
    BY <1>1, <1>4, <2>1 DEF Continues, Adds, Running, files
  <2>3. QED
    BY <1>1, <1>3, <2>1, <2>2, SerialWork
<1>7. CASE BridgeNothingNew(b)
  BY <1>1, <1>7, SerialQuit DEF BridgeNothingNew, ghosts, Running
<1>8. CASE BridgeAppend(b)
  <2> DEFINE new == NewSources(view[b], deny[b], findings)
  <2>1. PICK s \in Orders(new) : view' = [view EXCEPT ![b] = @ \o FreshItems(s)]
    BY <1>8 DEF BridgeAppend
  <2>2. new \subseteq Urls /\ new \cap Sources(view[b]) = {} /\ new \cap deny[b] = {}
    BY DEF NewSources, TypeInv, TypeOK
  <2> HIDE DEF new
  <2>3. view[b] \in Seq(Item) /\ view'[b] = view[b] \o FreshItems(s)
    BY <1>1, <2>1 DEF TypeInv, TypeOK
  <2>4. Extended(view[b], new, view'[b])
    BY <2>2, <2>3, AppendFresh
  <2>5. /\ pc[b] = "findings" /\ pc'[b] = "write" /\ UNCHANGED <<files, last, deny>>
        /\ \A q \in Procs : q # b => pc'[q] = pc[q]
    BY <1>1, <1>8 DEF BridgeAppend, Goto, ghosts, TypeInv, TypeOK
  <2>6. Adds(b) /\ deny[b] = rejected
    BY <1>4, <2>5 DEF Adds, Running
  <2>7. Adds(b)'
    BY <2>2, <2>4, <2>5, <2>6 DEF Adds, Extended, files
  <2>8. QED
    BY <1>1, <1>3, <2>5, <2>7, SerialWork DEF Continues
<1>9. CASE BridgeWrite(b)
  <2>1. /\ pending' = view[b] /\ rejected' = rejected /\ last' = last
        /\ Running(b) /\ Exit(b) /\ Adds(b)
    BY <1>4, <1>9 DEF BridgeWrite, ghosts, Running
  <2>2. Judged' /\ NeverReoffered' /\ LastWordStands'
    BY <2>1 DEF Adds, SerialInv, Judged, NeverReoffered, LastWordStands
  <2>3. QED
    BY <1>1, <2>1, <2>2, SerialExit
<1>10. QED
  BY <1>5, <1>6, <1>7, <1>8, <1>9 DEF Bridge

LEMMA SerialSet ==
  ASSUME OneAtATime, TypeInv, SerialInv, NEW s \in Setters, Set(s)
  PROVE  SerialInv'
<1>1. s \in Procs /\ s \notin Appliers /\ s \notin Bridges
  BY ProcsDisjoint DEF Procs
<1>2. Running(s) \/ MayStart
  BY DEF Set, SetLoad, SetWrite, Running
<1>3. \A q \in Procs : q # s => ~Running(q)
  BY <1>1, <1>2, Alone
<1>4. CASE SetLoad(s)
  <2>1. PICK i \in DOMAIN pending, v \in Verdicts :
          /\ view' = [view EXCEPT ![s] = [pending EXCEPT ![i] =
                        [@ EXCEPT !.verdict = v, !.reviewed = TRUE]]]
          /\ ruling' = [ruling EXCEPT ![s] = [source |-> pending[i].source, verdict |-> v]]
    BY <1>4 DEF SetLoad
  <2> DEFINE it == [pending[i] EXCEPT !.verdict = v, !.reviewed = TRUE]
  <2>2. pending \in Seq(Item) /\ pending[i] \in Item
    BY ElementOfSeq, LenProperties DEF TypeInv, TypeOK
  <2>3. /\ it \in Item /\ it.source = pending[i].source /\ it.verdict = v
        /\ it.reviewed = TRUE /\ it.synced = pending[i].synced
    BY <2>2 DEF Item
  <2>4. /\ view'[s] = [pending EXCEPT ![i] = it]
        /\ ruling'[s].source = it.source /\ ruling'[s].verdict = it.verdict
    BY <1>1, <2>1, <2>3 DEF TypeInv, TypeOK
  <2>5. /\ pc'[s] = "write" /\ UNCHANGED <<files, last>>
        /\ \A q \in Procs : q # s => pc'[q] = pc[q]
    BY <1>1, <1>4 DEF SetLoad, Goto, ghosts, TypeInv, TypeOK
  <2> HIDE DEF it
  <2>6. /\ DOMAIN view'[s] = DOMAIN pending /\ view'[s][i] = it
        /\ \A j \in DOMAIN pending : j # i => view'[s][j] = pending[j]
    BY <2>2, <2>3, <2>4, EditList
  <2>7. Continues(s)'
    BY <1>1, <2>3, <2>4, <2>5, <2>6 DEF Continues, Speaks, files
  <2>8. QED
    BY <1>1, <1>3, <2>5, <2>7, SerialWork
<1>5. CASE SetWrite(s)
  <2>1. /\ pending' = view[s] /\ rejected' = rejected /\ Running(s) /\ Exit(s) /\ Speaks(s)
        /\ last' = [last EXCEPT ![ruling[s].source] = ruling[s].verdict]
    BY <1>1, <1>5 DEF SetWrite, Running, SerialInv, Continues
  <2>2. Judged' /\ NeverReoffered'
    BY <2>1 DEF Speaks, SerialInv, Judged, NeverReoffered
  <2>3. last \in [Urls -> Verdicts \cup {NoVerdict}]
    BY DEF TypeInv, TypeOK
  <2>4. LastWordStands'
    <3> SUFFICES ASSUME NEW u \in Urls, last'[u] # NoVerdict
                 PROVE  \E i \in DOMAIN view[s] :
                           view[s][i].source = u /\ view[s][i].verdict = last'[u]
      BY <2>1 DEF LastWordStands
    <3>1. CASE u = ruling[s].source
      BY <2>1, <2>3, <3>1 DEF Speaks
    <3>2. CASE u # ruling[s].source
      BY <2>1, <2>3, <3>2 DEF Speaks, SerialInv, LastWordStands
    <3>3. QED
      BY <3>1, <3>2
  <2>5. QED
    BY <1>1, <2>1, <2>2, <2>4, SerialExit
<1>6. QED
  BY <1>4, <1>5 DEF Set

\* The applier's own edits, whichever they are.
LEMMA SerialEdit ==
  ASSUME OneAtATime, TypeInv, RecordInv, SerialInv, NEW a \in Appliers, Edits(a)
  PROVE  SerialInv'
<1>1. a \in Procs /\ a \notin Bridges /\ a \notin Setters
  BY ProcsDisjoint DEF Procs
<1>2. /\ at[a] \in DOMAIN view[a] /\ pc[a] \in {"items", "event"}
      /\ \A q \in Procs : q # a => pc'[q] = pc[q]
      /\ UNCHANGED <<files, last>>
  BY EditSteps DEF ghosts
<1>3. PICK it \in Item :
         /\ Edit(a, it)
         /\ it.source = Current(a).source /\ it.verdict = Current(a).verdict
         /\ ApplyDedup(a) \/ ApplyEvent(a) \/ it.synced = Current(a).synced
         /\ it.reviewed = Current(a).reviewed
         /\ Current(a).synced => it.synced
  <2>1. Current(a) \in Item
    BY <1>1, <1>2, CurrentIsItem
  <2>2. CASE ApplyReject(a)
    <3> DEFINE it == [Current(a) EXCEPT !.marked = TRUE]
    <3>1. /\ it \in Item /\ it.source = Current(a).source /\ it.verdict = Current(a).verdict
          /\ it.synced = Current(a).synced /\ it.reviewed = Current(a).reviewed
      BY <2>1 DEF Item
    <3>2. Edit(a, it)
      BY <2>2 DEF ApplyReject
    <3>3. QED
      BY <3>1, <3>2
  <2>3. CASE ApplyDedup(a)
    <3> DEFINE uids == created[a][extractLink(Current(a))]
               it == [Current(a) EXCEPT !.task = uids.task, !.event = uids.event,
                                        !.synced = TRUE]
    <3>1. uids \in [task : Nat, event : Nat]
      BY <1>1, <1>2, CurrentIsItem DEF TypeInv, TypeOK
    <3>2. /\ it \in Item /\ it.source = Current(a).source /\ it.verdict = Current(a).verdict
          /\ it.synced = TRUE /\ it.reviewed = Current(a).reviewed
      BY <2>1, <3>1 DEF Item
    <3>3. Edit(a, it)
      BY <2>3 DEF ApplyDedup
    <3>4. QED
      BY <2>3, <3>2, <3>3
  <2>4. CASE ApplyTask(a)
    <3> DEFINE it == [Current(a) EXCEPT !.task = Len(yandex')]
    <3>1. Len(yandex') \in Nat
      BY <1>1, <1>2, <2>4, CreatesType DEF ApplyTask
    <3>2. /\ it \in Item /\ it.source = Current(a).source /\ it.verdict = Current(a).verdict
          /\ it.synced = Current(a).synced /\ it.reviewed = Current(a).reviewed
      BY <2>1, <3>1 DEF Item
    <3>3. Edit(a, it)
      BY <2>4 DEF ApplyTask
    <3>4. QED
      BY <3>2, <3>3
  <2>5. CASE ApplyEvent(a)
    <3> DEFINE it == [Current(a) EXCEPT !.event = Len(yandex'), !.synced = TRUE]
    <3>1. Len(yandex') \in Nat
      BY <1>1, <1>2, <2>5, CreatesType DEF ApplyEvent
    <3>2. /\ it \in Item /\ it.source = Current(a).source /\ it.verdict = Current(a).verdict
          /\ it.synced = TRUE /\ it.reviewed = Current(a).reviewed
      BY <2>1, <3>1 DEF Item
    <3>3. Edit(a, it)
      BY <2>5 DEF ApplyEvent
    <3>4. QED
      BY <2>5, <3>2, <3>3
  <2>6. QED
    BY <2>2, <2>3, <2>4, <2>5 DEF Edits
<1>4. /\ DOMAIN view'[a] = DOMAIN view[a] /\ view'[a][at[a]] = it
      /\ \A j \in DOMAIN view[a] : j # at[a] => view'[a][j] = view[a][j]
  BY <1>1, <1>2, <1>3, EditType
<1>5. Works(a) /\ \A q \in Procs : q # a => ~Running(q)
  BY <1>1, <1>2, Alone DEF SerialInv, Running, Continues
<1>6. ApplyDedup(a) \/ ApplyEvent(a) => Current(a).verdict = "backlog"
  BY <1>1 DEF ApplyDedup, ApplyEvent, ToSync, RecordInv, MemoryOK
<1>7. /\ deny[a] \subseteq deny'[a]
      /\ \A u \in deny'[a] \ deny[a] :
            u = Current(a).source /\ Current(a).verdict = "rejected"
  BY <1>1 DEF Edits, ApplyReject, ApplyDedup, ApplyTask, ApplyEvent, ToDeny, TypeInv, TypeOK
<1>8. /\ rejected \subseteq deny[a]
      /\ \A u \in deny'[a] \ rejected : \E i \in DOMAIN pending :
            pending[i].source = u /\ pending[i].verdict = "rejected"
  BY <1>2, <1>5, <1>7 DEF Works, Current
<1>9. \A i \in DOMAIN pending :
        /\ view'[a][i].source = pending[i].source
        /\ view'[a][i].verdict = pending[i].verdict
        /\ view'[a][i].reviewed = pending[i].reviewed
        /\ pending[i].synced => view'[a][i].synced
        /\ view'[a][i].synced => pending[i].synced \/ pending[i].verdict = "backlog"
  <2> SUFFICES ASSUME NEW i \in DOMAIN pending
               PROVE  /\ view'[a][i].source = pending[i].source
                      /\ view'[a][i].verdict = pending[i].verdict
                      /\ view'[a][i].reviewed = pending[i].reviewed
                      /\ pending[i].synced => view'[a][i].synced
                      /\ view'[a][i].synced => pending[i].synced \/ pending[i].verdict = "backlog"
    OBVIOUS
  <2>1. CASE i # at[a]
    BY <2>1, <1>4, <1>5 DEF Works
  <2>2. CASE i = at[a]
    BY <2>2, <1>3, <1>4, <1>5, <1>6 DEF Works, Current
  <2>3. QED
    BY <2>1, <2>2
<1>10. Works(a)'
  BY <1>2, <1>4, <1>5, <1>7, <1>8, <1>9 DEF Works, files
<1>11. QED
  BY <1>1, <1>2, <1>5, <1>10, SerialWork DEF Continues

LEMMA SerialApply ==
  ASSUME OneAtATime, TypeInv, RecordInv, DistinctInv, SerialInv, NEW a \in Appliers, Apply(a)
  PROVE  SerialInv'
<1>1. a \in Procs /\ a \notin Bridges /\ a \notin Setters
  BY ProcsDisjoint DEF Procs
<1>2. /\ Running(a) \/ MayStart
      /\ UNCHANGED last
  BY DEF Apply, ApplyLoad, ApplyReadDenylist, ApplySkip, ApplyReject, ApplyDedup,
     ApplyTask, ApplyEvent, YandexFails, ApplySaveDenylist, ApplySavePending,
     AtItem, WantsTask, Running, ghosts
<1>3. \A q \in Procs : q # a => ~Running(q)
  BY <1>1, <1>2, Alone
<1>4. Running(a) => Works(a)
  BY <1>1 DEF SerialInv, Continues
<1>5. CASE ApplyLoad(a)
  <2>1. /\ view'[a] = pending /\ pc'[a] = "denylist" /\ UNCHANGED files
        /\ \A q \in Procs : q # a => pc'[q] = pc[q]
    BY <1>1, <1>5 DEF ApplyLoad, Goto, TypeInv, TypeOK
  <2>2. Continues(a)'
    BY <1>1, <2>1 DEF Continues, Works, files
  <2>3. QED
    BY <1>1, <1>2, <1>3, <2>1, <2>2, SerialWork
<1>6. CASE ApplyReadDenylist(a)
  <2>1. /\ deny'[a] = rejected /\ pc[a] = "denylist" /\ UNCHANGED <<files, view>>
        /\ \A q \in Procs : q # a => pc'[q] = pc[q]
    BY <1>1, <1>6 DEF ApplyReadDenylist, Goto, TypeInv, TypeOK
  <2>2. Continues(a)'
    BY <1>1, <1>4, <2>1 DEF Continues, Works, Running, files
  <2>3. QED
    BY <1>1, <1>2, <1>3, <2>1, <2>2, SerialWork
<1>7. CASE ApplySkip(a)
  <2>1. Works(a)' /\ UNCHANGED <<files, pc>>
    BY <1>4, <1>7 DEF ApplySkip, AtItem, Works, Running, files
  <2>2. QED
    BY <1>1, <1>2, <1>3, <2>1, SerialWork DEF Continues
<1>8. CASE Edits(a)
  BY <1>8, SerialEdit
<1>9. CASE YandexFails(a)
  BY <1>1, <1>9, SerialQuit DEF YandexFails, ghosts, WantsTask, AtItem, Running
<1>10. CASE ApplySaveDenylist(a)
  <2>1. rejected' = deny[a] /\ UNCHANGED pending /\ pc[a] = "items" /\ Running(a) /\ Works(a)
    BY <1>4, <1>10 DEF ApplySaveDenylist, Running
  <2>2. NeverReoffered'
    <3> SUFFICES ASSUME NEW i \in DOMAIN pending, pending[i].source \in deny[a]
                 PROVE  pending[i].reviewed
      BY <2>1 DEF NeverReoffered
    <3>1. CASE pending[i].source \in rejected
      BY <3>1 DEF SerialInv, NeverReoffered
    <3>2. CASE pending[i].source \notin rejected
      <4>1. PICK j \in DOMAIN pending :
               pending[j].source = pending[i].source /\ pending[j].verdict = "rejected"
        BY <2>1, <3>2 DEF Works
      <4>2. i = j
        BY <4>1 DEF DistinctInv, Distinct
      <4>3. QED
        BY <4>1, <4>2 DEF SerialInv, Judged, NoVerdict
    <3>3. QED
      BY <3>1, <3>2
  <2>3. Judged' /\ LastWordStands'
    BY <1>2, <2>1 DEF SerialInv, Judged, LastWordStands
  <2>4. CASE Exit(a)
    BY <1>1, <2>1, <2>2, <2>3, <2>4, SerialExit
  <2>5. CASE Goto(a, "write") /\ UNCHANGED <<view, deny, at, created, dirty, ruling>>
    <3>1. pc'[a] = "write" /\ \A q \in Procs : q # a => pc'[q] = pc[q]
      BY <1>1, <2>5 DEF Goto, TypeInv, TypeOK
    <3>2. Works(a)'
      BY <2>1, <2>5, <3>1 DEF Works
    <3>3. \A q \in Procs : q # a => ~Running(q)'
      BY <1>3, <3>1 DEF Running
    <3>4. QED
      BY <1>1, <2>2, <2>3, <3>2, <3>3 DEF SerialInv, Continues
  <2>6. QED
    BY <1>10, <2>4, <2>5 DEF ApplySaveDenylist
<1>11. CASE ApplySavePending(a)
  <2>1. pending' = view[a] /\ rejected' = rejected /\ Running(a) /\ Exit(a) /\ Works(a)
    BY <1>4, <1>11 DEF ApplySavePending, Running
  <2>2. Judged' /\ NeverReoffered' /\ LastWordStands'
    BY <1>2, <2>1 DEF Works, SerialInv, Judged, NeverReoffered, LastWordStands
  <2>3. QED
    BY <1>1, <2>1, <2>2, SerialExit
<1>12. QED
  BY <1>5, <1>6, <1>7, <1>8, <1>9, <1>10, <1>11 DEF Apply, Edits

LEMMA SerialStep ==
  ASSUME OneAtATime, TypeInv, RecordInv, DistinctInv, SerialInv, [Next]_vars
  PROVE  SerialInv'
<1>1. ASSUME UNCHANGED <<files, local, last>>
      PROVE  SerialInv'
  BY <1>1 DEF SerialInv, Running, Continues, Adds, Speaks, Works, Judged,
     NeverReoffered, LastWordStands, files, local
<1>2. CASE \E u \in Urls : Scan(u)
  BY <1>1, <1>2 DEF Scan, ghosts
<1>3. ASSUME NEW p \in Procs, Crash(p)
      PROVE  SerialInv'
  BY <1>3, SerialQuit DEF Crash, Running, ghosts
<1>4. CASE UNCHANGED vars
  BY <1>1, <1>4 DEF vars, ghosts
<1>5. QED
  BY <1>2, <1>3, <1>4, SerialBridge, SerialSet, SerialApply DEF Next

LEMMA DistinctCorrect == Spec => []DistinctInv
<1>1. Init => DistinctInv
  BY EmptyDistinct DEF Init, DistinctInv
<1>2. TypeInv /\ DistinctInv /\ [Next]_vars => DistinctInv'
  BY DistinctStep
<1>3. QED
  BY <1>1, <1>2, TypeCorrect, PTL DEF Spec

LEMMA SerialCorrect == ASSUME OneAtATime PROVE Spec => []SerialInv
<1>1. TypeInv /\ RecordInv /\ DistinctInv /\ SerialInv /\ [Next]_vars => SerialInv'
  BY SerialStep
<1>2. QED
  BY <1>1, SerialInit, TypeCorrect, RecordsCorrect, DistinctCorrect, PTL DEF Spec

\* When runs do not overlap, the verdict a reviewer was last told had been
\* recorded is the one in the file, whatever failed or died since.
THEOREM LastWordIsKept == ASSUME OneAtATime PROVE Spec => []LastWordStands
<1>1. SerialInv => LastWordStands
  BY DEF SerialInv
<1>2. QED
  BY <1>1, SerialCorrect, PTL

\* When runs do not overlap, an item whose source is denied is never listed as
\* still awaiting review.
THEOREM DeniedIsSettled == ASSUME OneAtATime PROVE Spec => []NeverReoffered
<1>1. SerialInv => NeverReoffered
  BY DEF SerialInv
<1>2. QED
  BY <1>1, SerialCorrect, PTL

-----------------------------------------------------------------------------
(* What a step does to the two files, seen from outside.                   *)

LEMMA FileSteps ==
  ASSUME OneAtATime, TypeInv, SerialInv, [Next]_vars
  PROVE  \/ UNCHANGED files
         \/ \E b \in Bridges : Adds(b) /\ pending' = view[b] /\ UNCHANGED rejected
         \/ \E s \in Setters : Speaks(s) /\ pending' = view[s] /\ UNCHANGED rejected
         \/ \E a \in Appliers : /\ Works(a) /\ pc[a] = "items"
                                /\ rejected' = deny[a] /\ UNCHANGED pending
         \/ \E a \in Appliers : Works(a) /\ pending' = view[a] /\ UNCHANGED rejected
<1>1. ASSUME NEW b \in Bridges, Bridge(b)
      PROVE  UNCHANGED files \/ (Adds(b) /\ pending' = view[b] /\ UNCHANGED rejected)
  <2>1. CASE BridgeWrite(b)
    BY <2>1 DEF BridgeWrite, SerialInv, Running, Continues, Procs
  <2>2. CASE ~BridgeWrite(b)
    BY <1>1, <2>2 DEF Bridge, BridgeLoad, BridgeReadDenylist, BridgeNothingNew, BridgeAppend
  <2>3. QED
    BY <2>1, <2>2
<1>2. ASSUME NEW s \in Setters, Set(s)
      PROVE  UNCHANGED files \/ (Speaks(s) /\ pending' = view[s] /\ UNCHANGED rejected)
  <2>1. CASE SetWrite(s)
    BY <2>1 DEF SetWrite, SerialInv, Running, Continues, Procs
  <2>2. CASE ~SetWrite(s)
    BY <1>2, <2>2 DEF Set, SetLoad
  <2>3. QED
    BY <2>1, <2>2
<1>3. ASSUME NEW a \in Appliers, Apply(a)
      PROVE  \/ UNCHANGED files
             \/ Works(a) /\ pc[a] = "items" /\ rejected' = deny[a] /\ UNCHANGED pending
             \/ Works(a) /\ pending' = view[a] /\ UNCHANGED rejected
  <2>1. CASE ApplySaveDenylist(a)
    BY <2>1 DEF ApplySaveDenylist, SerialInv, Running, Continues, Procs
  <2>2. CASE ApplySavePending(a)
    BY <2>2 DEF ApplySavePending, SerialInv, Running, Continues, Procs
  <2>3. CASE ~ApplySaveDenylist(a) /\ ~ApplySavePending(a)
    BY <1>3, <2>3 DEF Apply, ApplyLoad, ApplyReadDenylist, ApplySkip, ApplyReject,
       ApplyDedup, ApplyTask, ApplyEvent, YandexFails
  <2>4. QED
    BY <2>1, <2>2, <2>3
<1>4. CASE \E u \in Urls : Scan(u)
  BY <1>4 DEF Scan
<1>5. CASE \E p \in Procs : Crash(p)
  BY <1>5 DEF Crash
<1>6. CASE UNCHANGED vars
  BY <1>6 DEF vars, files
<1>7. QED
  BY <1>1, <1>2, <1>3, <1>4, <1>5, <1>6 DEF Next

-----------------------------------------------------------------------------
(* The refinement of ReviewQueue.  The abstract variables as functions of  *)
(* a list of items.                                                        *)

VerdictIn(items, u) == IF \E i \in DOMAIN items : items[i].source = u
                       THEN (CHOOSE it \in {items[i] : i \in DOMAIN items} :
                               it.source = u).verdict
                       ELSE NoVerdict
SyncedIn(items) == {items[i].source : i \in {j \in DOMAIN items : items[j].synced}}

\* In a list without duplicates the verdict of a source is that of its item.
LEMMA VerdictAt ==
  ASSUME NEW items, Distinct(items)
  PROVE  /\ \A i \in DOMAIN items : VerdictIn(items, items[i].source) = items[i].verdict
         /\ \A u : u \notin Sources(items) => VerdictIn(items, u) = NoVerdict
<1>1. ASSUME NEW i \in DOMAIN items
      PROVE  VerdictIn(items, items[i].source) = items[i].verdict
  <2> DEFINE it == CHOOSE x \in {items[j] : j \in DOMAIN items} : x.source = items[i].source
  <2>1. it \in {items[j] : j \in DOMAIN items} /\ it.source = items[i].source
    OBVIOUS
  <2>2. it = items[i]
    BY <2>1 DEF Distinct
  <2>3. QED
    BY <2>2 DEF VerdictIn
<1>2. \A u : u \notin Sources(items) => VerdictIn(items, u) = NoVerdict
  BY DEF VerdictIn, Sources
<1>3. QED
  BY <1>1, <1>2

\* A list that extends another and changes no verdict tells the same verdicts.
LEMMA VerdictsAgree ==
  ASSUME NEW old, NEW new, Distinct(old), Distinct(new),
         \A i \in DOMAIN old : /\ i \in DOMAIN new /\ new[i].source = old[i].source
                               /\ new[i].verdict = old[i].verdict,
         \A i \in DOMAIN new \ DOMAIN old : new[i].verdict = NoVerdict
  PROVE  \A u : VerdictIn(new, u) = VerdictIn(old, u)
<1> SUFFICES ASSUME NEW u PROVE VerdictIn(new, u) = VerdictIn(old, u)
  OBVIOUS
<1>1. CASE u \in Sources(old)
  <2>1. PICK i \in DOMAIN old : old[i].source = u
    BY <1>1 DEF Sources
  <2>2. VerdictIn(old, u) = old[i].verdict
    BY <2>1, VerdictAt
  <2>3. VerdictIn(new, u) = new[i].verdict
    BY <2>1, VerdictAt
  <2>4. QED
    BY <2>1, <2>2, <2>3
<1>2. CASE u \notin Sources(old) /\ u \in Sources(new)
  <2>1. PICK i \in DOMAIN new : new[i].source = u
    BY <1>2 DEF Sources
  <2>2. i \notin DOMAIN old
    BY <1>2, <2>1 DEF Sources
  <2>3. VerdictIn(new, u) = new[i].verdict
    BY <2>1, VerdictAt
  <2>4. QED
    BY <1>2, <2>2, <2>3, VerdictAt
<1>3. CASE u \notin Sources(old) /\ u \notin Sources(new)
  BY <1>3, VerdictAt
<1>4. QED
  BY <1>1, <1>2, <1>3

LEMMA SourcesAreUrls == ASSUME NEW items \in Seq(Item) PROVE Sources(items) \subseteq Urls
  BY ElementOfSeq, LenProperties, ItemFields DEF Sources

\* A bridge offers.
LEMMA AddsOffers ==
  ASSUME NEW b, NEW items \in Seq(Item), items = view[b], Adds(b),
         Distinct(pending), Distinct(items)
  PROVE  /\ \E S \in SUBSET (Urls \ (Sources(pending) \cup rejected)) :
               Sources(items) = Sources(pending) \cup S
         /\ \A u : VerdictIn(items, u) = VerdictIn(pending, u)
         /\ SyncedIn(items) = SyncedIn(pending)
<1>1. /\ \A i \in DOMAIN pending : i \in DOMAIN items /\ items[i] = pending[i]
      /\ \A i \in DOMAIN items \ DOMAIN pending :
            /\ items[i].verdict = NoVerdict /\ items[i].synced = FALSE
            /\ items[i].source \notin rejected
  BY DEF Adds
<1>2. \A u : VerdictIn(items, u) = VerdictIn(pending, u)
  BY <1>1, VerdictsAgree
<1>3. SyncedIn(items) = SyncedIn(pending)
  BY <1>1 DEF SyncedIn
<1>4. Sources(pending) \subseteq Sources(items)
  BY <1>1 DEF Sources
<1>5. Sources(items) \ Sources(pending) \subseteq Urls \ (Sources(pending) \cup rejected)
  BY <1>1, SourcesAreUrls DEF Sources
<1>6. Sources(items) = Sources(pending) \cup (Sources(items) \ Sources(pending))
  BY <1>4
<1>7. QED
  BY <1>2, <1>3, <1>5, <1>6

\* A setter judges one source.
LEMMA SpeaksJudges ==
  ASSUME NEW s, NEW items, items = view[s], Speaks(s), Distinct(pending), Distinct(items)
  PROVE  /\ ruling[s].source \in Sources(pending)
         /\ Sources(items) = Sources(pending)
         /\ SyncedIn(items) = SyncedIn(pending)
         /\ VerdictIn(items, ruling[s].source) = ruling[s].verdict
         /\ \A u : u # ruling[s].source => VerdictIn(items, u) = VerdictIn(pending, u)
<1>1. PICK k \in DOMAIN pending :
        /\ pending[k].source = ruling[s].source /\ items[k].source = ruling[s].source
        /\ items[k].verdict = ruling[s].verdict /\ items[k].synced = pending[k].synced
        /\ \A j \in DOMAIN pending : j # k => items[j] = pending[j]
  BY DEF Speaks
<1>2. DOMAIN items = DOMAIN pending
  BY DEF Speaks
<1>3. ruling[s].source \in Sources(pending)
  BY <1>1 DEF Sources
<1>4. Sources(items) = Sources(pending)
  BY <1>1, <1>2 DEF Sources
<1>5. SyncedIn(items) = SyncedIn(pending)
  <2>1. \A i \in DOMAIN pending : /\ items[i].synced = pending[i].synced
                                  /\ items[i].source = pending[i].source
    BY <1>1
  <2>2. QED
    BY <1>2, <2>1 DEF SyncedIn
<1>6. VerdictIn(items, ruling[s].source) = ruling[s].verdict
  BY <1>1, <1>2, VerdictAt
<1>7. ASSUME NEW u, u # ruling[s].source
      PROVE  VerdictIn(items, u) = VerdictIn(pending, u)
  <2>1. CASE u \in Sources(pending)
    <3>1. PICK i \in DOMAIN pending : pending[i].source = u
      BY <2>1 DEF Sources
    <3>2. items[i] = pending[i]
      BY <1>1, <1>7, <3>1
    <3>3. VerdictIn(items, u) = items[i].verdict
      BY <1>2, <3>1, <3>2, VerdictAt
    <3>4. VerdictIn(pending, u) = pending[i].verdict
      BY <3>1, VerdictAt
    <3>5. QED
      BY <3>2, <3>3, <3>4
  <2>2. CASE u \notin Sources(pending)
    BY <1>4, <2>2, VerdictAt
  <2>3. QED
    BY <2>1, <2>2
<1>8. QED
  BY <1>3, <1>4, <1>5, <1>6, <1>7

\* An applier denies what stands rejected and syncs what stands on the backlog.
LEMMA WorksDenies ==
  ASSUME NEW a, Works(a), pc[a] = "items", Distinct(pending)
  PROVE  /\ rejected \subseteq deny[a]
         /\ \A u \in deny[a] \ rejected :
               u \in Sources(pending) /\ VerdictIn(pending, u) = "rejected"
<1>1. /\ rejected \subseteq deny[a]
      /\ \A u \in deny[a] \ rejected : \E i \in DOMAIN pending :
            pending[i].source = u /\ pending[i].verdict = "rejected"
  BY DEF Works
<1>2. QED
  BY <1>1, VerdictAt DEF Sources

LEMMA WorksSyncs ==
  ASSUME NEW a, NEW items, items = view[a], Works(a), Distinct(pending), Distinct(items)
  PROVE  /\ Sources(items) = Sources(pending)
         /\ \A u : VerdictIn(items, u) = VerdictIn(pending, u)
         /\ SyncedIn(pending) \subseteq SyncedIn(items)
         /\ \A u \in SyncedIn(items) \ SyncedIn(pending) :
               u \in Sources(pending) /\ VerdictIn(pending, u) = "backlog"
<1>1. /\ DOMAIN items = DOMAIN pending
      /\ \A i \in DOMAIN pending :
            /\ items[i].source = pending[i].source
            /\ items[i].verdict = pending[i].verdict
            /\ pending[i].synced => items[i].synced
            /\ items[i].synced => pending[i].synced \/ pending[i].verdict = "backlog"
  BY DEF Works
<1>2. Sources(items) = Sources(pending)
  BY <1>1 DEF Sources
<1>3. \A u : VerdictIn(items, u) = VerdictIn(pending, u)
  BY <1>1, VerdictsAgree
<1>4. SyncedIn(pending) \subseteq SyncedIn(items)
  BY <1>1 DEF SyncedIn
<1>5. ASSUME NEW u \in SyncedIn(items) \ SyncedIn(pending)
      PROVE  u \in Sources(pending) /\ VerdictIn(pending, u) = "backlog"
  <2>1. PICK i \in DOMAIN items : items[i].source = u /\ items[i].synced
    BY DEF SyncedIn
  <2>2. pending[i].source = u /\ pending[i].verdict = "backlog"
    BY <1>1, <2>1 DEF SyncedIn
  <2>3. QED
    BY <1>1, <2>1, <2>2, VerdictAt DEF Sources
<1>6. QED
  BY <1>2, <1>3, <1>4, <1>5

\* The abstract verdicts and synced sources are those of the file.
LEMMA AbstractState ==
  /\ [u \in Urls |-> VerdictOf(u)] = [u \in Urls |-> VerdictIn(pending, u)]
  /\ [u \in Urls |-> VerdictOf(u)]' = [u \in Urls |-> VerdictIn(pending', u)]
  /\ {pending[i].source : i \in {j \in DOMAIN pending : pending[j].synced}}
       = SyncedIn(pending)
  /\ {pending[i].source : i \in {j \in DOMAIN pending : pending[j].synced}}'
       = SyncedIn(pending')
  /\ Sources(pending)' = Sources(pending')
  BY DEF VerdictOf, VerdictIn, SyncedIn, Sources

LEMMA QueueInit == Init => Queue!Init
<1> SUFFICES ASSUME Init PROVE Queue!Init
  OBVIOUS
<1>1. DOMAIN pending = {}
  BY EmptySeq, LenProperties DEF Init
<1>2. \A u : VerdictIn(pending, u) = NoVerdict
  BY <1>1 DEF VerdictIn
<1>3. Sources(pending) = {} /\ SyncedIn(pending) = {} /\ rejected = {}
  BY <1>1 DEF Sources, SyncedIn, Init
<1>4. QED
  BY <1>2, <1>3, AbstractState DEF Queue!Init

LEMMA QueueStep ==
  ASSUME OneAtATime, TypeInv, DistinctInv, SerialInv, [Next]_vars
  PROVE  [Queue!Next]_(Queue!queueVars)
<1> DEFINE told(items) == [u \in Urls |-> VerdictIn(items, u)]
<1>1. Distinct(pending) /\ \A p \in Procs : Distinct(view[p]) /\ view[p] \in Seq(Item)
  BY DEF DistinctInv, TypeInv, TypeOK
<1>2. CASE UNCHANGED files
  BY <1>2, AbstractState DEF files, Queue!queueVars
<1>3. ASSUME NEW b \in Bridges, Adds(b), pending' = view[b], UNCHANGED rejected
      PROVE  Queue!Offer
  <2>1. /\ \E S \in SUBSET (Urls \ (Sources(pending) \cup rejected)) :
              Sources(pending') = Sources(pending) \cup S
        /\ \A u : VerdictIn(pending', u) = VerdictIn(pending, u)
        /\ SyncedIn(pending') = SyncedIn(pending)
    BY <1>1, <1>3, AddsOffers DEF Procs
  <2>2. told(pending') = told(pending)
    BY <2>1
  <2>3. QED
    BY <1>3, <2>1, <2>2, AbstractState DEF Queue!Offer
<1>4. ASSUME NEW s \in Setters, Speaks(s), pending' = view[s], UNCHANGED rejected
      PROVE  Queue!Judge
  <2>1. /\ ruling[s].source \in Sources(pending)
        /\ Sources(pending') = Sources(pending)
        /\ SyncedIn(pending') = SyncedIn(pending)
        /\ VerdictIn(pending', ruling[s].source) = ruling[s].verdict
        /\ \A u : u # ruling[s].source => VerdictIn(pending', u) = VerdictIn(pending, u)
    BY <1>1, <1>4, SpeaksJudges DEF Procs
  <2>2. ruling[s].source \in Urls /\ ruling[s].verdict \in Verdicts
    BY <1>4 DEF Speaks, TypeInv
  <2>3. told(pending') = [told(pending) EXCEPT ![ruling[s].source] = ruling[s].verdict]
    BY <2>1, <2>2
  <2>4. QED
    BY <1>4, <2>1, <2>2, <2>3, AbstractState DEF Queue!Judge
<1>5. ASSUME NEW a \in Appliers, Works(a), pc[a] = "items", rejected' = deny[a],
             UNCHANGED pending
      PROVE  Queue!Deny
  <2>1. /\ rejected \subseteq rejected'
        /\ \A u \in rejected' \ rejected :
              u \in Sources(pending) /\ VerdictIn(pending, u) = "rejected"
    BY <1>1, <1>5, WorksDenies
  <2>2. Sources(pending) \subseteq Urls
    BY SourcesAreUrls DEF TypeInv, TypeOK
  <2>3. rejected' \ rejected \in SUBSET {u \in Sources(pending) : told(pending)[u] = "rejected"}
    <3>1. \A u \in Sources(pending) : told(pending)[u] = VerdictIn(pending, u)
      BY <2>2
    <3>2. QED
      BY <2>1, <3>1
  <2>4. rejected' = rejected \cup (rejected' \ rejected)
    BY <2>1
  <2>5. QED
    BY <1>5, <2>3, <2>4, AbstractState DEF Queue!Deny
<1>6. ASSUME NEW a \in Appliers, Works(a), pending' = view[a], UNCHANGED rejected
      PROVE  Queue!Sync
  <2>1. /\ Sources(pending') = Sources(pending)
        /\ \A u : VerdictIn(pending', u) = VerdictIn(pending, u)
        /\ SyncedIn(pending) \subseteq SyncedIn(pending')
        /\ \A u \in SyncedIn(pending') \ SyncedIn(pending) :
              u \in Sources(pending) /\ VerdictIn(pending, u) = "backlog"
    BY <1>1, <1>6, WorksSyncs DEF Procs
  <2>2. told(pending') = told(pending)
    BY <2>1
  <2>3. Sources(pending) \subseteq Urls
    BY SourcesAreUrls DEF TypeInv, TypeOK
  <2>4. SyncedIn(pending') \ SyncedIn(pending)
          \in SUBSET {u \in Sources(pending) : told(pending)[u] = "backlog"}
    <3>1. \A u \in Sources(pending) : told(pending)[u] = VerdictIn(pending, u)
      BY <2>3
    <3>2. QED
      BY <2>1, <3>1
  <2>5. SyncedIn(pending') = SyncedIn(pending) \cup (SyncedIn(pending') \ SyncedIn(pending))
    BY <2>1
  <2> DEFINE made == SyncedIn(pending') \ SyncedIn(pending)
  <2>6. made \in SUBSET {u \in Sources(pending) : [w \in Urls |-> VerdictOf(w)][u] = "backlog"}
    BY <2>4, AbstractState
  <2>7. {pending[i].source : i \in {j \in DOMAIN pending : pending[j].synced}}'
          = {pending[i].source : i \in {j \in DOMAIN pending : pending[j].synced}} \cup made
    BY <2>5, AbstractState
  <2>8. /\ Sources(pending)' = Sources(pending)
        /\ [u \in Urls |-> VerdictOf(u)]' = [u \in Urls |-> VerdictOf(u)]
    BY <2>1, <2>2, AbstractState
  <2> HIDE DEF made
  <2>9. QED
    BY <1>6, <2>6, <2>7, <2>8 DEF Queue!Sync
<1>7. QED
  BY <1>2, <1>3, <1>4, <1>5, <1>6, FileSteps DEF Queue!Next

\* When runs do not overlap, the three programs and their two files implement
\* the review queue, through every failure and crash.
THEOREM TriageIsAQueue == ASSUME OneAtATime PROVE Spec => ImplementsQueue
<1>1. TypeInv /\ DistinctInv /\ SerialInv /\ [Next]_vars => [Queue!Next]_(Queue!queueVars)
  BY QueueStep
<1>2. QED
  BY <1>1, QueueInit, TypeCorrect, DistinctCorrect, SerialCorrect, PTL
     DEF Spec, ImplementsQueue, Queue!Spec

-----------------------------------------------------------------------------
(* Calendar tasks that nothing refers to any more.  They appear only when  *)
(* a run gives up or dies: until it saves its copy, the tasks it created   *)
(* are in its memory alone, and it created at most one for each link.      *)

\* The applier has made a task for this item and not yet an event.
AtEvent(a, i) == pc[a] = "event" /\ i = at[a]

\* An item that is not synced has no task, and a task in the copy of an
\* applier is the file's, or the one this run made for the item's link.
HoldsTasks(a) ==
  /\ \A i \in DOMAIN pending :
        /\ pending[i].synced => view[a][i].task = pending[i].task
        /\ view[a][i].synced \/ view[a][i].task = 0 \/ AtEvent(a, i)
        /\ \/ view[a][i].task = pending[i].task
           \/ /\ MadeThisRun(a, extractLink(view[a][i]))
              /\ view[a][i].task = created[a][extractLink(view[a][i])].task
           \/ AtEvent(a, i)
  /\ pc[a] = "event" => ~Current(a).synced /\ ~MadeThisRun(a, extractLink(Current(a)))
  /\ pc[a] = "denylist" \/ (pc[a] = "items" /\ ~dirty[a]) => view[a] = pending

Carries(p) ==
  /\ p \in Bridges => \A i \in DOMAIN view[p] \ DOMAIN pending : view[p][i].task = 0
  /\ p \in Setters => \A i \in DOMAIN pending : view[p][i].task = pending[i].task
  /\ p \in Appliers => HoldsTasks(p)

SyncedOrNone == \A i \in DOMAIN pending : pending[i].synced \/ pending[i].task = 0

TaskInv == /\ SyncedOrNone
           /\ \A a \in Appliers : ~Running(a) => view[a] = << >>
           /\ \A p \in Procs : Running(p) => Carries(p)

LEMMA TaskInit == Init => TaskInv
<1>1. DOMAIN << >> = {}
  BY EmptySeq, LenProperties
<1>2. QED
  BY <1>1 DEF Init, TaskInv, Running, SyncedOrNone, Procs

\* The program that ends was the only one.
LEMMA TaskExit ==
  ASSUME TypeInv, SerialInv, TaskInv, NEW p \in Procs, Running(p), Exit(p), SyncedOrNone'
  PROVE  TaskInv'
<1>1. \A q \in Procs : ~Running(q)' /\ (q # p => ~Running(q))
  BY ExitForgets DEF SerialInv, Running
<1>2. \A a \in Appliers : view'[a] = << >>
  BY <1>1, ExitForgets DEF TaskInv, Procs
<1>3. QED
  BY <1>1, <1>2 DEF TaskInv

\* A step in which the only program that runs changes its memory.
LEMMA TaskWork ==
  ASSUME TaskInv, NEW p \in Procs, UNCHANGED pending,
         \A q \in Procs : q # p => ~Running(q) /\ pc'[q] = pc[q] /\ view'[q] = view[q],
         Running(p)', Carries(p)'
  PROVE  TaskInv'
<1>1. \A q \in Procs : q # p => ~Running(q)'
  BY DEF Running
<1>2. \A a \in Appliers : ~Running(a)' => view'[a] = << >>
  BY <1>1 DEF TaskInv, Procs
<1>3. SyncedOrNone'
  BY DEF TaskInv, SyncedOrNone
<1>4. QED
  BY <1>1, <1>2, <1>3 DEF TaskInv

\* Something refers to the entry.
Held(k) == Refers(pending, k) \/ \E a \in Appliers : Refers(view[a], k)

LEMMA OrphansAre == \A l : Orphans(l) = {k \in DOMAIN yandex : Filed(k, "task", l) /\ ~Held(k)}
  BY DEF Orphans, Filed, Held

\* No task is let go.
KeepsHold == \A l \in Links : Orphans(l)' \subseteq Orphans(l)

\* A step that lets go of no task, and creates none it does not hold.
LEMMA HoldKept ==
  ASSUME \A k \in DOMAIN yandex : yandex'[k] = yandex[k],
         \A k \in DOMAIN yandex : Held(k) => Held(k)',
         \A k \in DOMAIN yandex' \ DOMAIN yandex : yandex'[k].kind = "event" \/ Held(k)'
  PROVE  KeepsHold
<1> SUFFICES ASSUME NEW l \in Links, NEW k \in Orphans(l)' PROVE k \in Orphans(l)
  BY DEF KeepsHold
<1>1. k \in DOMAIN yandex' /\ yandex'[k] = [kind |-> "task", link |-> l] /\ ~Held(k)'
  BY DEF Orphans, Held
<1>2. yandex'[k].kind # "event"
  BY <1>1
<1>3. k \in DOMAIN yandex
  BY <1>1, <1>2
<1>4. QED
  BY <1>1, <1>3, OrphansAre DEF Filed

\* A step of a program that is no applier, or changes no task of its copy.
LEMMA HoldSame ==
  ASSUME UNCHANGED yandex,
         \A k \in DOMAIN yandex : Refers(pending, k) => Refers(pending', k),
         \A a \in Appliers, k \in DOMAIN yandex : Refers(view[a], k) =>
            Refers(view'[a], k) \/ Refers(pending', k)
  PROVE  KeepsHold
<1>1. \A k \in DOMAIN yandex : Held(k) => Held(k)'
  BY DEF Held, Refers
<1>2. QED
  BY <1>1, HoldKept

LEMMA TaskBridge ==
  ASSUME OneAtATime, TypeInv, SerialInv, TaskInv, NEW b \in Bridges, Bridge(b)
  PROVE  TaskInv' /\ KeepsHold /\ aborts' = aborts
<1>1. b \in Procs /\ b \notin Appliers /\ b \notin Setters
  BY ProcsDisjoint DEF Procs
<1>2. /\ Running(b) \/ MayStart
      /\ UNCHANGED <<yandex, aborts>>
  BY DEF Bridge, BridgeLoad, BridgeReadDenylist, BridgeNothingNew, BridgeAppend,
         BridgeWrite, Running
<1>3. \A q \in Procs : q # b => ~Running(q)
  BY <1>1, <1>2, Alone
<1>4. Running(b) => /\ Adds(b)
                    /\ \A i \in DOMAIN view[b] \ DOMAIN pending : view[b][i].task = 0
  BY <1>1 DEF SerialInv, Continues, TaskInv, Carries
<1>5. \A q \in Procs : q # b => view'[q] = view[q]
  BY <1>1 DEF Bridge, BridgeLoad, BridgeReadDenylist, BridgeNothingNew, BridgeAppend,
              BridgeWrite, Exit, TypeInv, TypeOK
<1>6. \A a \in Appliers : view'[a] = view[a]
  BY <1>1, <1>5 DEF Procs
<1>7. ASSUME UNCHANGED pending PROVE KeepsHold
  BY <1>2, <1>6, <1>7, HoldSame
<1>8. CASE BridgeLoad(b)
  <2>1. /\ view'[b] = pending /\ pc'[b] = "denylist" /\ UNCHANGED pending
        /\ \A q \in Procs : q # b => pc'[q] = pc[q]
    BY <1>1, <1>8 DEF BridgeLoad, Goto, files, TypeInv, TypeOK
  <2>2. Carries(b)' /\ Running(b)'
    BY <1>1, <2>1 DEF Carries, Running
  <2>3. QED
    BY <1>1, <1>2, <1>3, <1>5, <1>7, <2>1, <2>2, TaskWork
<1>9. CASE BridgeReadDenylist(b)
  <2>1. /\ pc[b] = "denylist" /\ pc'[b] = "findings" /\ UNCHANGED <<pending, view>>
        /\ \A q \in Procs : q # b => pc'[q] = pc[q]
    BY <1>1, <1>9 DEF BridgeReadDenylist, Goto, files, TypeInv, TypeOK
  <2>2. Carries(b)' /\ Running(b)'
    BY <1>1, <1>4, <2>1 DEF Carries, Running
  <2>3. QED
    BY <1>1, <1>2, <1>3, <1>5, <1>7, <2>1, <2>2, TaskWork
<1>10. CASE BridgeNothingNew(b)
  <2>1. Running(b) /\ Exit(b) /\ UNCHANGED pending
    BY <1>10 DEF BridgeNothingNew, Running, files
  <2>2. SyncedOrNone'
    BY <2>1 DEF TaskInv, SyncedOrNone
  <2>3. QED
    BY <1>1, <1>2, <1>7, <2>1, <2>2, TaskExit
<1>11. CASE BridgeAppend(b)
  <2> DEFINE new == NewSources(view[b], deny[b], findings)
  <2>1. PICK s \in Orders(new) : view' = [view EXCEPT ![b] = @ \o FreshItems(s)]
    BY <1>11 DEF BridgeAppend
  <2>2. new \subseteq Urls /\ new \cap Sources(view[b]) = {}
    BY DEF NewSources, TypeInv, TypeOK
  <2> HIDE DEF new
  <2>3. view[b] \in Seq(Item) /\ view'[b] = view[b] \o FreshItems(s)
    BY <1>1, <2>1 DEF TypeInv, TypeOK
  <2>4. Extended(view[b], new, view'[b])
    BY <2>2, <2>3, AppendFresh
  <2>5. /\ pc[b] = "findings" /\ pc'[b] = "write" /\ UNCHANGED pending
        /\ \A q \in Procs : q # b => pc'[q] = pc[q]
    BY <1>1, <1>11 DEF BridgeAppend, Goto, files, TypeInv, TypeOK
  <2>6. \A i \in DOMAIN view'[b] \ DOMAIN pending : view'[b][i].task = 0
    BY <1>4, <2>4, <2>5 DEF Extended, Running
  <2>7. Carries(b)' /\ Running(b)'
    BY <1>1, <2>5, <2>6 DEF Carries, Running
  <2>8. QED
    BY <1>1, <1>2, <1>3, <1>5, <1>7, <2>5, <2>7, TaskWork
<1>12. CASE BridgeWrite(b)
  <2>1. /\ pending' = view[b] /\ Running(b) /\ Exit(b) /\ Adds(b)
        /\ \A i \in DOMAIN view[b] \ DOMAIN pending : view[b][i].task = 0
    BY <1>4, <1>12 DEF BridgeWrite, Running
  <2>2. SyncedOrNone'
    BY <2>1 DEF Adds, TaskInv, SyncedOrNone
  <2>3. \A k : Refers(pending, k) => Refers(pending', k)
    BY <2>1 DEF Adds, Refers
  <2>4. KeepsHold
    BY <1>2, <1>6, <2>3, HoldSame
  <2>5. QED
    BY <1>1, <1>2, <2>1, <2>2, <2>4, TaskExit
<1>13. QED
  BY <1>8, <1>9, <1>10, <1>11, <1>12 DEF Bridge

LEMMA TaskSet ==
  ASSUME OneAtATime, TypeInv, SerialInv, TaskInv, NEW s \in Setters, Set(s)
  PROVE  TaskInv' /\ KeepsHold /\ aborts' = aborts
<1>1. s \in Procs /\ s \notin Appliers /\ s \notin Bridges
  BY ProcsDisjoint DEF Procs
<1>2. /\ Running(s) \/ MayStart
      /\ UNCHANGED <<yandex, aborts>>
  BY DEF Set, SetLoad, SetWrite, Running
<1>3. \A q \in Procs : q # s => ~Running(q)
  BY <1>1, <1>2, Alone
<1>4. \A a \in Appliers : view'[a] = view[a]
  BY <1>1 DEF Set, SetLoad, SetWrite, Exit, TypeInv, TypeOK, Procs
<1>5. CASE SetLoad(s)
  <2>1. PICK i \in DOMAIN pending, v \in Verdicts :
          view' = [view EXCEPT ![s] = [pending EXCEPT ![i] =
                     [@ EXCEPT !.verdict = v, !.reviewed = TRUE]]]
    BY <1>5 DEF SetLoad
  <2>2. pending \in Seq(Item) /\ pending[i] \in Item
    BY ElementOfSeq, LenProperties DEF TypeInv, TypeOK
  <2> DEFINE it == [pending[i] EXCEPT !.verdict = v, !.reviewed = TRUE]
  <2>3. it \in Item /\ it.task = pending[i].task
    BY <2>2 DEF Item
  <2>4. /\ view'[s] = [pending EXCEPT ![i] = it]
        /\ \A q \in Procs : q # s => view'[q] = view[q]
    BY <1>1, <2>1 DEF TypeInv, TypeOK
  <2> HIDE DEF it
  <2>5. \A j \in DOMAIN pending : view'[s][j].task = pending[j].task
    BY <2>2, <2>3, <2>4, EditList
  <2>6. /\ pc'[s] = "write" /\ UNCHANGED pending
        /\ \A q \in Procs : q # s => pc'[q] = pc[q]
    BY <1>1, <1>5 DEF SetLoad, Goto, files, TypeInv, TypeOK
  <2>7. Carries(s)' /\ Running(s)'
    BY <1>1, <2>5, <2>6 DEF Carries, Running
  <2>8. KeepsHold
    BY <1>2, <1>4, <2>6, HoldSame
  <2>9. QED
    BY <1>1, <1>2, <1>3, <2>4, <2>6, <2>7, <2>8, TaskWork
<1>6. CASE SetWrite(s)
  <2>1. /\ pending' = view[s] /\ Running(s) /\ Exit(s) /\ Speaks(s)
        /\ \A i \in DOMAIN pending : view[s][i].task = pending[i].task
    BY <1>1, <1>6 DEF SetWrite, Running, SerialInv, Continues, TaskInv, Carries
  <2>2. SyncedOrNone'
    BY <2>1 DEF Speaks, TaskInv, SyncedOrNone
  <2>3. \A k : Refers(pending, k) => Refers(pending', k)
    BY <2>1 DEF Speaks, Refers
  <2>4. KeepsHold
    BY <1>2, <1>4, <2>3, HoldSame
  <2>5. QED
    BY <1>1, <1>2, <2>1, <2>2, <2>4, TaskExit
<1>7. QED
  BY <1>5, <1>6 DEF Set

\* The applier rewrites its current item, which keeps its task or had none.
LEMMA HoldEdit ==
  ASSUME TypeInv, NEW a \in Appliers, at[a] \in DOMAIN view[a], NEW it \in Item,
         Edit(a, it), Current(a).task \in {0, it.task}, UNCHANGED pending
  PROVE  /\ \A i \in DOMAIN view[a] : view'[a][i] = IF i = at[a] THEN it ELSE view[a][i]
         /\ DOMAIN view'[a] = DOMAIN view[a]
         /\ \A k \in DOMAIN yandex : Held(k) => Held(k)'
         /\ Refers(view'[a], it.task)
<1>1. a \in Procs
  BY DEF Procs
<1>2. /\ \A i \in DOMAIN view[a] : view'[a][i] = IF i = at[a] THEN it ELSE view[a][i]
      /\ DOMAIN view'[a] = DOMAIN view[a]
      /\ \A q \in Appliers : q # a => view'[q] = view[q]
  BY <1>1, EditType DEF Edit, TypeInv, TypeOK
<1>3. 0 \notin DOMAIN yandex
  BY LenProperties DEF TypeInv, TypeOK
<1>4. Refers(view'[a], it.task)
  BY <1>2 DEF Refers
<1>5. ASSUME NEW k \in DOMAIN yandex, Refers(view[a], k) PROVE Refers(view'[a], k)
  <2>1. PICK i \in DOMAIN view[a] : view[a][i].task = k
    BY <1>5 DEF Refers
  <2>2. CASE i = at[a]
    BY <1>3, <1>4, <2>1, <2>2 DEF Current
  <2>3. CASE i # at[a]
    BY <1>2, <2>1, <2>3 DEF Refers
  <2>4. QED
    BY <2>2, <2>3
<1>6. ASSUME NEW k \in DOMAIN yandex, Held(k) PROVE Held(k)'
  <2>1. CASE Refers(pending, k)
    BY <2>1 DEF Held
  <2>2. ASSUME NEW q \in Appliers, Refers(view[q], k) PROVE Held(k)'
    <3>1. Refers(view'[q], k)
      BY <1>2, <1>5, <2>2
    <3>2. QED
      BY <3>1 DEF Held, Refers
  <2>3. QED
    BY <1>6, <2>1, <2>2 DEF Held
<1>7. QED
  BY <1>2, <1>4, <1>6

\* The calendar gets one entry, at its end.
LEMMA EntryAdded ==
  ASSUME TypeInv, NEW a \in Procs, at[a] \in DOMAIN view[a],
         NEW kind \in {"task", "event"}, Creates(a, kind)
  PROVE  \E new \in Nat :
            /\ new = Len(yandex') /\ new = Len(yandex) + 1 /\ new # 0
            /\ \A k \in DOMAIN yandex : yandex'[k] = yandex[k]
            /\ \A k \in DOMAIN yandex' \ DOMAIN yandex : k = new
            /\ yandex'[new].kind = kind /\ yandex'[new].link = extractLink(Current(a))
<1>1. /\ Len(yandex') = Len(yandex) + 1 /\ Len(yandex) \in Nat /\ Len(yandex') \in Nat
      /\ DOMAIN yandex = 1..Len(yandex) /\ DOMAIN yandex' = 1..Len(yandex')
      /\ \A k \in DOMAIN yandex : yandex'[k] = yandex[k]
      /\ yandex'[Len(yandex')] = [kind |-> kind, link |-> extractLink(Current(a))]
  BY CreatesType
<1>2. /\ \A k \in DOMAIN yandex' \ DOMAIN yandex : k = Len(yandex')
      /\ yandex'[Len(yandex')].kind = kind
      /\ yandex'[Len(yandex')].link = extractLink(Current(a))
      /\ Len(yandex') # 0
  BY <1>1
<1>3. QED
  BY <1>1, <1>2

LEMMA TaskEdit ==
  ASSUME OneAtATime, TypeInv, RecordInv, SerialInv, TaskInv, NEW a \in Appliers, Edits(a)
  PROVE  TaskInv' /\ KeepsHold
<1>1. a \in Procs /\ a \notin Bridges /\ a \notin Setters
  BY ProcsDisjoint DEF Procs
<1>2. /\ at[a] \in DOMAIN view[a] /\ pc[a] \in {"items", "event"} /\ pc'[a] \in {"items", "event"}
      /\ \A q \in Procs : q # a => pc'[q] = pc[q]
      /\ UNCHANGED pending /\ Current(a) \in Item
  BY EditSteps DEF files
<1>3. /\ Works(a) /\ HoldsTasks(a) /\ Running(a)
      /\ \A q \in Procs : q # a => ~Running(q)
  BY <1>1, <1>2, Alone DEF SerialInv, Running, Continues, TaskInv, Carries
<1>4. \A q \in Procs : q # a => view'[q] = view[q]
  BY <1>1 DEF Edits, ApplyReject, ApplyDedup, ApplyTask, ApplyEvent, Edit, TypeInv, TypeOK
<1>5. /\ DOMAIN view[a] = DOMAIN pending
      /\ pc[a] # "event" => \A i \in DOMAIN pending : ~AtEvent(a, i)
      /\ extractLink(Current(a)) \in Links
  BY <1>1, <1>2, <1>3, CurrentIsItem DEF Works, AtEvent
<1>6. Running(a)'
  BY <1>2 DEF Running
<1>7. \A i \in DOMAIN pending : /\ view[a][i].source = pending[i].source
                                /\ pending[i].synced => view[a][i].synced
  BY <1>3 DEF Works
<1>8. ASSUME HoldsTasks(a)' PROVE TaskInv'
  <2>1. Carries(a)'
    BY <1>1, <1>8 DEF Carries
  <2>2. QED
    BY <1>1, <1>2, <1>3, <1>4, <1>6, <2>1, TaskWork
<1>9. CASE ApplyReject(a)
  <2> DEFINE it == [Current(a) EXCEPT !.marked = TRUE]
  <2>1. /\ it \in Item /\ it.source = Current(a).source /\ it.task = Current(a).task
        /\ it.synced = Current(a).synced
    BY <1>2 DEF Item
  <2>2. Edit(a, it) /\ pc[a] = "items" /\ pc' = pc /\ created' = created /\ dirty'[a] = TRUE
        /\ UNCHANGED yandex
    BY <1>1, <1>9 DEF ApplyReject, AtItem, TypeInv, TypeOK
  <2> HIDE DEF it
  <2>3. /\ \A i \in DOMAIN view[a] : view'[a][i] = IF i = at[a] THEN it ELSE view[a][i]
        /\ \A k \in DOMAIN yandex : Held(k) => Held(k)'
    BY <1>2, <2>1, <2>2, HoldEdit
  <2>4. \A i \in DOMAIN pending : /\ view'[a][i].task = view[a][i].task
                                  /\ view'[a][i].synced = view[a][i].synced
                                  /\ view'[a][i].source = view[a][i].source
    BY <1>5, <2>1, <2>3 DEF Current
  <2>5. HoldsTasks(a)'
    <3>1. /\ \A i \in DOMAIN pending : ~AtEvent(a, i)
          /\ pc'[a] = "items" /\ dirty'[a] = TRUE
      BY <1>5, <2>2
    <3>2. ASSUME NEW i \in DOMAIN pending
          PROVE /\ pending[i].synced => view[a][i].task = pending[i].task
                /\ view[a][i].synced \/ view[a][i].task = 0
                /\ \/ view[a][i].task = pending[i].task
                   \/ /\ created[a][LinkOf[view[a][i].source]] # NoUids
                      /\ view[a][i].task = created[a][LinkOf[view[a][i].source]].task
      BY <1>3, <3>1 DEF HoldsTasks, MadeThisRun, extractLink
    <3>3. \A i \in DOMAIN pending :
                /\ pending[i].synced => view'[a][i].task = pending[i].task
                /\ view'[a][i].synced \/ view'[a][i].task = 0
                /\ \/ view'[a][i].task = pending[i].task
                   \/ /\ created[a][LinkOf[view'[a][i].source]] # NoUids
                      /\ view'[a][i].task = created[a][LinkOf[view'[a][i].source]].task
      BY <2>4, <3>2
    <3>4. QED
      BY <1>2, <2>2, <3>1, <3>3 DEF HoldsTasks, MadeThisRun, extractLink
  <2>6. QED
    BY <1>8, <2>2, <2>3, <2>5, HoldKept
<1>10. CASE ApplyDedup(a)
  <2> DEFINE uids == created[a][extractLink(Current(a))]
             it == [Current(a) EXCEPT !.task = uids.task, !.event = uids.event, !.synced = TRUE]
  <2>1. uids \in [task : Nat, event : Nat]
    BY <1>1, <1>5 DEF TypeInv, TypeOK
  <2>2. /\ it \in Item /\ it.source = Current(a).source /\ it.task = uids.task
        /\ it.synced = TRUE
    BY <1>2, <2>1 DEF Item
  <2>3. Edit(a, it) /\ pc[a] = "items" /\ pc' = pc /\ created' = created /\ dirty'[a] = TRUE
        /\ UNCHANGED yandex /\ ~Current(a).synced /\ MadeThisRun(a, extractLink(Current(a)))
    BY <1>1, <1>10 DEF ApplyDedup, AtItem, ToSync, TypeInv, TypeOK
  <2>4. Current(a).task = 0 /\ ~pending[at[a]].synced
    BY <1>2, <1>3, <1>5, <1>7, <2>3 DEF HoldsTasks, Current, AtEvent
  <2> HIDE DEF it
  <2>5. /\ \A i \in DOMAIN view[a] : view'[a][i] = IF i = at[a] THEN it ELSE view[a][i]
        /\ \A k \in DOMAIN yandex : Held(k) => Held(k)'
    BY <1>2, <2>2, <2>3, <2>4, HoldEdit
  <2>6. ASSUME NEW i \in DOMAIN pending
        PROVE /\ pending[i].synced => view'[a][i].task = pending[i].task
              /\ view'[a][i].synced \/ view'[a][i].task = 0
              /\ \/ view'[a][i].task = pending[i].task
                 \/ /\ created[a][LinkOf[view'[a][i].source]] # NoUids
                    /\ view'[a][i].task = created[a][LinkOf[view'[a][i].source]].task
    <3>1. CASE i = at[a]
      BY <1>2, <2>2, <2>3, <2>4, <2>5, <3>1 DEF MadeThisRun, extractLink
    <3>2. CASE i # at[a]
      BY <1>3, <1>5, <2>3, <2>5, <3>2 DEF HoldsTasks, AtEvent, MadeThisRun, extractLink
    <3>3. QED
      BY <3>1, <3>2
  <2>7. HoldsTasks(a)'
    BY <1>2, <2>3, <2>6 DEF HoldsTasks, MadeThisRun, extractLink
  <2>8. QED
    BY <1>8, <2>3, <2>5, <2>7, HoldKept
<1>11. CASE ApplyTask(a)
  <2>1. PICK new \in Nat :
          /\ new = Len(yandex')
          /\ \A k \in DOMAIN yandex : yandex'[k] = yandex[k]
          /\ \A k \in DOMAIN yandex' \ DOMAIN yandex : k = new
    BY <1>1, <1>2, <1>11, EntryAdded DEF ApplyTask
  <2> DEFINE it == [Current(a) EXCEPT !.task = new]
  <2>2. /\ it \in Item /\ it.source = Current(a).source /\ it.task = new
        /\ it.synced = Current(a).synced
    BY <1>2, <2>1 DEF Item
  <2>3. /\ Edit(a, it) /\ pc[a] = "items" /\ pc'[a] = "event" /\ created' = created /\ at' = at
        /\ ~Current(a).synced /\ ~MadeThisRun(a, extractLink(Current(a)))
    BY <1>1, <1>11, <2>1 DEF ApplyTask, WantsTask, AtItem, ToSync, Goto, TypeInv, TypeOK
  <2>4. Current(a).task = 0 /\ ~pending[at[a]].synced
    BY <1>2, <1>3, <1>5, <1>7, <2>3 DEF HoldsTasks, Current, AtEvent
  <2> HIDE DEF it
  <2>5. /\ \A i \in DOMAIN view[a] : view'[a][i] = IF i = at[a] THEN it ELSE view[a][i]
        /\ \A k \in DOMAIN yandex : Held(k) => Held(k)'
        /\ Refers(view'[a], it.task)
    BY <1>2, <2>2, <2>3, <2>4, HoldEdit
  <2>6. Held(new)'
    BY <2>2, <2>5 DEF Held, Refers
  <2>7. /\ Current(a)' = it
        /\ \A i \in DOMAIN pending : i # at[a] => view'[a][i] = view[a][i]
    BY <1>2, <1>5, <2>3, <2>5 DEF Current
  <2>8. HoldsTasks(a)'
    <3>1. /\ \A i \in DOMAIN pending : ~AtEvent(a, i)
          /\ pc'[a] = "event" /\ at' = at /\ created' = created /\ pending' = pending
      BY <1>2, <1>5, <2>3
    <3>2. \A i \in DOMAIN pending : i # at[a] =>
            /\ pending[i].synced => view'[a][i].task = pending[i].task
            /\ view'[a][i].synced \/ view'[a][i].task = 0
            /\ \/ view'[a][i].task = pending[i].task
               \/ /\ created[a][LinkOf[view'[a][i].source]] # NoUids
                  /\ view'[a][i].task = created[a][LinkOf[view'[a][i].source]].task
      BY <1>3, <2>7, <3>1 DEF HoldsTasks, MadeThisRun, extractLink
    <3>3. AtEvent(a, at[a])'
      BY <3>1 DEF AtEvent
    <3>4. \A i \in DOMAIN pending' :
            /\ pending'[i].synced => view'[a][i].task = pending'[i].task
            /\ view'[a][i].synced \/ view'[a][i].task = 0 \/ AtEvent(a, i)'
            /\ \/ view'[a][i].task = pending'[i].task
               \/ /\ created'[a][LinkOf[view'[a][i].source]] # NoUids
                  /\ view'[a][i].task = created'[a][LinkOf[view'[a][i].source]].task
               \/ AtEvent(a, i)'
      BY <2>4, <3>1, <3>2 DEF AtEvent
    <3>5. ~Current(a)'.synced /\ ~MadeThisRun(a, extractLink(Current(a)))'
      BY <2>2, <2>3, <2>7, <3>1 DEF MadeThisRun, extractLink
    <3>6. QED
      BY <3>1, <3>4, <3>5 DEF HoldsTasks, MadeThisRun, extractLink
  <2>9. QED
    BY <1>8, <2>1, <2>5, <2>6, <2>8, HoldKept
<1>12. CASE ApplyEvent(a)
  <2>1. PICK new \in Nat :
          /\ new = Len(yandex') /\ new # 0
          /\ \A k \in DOMAIN yandex : yandex'[k] = yandex[k]
          /\ \A k \in DOMAIN yandex' \ DOMAIN yandex : k = new
          /\ yandex'[new].kind = "event"
    BY <1>1, <1>2, <1>12, EntryAdded DEF ApplyEvent
  <2> DEFINE it == [Current(a) EXCEPT !.event = new, !.synced = TRUE]
             l == extractLink(Current(a))
  <2>2. /\ it \in Item /\ it.source = Current(a).source /\ it.task = Current(a).task
        /\ it.synced = TRUE
    BY <1>2, <2>1 DEF Item
  <2>3. /\ Edit(a, it) /\ pc[a] = "event" /\ pc'[a] = "items" /\ dirty'[a] = TRUE
        /\ created' = [created EXCEPT ![a][l] = [task |-> Current(a).task, event |-> new]]
    BY <1>1, <1>12, <2>1 DEF ApplyEvent, Goto, TypeInv, TypeOK
  <2>4. /\ ~Current(a).synced /\ ~MadeThisRun(a, l) /\ ~pending[at[a]].synced
    BY <1>2, <1>3, <1>5, <1>7, <2>3 DEF HoldsTasks, Current
  <2>6. /\ created'[a][l] = [task |-> it.task, event |-> new]
        /\ \A m \in Links : m # l => created'[a][m] = created[a][m]
        /\ created'[a][l] # NoUids
    BY <1>1, <1>5, <2>1, <2>2, <2>3 DEF TypeInv, TypeOK, NoUids
  <2>7. \A i \in DOMAIN pending : extractLink(view[a][i]) \in Links
    BY <1>1, <1>5, ElementOfSeq, LenProperties, ItemFields, LinkOfType
       DEF TypeInv, TypeOK, extractLink
  <2>8. extractLink(it) = l
    BY <2>2 DEF extractLink
  <2> HIDE DEF it, l
  <2>9. /\ \A i \in DOMAIN view[a] : view'[a][i] = IF i = at[a] THEN it ELSE view[a][i]
        /\ \A k \in DOMAIN yandex : Held(k) => Held(k)'
    BY <1>2, <2>2, <2>3, HoldEdit
  <2>10. ASSUME NEW i \in DOMAIN pending
         PROVE /\ pending[i].synced => view'[a][i].task = pending[i].task
               /\ view'[a][i].synced \/ view'[a][i].task = 0
               /\ \/ view'[a][i].task = pending[i].task
                  \/ /\ created'[a][extractLink(view'[a][i])] # NoUids
                     /\ view'[a][i].task = created'[a][extractLink(view'[a][i])].task
    <3>1. CASE i = at[a]
      BY <1>2, <2>2, <2>4, <2>6, <2>8, <2>9, <3>1
    <3>2. CASE i # at[a]
      <4>1. /\ pending[i].synced => view[a][i].task = pending[i].task
            /\ view[a][i].synced \/ view[a][i].task = 0
            /\ \/ view[a][i].task = pending[i].task
               \/ /\ MadeThisRun(a, extractLink(view[a][i]))
                  /\ view[a][i].task = created[a][extractLink(view[a][i])].task
        BY <1>3, <3>2 DEF HoldsTasks, AtEvent
      <4>2. view'[a][i] = view[a][i]
        BY <1>5, <2>9, <3>2
      <4>3. MadeThisRun(a, extractLink(view[a][i])) => extractLink(view[a][i]) # l
        BY <2>4
      <4>4. QED
        BY <2>6, <2>7, <4>1, <4>2, <4>3 DEF MadeThisRun
    <3>3. QED
      BY <3>1, <3>2
  <2>11. HoldsTasks(a)'
    BY <1>2, <2>3, <2>10 DEF HoldsTasks, MadeThisRun, extractLink
  <2>12. QED
    BY <1>8, <2>1, <2>9, <2>11, HoldKept
<1>13. QED
  BY <1>9, <1>10, <1>11, <1>12 DEF Edits

\* The one task of a link that is lost if the run ends here: the one it made
\* for the link, the one it is about to pair with an event, or the one the
\* failing call creates.
Lost(a, l) == IF MadeThisRun(a, l) THEN created[a][l].task
              ELSE IF pc[a] = "event" THEN Current(a).task
              ELSE Len(yandex) + 1

LosesOne(a) == \A l \in Links : Orphans(l)' \subseteq Orphans(l) \cup {Lost(a, l)}

\* An applier that ends without saving its copy, in a call of yandex.sh or not.
LEMMA TaskAbort ==
  ASSUME TypeInv, RecordInv, SerialInv, TaskInv, NEW a \in Appliers,
         Running(a), Exit(a), UNCHANGED pending,
         UNCHANGED yandex \/ (WantsTask(a) /\ Creates(a, "task"))
                          \/ (pc[a] = "event" /\ Creates(a, "event"))
  PROVE  LosesOne(a)
<1>1. a \in Procs /\ Works(a) /\ HoldsTasks(a)
  BY DEF Procs, SerialInv, Continues, TaskInv, Carries
<1>2. \A q \in Appliers : q # a => view'[q] = view[q]
  BY <1>1, ExitForgets DEF Procs
<1> SUFFICES ASSUME NEW l \in Links, NEW k \in Orphans(l)', k \notin Orphans(l)
             PROVE  k = Lost(a, l)
  BY DEF LosesOne
<1>3. /\ k \in DOMAIN yandex' /\ yandex'[k].kind = "task" /\ yandex'[k].link = l
      /\ ~Refers(pending, k) /\ \A q \in Appliers : ~Refers(view'[q], k)
  BY DEF Orphans, Refers
<1>4. CASE k \in DOMAIN yandex /\ yandex'[k] = yandex[k]
  <2>1. ~(k \in DOMAIN yandex /\ yandex[k] = [kind |-> "task", link |-> l]) \/ Held(k)
    BY OrphansAre DEF Filed
  <2>2. Held(k)
    BY <1>4, <2>1 DEF Orphans
  <2>3. Refers(view[a], k)
    BY <1>2, <1>3, <2>2 DEF Held
  <2>4. PICK i \in DOMAIN pending : view[a][i].task = k
    BY <1>1, <2>3 DEF Refers, Works
  <2>5. pending[i].task # k
    BY <1>3 DEF Refers
  <2>6. CASE AtEvent(a, i)
    <3>1. Current(a).task = k /\ pc[a] = "event"
      BY <2>4, <2>6 DEF AtEvent, Current
    <3>2. yandex[k].link = extractLink(Current(a))
      <4>1. Filed(k, "task", extractLink(Current(a)))
        BY <1>1, <3>1 DEF RecordInv, MemoryOK
      <4>2. QED
        BY <4>1 DEF Filed
    <3>3. ~MadeThisRun(a, l)
      BY <1>1, <1>3, <1>4, <3>1, <3>2 DEF HoldsTasks
    <3>4. QED
      BY <3>1, <3>3 DEF Lost
  <2>7. CASE ~AtEvent(a, i)
    <3> DEFINE m == extractLink(view[a][i])
    <3>1. MadeThisRun(a, m) /\ k = created[a][m].task
      BY <1>1, <2>4, <2>5, <2>7 DEF HoldsTasks
    <3>2. m \in Links
      BY <1>1, ElementOfSeq, LenProperties, ItemFields, LinkOfType
         DEF TypeInv, TypeOK, Works, extractLink
    <3> HIDE DEF m
    <3>3. yandex[k].link = m
      <4>1. Filed(k, "task", m)
        BY <1>1, <3>1, <3>2 DEF RecordInv, MemoryOK, MadeThisRun
      <4>2. QED
        BY <4>1 DEF Filed
    <3>4. m = l
      BY <1>3, <1>4, <3>3
    <3>5. QED
      BY <3>1, <3>4 DEF Lost
  <2>8. QED
    BY <2>6, <2>7
<1>5. CASE ~(k \in DOMAIN yandex /\ yandex'[k] = yandex[k])
  <2>1. CASE UNCHANGED yandex
    BY <1>3, <1>5, <2>1
  <2>2. CASE WantsTask(a) /\ Creates(a, "task")
    <3>1. at[a] \in DOMAIN view[a] /\ pc[a] = "items" /\ ~MadeThisRun(a, extractLink(Current(a)))
      BY <2>2 DEF WantsTask, AtItem
    <3>2. k = Len(yandex) + 1 /\ l = extractLink(Current(a))
      BY <1>1, <1>3, <1>5, <2>2, <3>1, EntryAdded
    <3>3. QED
      BY <3>1, <3>2 DEF Lost
  <2>3. CASE pc[a] = "event" /\ Creates(a, "event")
    <3>1. at[a] \in DOMAIN view[a]
      BY <2>3 DEF TypeInv
    <3>2. yandex'[k].kind = "event"
      BY <1>1, <1>5, <1>3, <2>3, <3>1, EntryAdded
    <3>3. QED
      BY <1>3, <3>2
  <2>4. QED
    BY <2>1, <2>2, <2>3
<1>6. QED
  BY <1>4, <1>5

LEMMA TaskApply ==
  ASSUME OneAtATime, TypeInv, RecordInv, SerialInv, TaskInv, NEW a \in Appliers, Apply(a)
  PROVE  /\ TaskInv'
         /\ \/ KeepsHold /\ aborts' = aborts
            \/ LosesOne(a) /\ aborts' = aborts + 1
<1>1. a \in Procs /\ a \notin Bridges /\ a \notin Setters
  BY ProcsDisjoint DEF Procs
<1>2. Running(a) \/ MayStart
  BY DEF Apply, ApplyLoad, ApplyReadDenylist, ApplySkip, ApplyReject, ApplyDedup,
     ApplyTask, ApplyEvent, YandexFails, ApplySaveDenylist, ApplySavePending,
     AtItem, WantsTask, Running
<1>3. \A q \in Procs : q # a => ~Running(q)
  BY <1>1, <1>2, Alone
<1>4. Running(a) => Works(a) /\ HoldsTasks(a)
  BY <1>1 DEF SerialInv, Continues, TaskInv, Carries
<1>5. CASE ApplyLoad(a)
  <2>1. /\ view'[a] = pending /\ pc'[a] = "denylist" /\ UNCHANGED <<pending, yandex, aborts>>
        /\ \A q \in Procs : q # a => pc'[q] = pc[q] /\ view'[q] = view[q]
        /\ ~Running(a)
    BY <1>1, <1>5 DEF ApplyLoad, Goto, files, Running, TypeInv, TypeOK
  <2>2. HoldsTasks(a)'
    BY <2>1 DEF HoldsTasks, TaskInv, SyncedOrNone
  <2>3. Carries(a)' /\ Running(a)'
    BY <1>1, <2>1, <2>2 DEF Carries, Running
  <2>4. DOMAIN view[a] = {}
    BY <2>1, EmptySeq, LenProperties DEF TaskInv
  <2>5. \A q \in Appliers, k \in DOMAIN yandex : Refers(view[q], k) => Refers(view'[q], k)
    BY <2>1, <2>4 DEF Refers, Procs
  <2>6. KeepsHold
    BY <2>1, <2>5, HoldSame
  <2>7. QED
    BY <1>1, <1>3, <2>1, <2>3, <2>6, TaskWork
<1>6. CASE ApplyReadDenylist(a) \/ ApplySkip(a)
  <2>1. /\ pc[a] \in {"denylist", "items"} /\ pc'[a] = "items"
        /\ pc[a] = "items" => dirty'[a] = dirty[a]
        /\ UNCHANGED <<pending, yandex, view, created, aborts>>
        /\ \A q \in Procs : q # a => pc'[q] = pc[q]
    BY <1>1, <1>6 DEF ApplyReadDenylist, ApplySkip, AtItem, Goto, files, TypeInv, TypeOK
  <2>2. Works(a) /\ HoldsTasks(a)
    BY <1>4, <2>1 DEF Running
  <2>3. /\ \A i \in DOMAIN pending : ~AtEvent(a, i)
        /\ pc[a] = "denylist" => view[a] = pending
    BY <2>1, <2>2 DEF AtEvent, HoldsTasks
  <2>4. HoldsTasks(a)'
    BY <2>1, <2>2, <2>3 DEF HoldsTasks, MadeThisRun, extractLink
  <2>5. Carries(a)' /\ Running(a)'
    BY <1>1, <2>1, <2>4 DEF Carries, Running
  <2>6. KeepsHold
    BY <2>1, HoldSame
  <2>7. QED
    BY <1>1, <1>3, <2>1, <2>5, <2>6, TaskWork
<1>7. CASE Edits(a)
  <2>1. aborts' = aborts
    BY <1>7, EditSteps DEF Edits, ApplyReject, ApplyDedup, ApplyTask, ApplyEvent
  <2>2. QED
    BY <1>7, <2>1, TaskEdit
<1>8. CASE YandexFails(a)
  <2>1. /\ Running(a) /\ Exit(a) /\ UNCHANGED pending /\ aborts' = aborts + 1
        /\ \/ UNCHANGED yandex \/ (WantsTask(a) /\ Creates(a, "task"))
           \/ (pc[a] = "event" /\ Creates(a, "event"))
    BY <1>8 DEF YandexFails, WantsTask, AtItem, Running, files
  <2>2. SyncedOrNone'
    BY <2>1 DEF TaskInv, SyncedOrNone
  <2>3. QED
    BY <1>1, <2>1, <2>2, TaskExit, TaskAbort
<1>9. CASE ApplySaveDenylist(a)
  <2>1. /\ pc[a] = "items" /\ Running(a) /\ UNCHANGED <<pending, yandex, aborts>>
        /\ Works(a) /\ HoldsTasks(a)
    BY <1>4, <1>9 DEF ApplySaveDenylist, Running
  <2>2. CASE Exit(a) /\ ~dirty[a]
    <3>1. SyncedOrNone'
      BY <2>1 DEF TaskInv, SyncedOrNone
    <3>2. view[a] = pending /\ \A q \in Appliers : q # a => view'[q] = view[q]
      BY <1>1, <2>1, <2>2, ExitForgets DEF HoldsTasks, Procs
    <3>3. KeepsHold
      BY <2>1, <3>2, HoldSame
    <3>4. QED
      BY <1>1, <2>1, <2>2, <3>1, <3>3, TaskExit
  <2>3. CASE dirty[a] /\ Goto(a, "write") /\ UNCHANGED <<view, deny, at, created, dirty, ruling>>
    <3>1. pc'[a] = "write" /\ \A q \in Procs : q # a => pc'[q] = pc[q]
      BY <1>1, <2>3 DEF Goto, TypeInv, TypeOK
    <3>2. \A i \in DOMAIN pending : ~AtEvent(a, i)
      BY <2>1 DEF AtEvent
    <3>3. HoldsTasks(a)'
      BY <2>1, <2>3, <3>1, <3>2 DEF HoldsTasks, MadeThisRun, extractLink
    <3>4. Carries(a)' /\ Running(a)'
      BY <1>1, <3>1, <3>3 DEF Carries, Running
    <3>5. KeepsHold
      BY <2>1, <2>3, HoldSame
    <3>6. QED
      BY <1>1, <1>3, <2>1, <2>3, <3>1, <3>4, <3>5, TaskWork
  <2>4. QED
    BY <1>9, <2>2, <2>3 DEF ApplySaveDenylist
<1>10. CASE ApplySavePending(a)
  <2>1. /\ pending' = view[a] /\ Running(a) /\ Exit(a) /\ UNCHANGED <<yandex, aborts>>
        /\ Works(a) /\ HoldsTasks(a) /\ pc[a] = "write"
    BY <1>4, <1>10 DEF ApplySavePending, Running
  <2>2. \A i \in DOMAIN pending : ~AtEvent(a, i)
    BY <2>1 DEF AtEvent
  <2>3. SyncedOrNone'
    BY <2>1, <2>2 DEF Works, HoldsTasks, SyncedOrNone
  <2>4. 0 \notin DOMAIN yandex
    BY LenProperties DEF TypeInv, TypeOK
  <2>5. \A k \in DOMAIN yandex : Refers(pending, k) => Refers(pending', k)
    BY <2>1, <2>4 DEF Works, HoldsTasks, TaskInv, SyncedOrNone, Refers
  <2>6. \A q \in Appliers : q # a => view'[q] = view[q]
    BY <1>1, <2>1, ExitForgets DEF Procs
  <2>7. KeepsHold
    BY <2>1, <2>5, <2>6, HoldSame
  <2>8. QED
    BY <1>1, <2>1, <2>3, <2>7, TaskExit
<1>11. QED
  BY <1>5, <1>6, <1>7, <1>8, <1>9, <1>10 DEF Apply, Edits

LEMMA TaskStep ==
  ASSUME OneAtATime, TypeInv, RecordInv, SerialInv, TaskInv, [Next]_vars
  PROVE  /\ TaskInv'
         /\ \/ KeepsHold /\ aborts' = aborts
            \/ (\E a \in Appliers : LosesOne(a)) /\ aborts' = aborts + 1
            \/ KeepsHold /\ aborts' = aborts + 1
<1>1. ASSUME UNCHANGED <<files, yandex, local, aborts>>
      PROVE  TaskInv' /\ KeepsHold /\ aborts' = aborts
  <2>1. TaskInv'
    <3>1. ASSUME NEW a \in Appliers, HoldsTasks(a) PROVE HoldsTasks(a)'
      <4>1. /\ pending' = pending /\ view' = view /\ pc' = pc /\ at' = at
            /\ created' = created /\ dirty' = dirty
        BY <1>1 DEF files, local
      <4>2. Current(a)' = Current(a)
        BY <4>1 DEF Current
      <4>3. \A i : AtEvent(a, i)' = AtEvent(a, i)
        BY <4>1 DEF AtEvent
      <4>4. \A i \in DOMAIN pending' :
              /\ pending'[i].synced => view'[a][i].task = pending'[i].task
              /\ view'[a][i].synced \/ view'[a][i].task = 0 \/ AtEvent(a, i)'
              /\ \/ view'[a][i].task = pending'[i].task
                 \/ /\ MadeThisRun(a, extractLink(view[a][i]))'
                    /\ view'[a][i].task = created'[a][extractLink(view'[a][i])].task
                 \/ AtEvent(a, i)'
        BY <3>1, <4>1, <4>3 DEF HoldsTasks, MadeThisRun, extractLink
      <4>5. /\ pc'[a] = "event" => ~Current(a)'.synced /\ ~MadeThisRun(a, extractLink(Current(a)))'
            /\ pc'[a] = "denylist" \/ (pc'[a] = "items" /\ ~dirty'[a]) => view'[a] = pending'
        BY <3>1, <4>1, <4>2 DEF HoldsTasks, MadeThisRun, extractLink
      <4>6. QED
        BY <4>4, <4>5 DEF HoldsTasks
    <3>2. \A p \in Procs : Carries(p) => Carries(p)'
      BY <1>1, <3>1 DEF Carries, files, local
    <3>3. SyncedOrNone' /\ \A p \in Procs : Running(p)' => Running(p)
      BY <1>1 DEF TaskInv, SyncedOrNone, Running, files, local
    <3>4. \A a \in Appliers : Running(a)' = Running(a) /\ view'[a] = view[a]
      BY <1>1 DEF Running, local
    <3>5. QED
      BY <3>2, <3>3, <3>4 DEF TaskInv
  <2>2. KeepsHold
    BY <1>1, HoldSame DEF files, local
  <2>3. QED
    BY <1>1, <2>1, <2>2
<1>2. CASE \E u \in Urls : Scan(u)
  BY <1>1, <1>2 DEF Scan
<1>3. ASSUME NEW p \in Procs, Crash(p)
      PROVE  /\ TaskInv'
             /\ KeepsHold \/ \E a \in Appliers : LosesOne(a)
             /\ aborts' = aborts + 1
  <2>1. /\ Running(p) /\ Exit(p) /\ UNCHANGED <<pending, yandex>>
        /\ aborts' = aborts + 1
    BY <1>3 DEF Crash, Running, files
  <2>2. SyncedOrNone'
    BY <2>1 DEF TaskInv, SyncedOrNone
  <2>3. CASE p \in Appliers
    BY <2>1, <2>2, <2>3, TaskExit, TaskAbort
  <2>4. CASE p \notin Appliers
    <3>1. \A a \in Appliers : view'[a] = view[a]
      BY <2>1, <2>4, ExitForgets DEF Procs
    <3>2. KeepsHold
      BY <2>1, <3>1, HoldSame
    <3>3. QED
      BY <2>1, <2>2, <3>2, TaskExit
  <2>5. QED
    BY <2>3, <2>4
<1>4. CASE UNCHANGED vars
  BY <1>1, <1>4 DEF vars
<1>5. QED
  BY <1>2, <1>3, <1>4, TaskBridge, TaskSet, TaskApply DEF Next

\* The orphans are finitely many, so losing one task adds one at most.
LEMMA OrphansCount ==
  ASSUME TypeInv, NEW l \in Links
  PROVE  IsFiniteSet(Orphans(l)) /\ Cardinality(Orphans(l)) \in Nat
<1>1. DOMAIN yandex = 1..Len(yandex) /\ Len(yandex) \in Nat
  BY LenProperties DEF TypeInv, TypeOK
<1>2. IsFiniteSet(DOMAIN yandex)
  BY <1>1, FS_Interval
<1>3. Orphans(l) \in SUBSET DOMAIN yandex
  BY DEF Orphans
<1>4. QED
  BY <1>2, <1>3, FS_Subset, FS_CardinalityType

LEMMA OneMore ==
  ASSUME NEW S, NEW T, NEW x, IsFiniteSet(S), T \subseteq S \cup {x}
  PROVE  Cardinality(T) <= Cardinality(S) + 1
<1>1. /\ IsFiniteSet(S \cup {x}) /\ Cardinality(S) \in Nat
      /\ Cardinality(S \cup {x}) \in {Cardinality(S), Cardinality(S) + 1}
  BY FS_AddElement, FS_CardinalityType
<1>2. IsFiniteSet(T) /\ Cardinality(T) <= Cardinality(S \cup {x})
  BY <1>1, FS_Subset
<1>3. Cardinality(T) \in Nat
  BY <1>2, FS_CardinalityType
<1>4. QED
  BY <1>1, <1>2, <1>3

LEMMA OrphanStep ==
  ASSUME OneAtATime, TypeInv, RecordInv, SerialInv, TaskInv, OrphansBounded, [Next]_vars
  PROVE  OrphansBounded'
<1>1. aborts \in Nat
  BY DEF TypeInv, TypeOK
<1> SUFFICES ASSUME NEW l \in Links PROVE Cardinality(Orphans(l)') <= aborts'
  BY DEF OrphansBounded
<1>2. /\ IsFiniteSet(Orphans(l)) /\ Cardinality(Orphans(l)) \in Nat
      /\ Cardinality(Orphans(l)) <= aborts
  BY OrphansCount DEF OrphansBounded
<1>3. ASSUME KeepsHold PROVE Cardinality(Orphans(l)') \in Nat /\ Cardinality(Orphans(l)') <= aborts
  <2>1. Orphans(l)' \in SUBSET Orphans(l)
    BY <1>3 DEF KeepsHold
  <2>2. IsFiniteSet(Orphans(l)') /\ Cardinality(Orphans(l)') <= Cardinality(Orphans(l))
    BY <1>2, <2>1, FS_Subset
  <2>3. Cardinality(Orphans(l)') \in Nat
    BY <2>2, FS_CardinalityType
  <2>4. QED
    BY <1>1, <1>2, <2>2, <2>3
<1>4. ASSUME NEW a \in Appliers, LosesOne(a) PROVE Cardinality(Orphans(l)') <= aborts + 1
  <2>1. Orphans(l)' \subseteq Orphans(l) \cup {Lost(a, l)}
    BY <1>4 DEF LosesOne
  <2>2. /\ Cardinality(Orphans(l)') <= Cardinality(Orphans(l)) + 1
        /\ Cardinality(Orphans(l)') \in Nat
    <3> DEFINE T == Orphans(l)'
               S == Orphans(l)
    <3>1. IsFiniteSet(S \cup {Lost(a, l)}) /\ T \in SUBSET (S \cup {Lost(a, l)})
      BY <1>2, <2>1, FS_AddElement
    <3> HIDE DEF T, S
    <3>2. IsFiniteSet(T)
      BY <3>1, FS_Subset
    <3>3. Cardinality(T) \in Nat
      BY <3>2, FS_CardinalityType
    <3>4. Cardinality(T) <= Cardinality(S) + 1
      BY <1>2, <3>1, OneMore DEF S
    <3>5. QED
      BY <3>3, <3>4 DEF T, S
  <2>3. QED
    BY <1>1, <1>2, <2>2
<1>5. QED
  BY <1>1, <1>3, <1>4, TaskStep

\* When runs do not overlap, a run of triage-apply that fails or dies leaves at
\* most one calendar task per link that no item refers to: the tasks that are
\* in its memory alone when it ends, and it creates one for a link only if it
\* has not created one in this run.
THEOREM OrphansStayFew == ASSUME OneAtATime PROVE Spec => []OrphansBounded
<1>1. Init => OrphansBounded
  <2> SUFFICES ASSUME Init, NEW l \in Links PROVE Cardinality(Orphans(l)) <= aborts
    BY DEF OrphansBounded
  <2>1. Orphans(l) = {}
    BY EmptySeq, LenProperties DEF Init, Orphans
  <2>2. QED
    BY <2>1, FS_EmptySet DEF Init
<1>2. TypeInv /\ RecordInv /\ SerialInv /\ TaskInv /\ [Next]_vars => TaskInv'
  BY TaskStep
<1>3. TypeInv /\ RecordInv /\ SerialInv /\ TaskInv /\ OrphansBounded /\ [Next]_vars
        => OrphansBounded'
  BY OrphanStep
<1>4. QED
  BY <1>1, <1>2, <1>3, TaskInit, TypeCorrect, RecordsCorrect, SerialCorrect, PTL DEF Spec
=============================================================================
