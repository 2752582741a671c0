---------------------------- MODULE TriageProofs ----------------------------
(* Theorems about Triage for every set of sources, links and programs.     *)
EXTENDS Triage, SequenceTheorems, FiniteSetTheorems, TLAPS

\* The applier is started by one nightly timer (cmd/hunter, runTriageSet), so two
\* of them never run at once unless by hand.  The theorems that need it name it.
OneApplier == \A a, b \in Appliers : a = b

-----------------------------------------------------------------------------
(* Lemmas about lists of items.                                            *)

LEMMA ItemFields ==
  ASSUME NEW it \in Item
  PROVE  /\ it.source \in Urls /\ it.verdict \in Verdicts \cup {NoVerdict}
         /\ it.reviewed \in BOOLEAN /\ it.marked \in BOOLEAN
         /\ it.synced \in BOOLEAN /\ it.task \in Nat /\ it.event \in Nat
  BY DEF Item

\* Replacing one item keeps the list a list, its length and the other items.
LEMMA EditList ==
  ASSUME NEW items \in Seq(Item), NEW i \in DOMAIN items, NEW it \in Item
  PROVE  /\ [items EXCEPT ![i] = it] \in Seq(Item)
         /\ Len([items EXCEPT ![i] = it]) = Len(items)
         /\ DOMAIN [items EXCEPT ![i] = it] = DOMAIN items
         /\ [items EXCEPT ![i] = it][i] = it
         /\ \A j \in DOMAIN items : j # i => [items EXCEPT ![i] = it][j] = items[j]
<1>1. i \in 1..Len(items) /\ DOMAIN items = 1..Len(items)
  BY LenProperties
<1>2. QED
  BY <1>1, ExceptSeq, LenProperties

\* An edit that keeps the source keeps the sources distinct.
LEMMA EditDistinct ==
  ASSUME NEW items \in Seq(Item), NEW i \in DOMAIN items, NEW it \in Item,
         it.source = items[i].source, Distinct(items)
  PROVE  Distinct([items EXCEPT ![i] = it])
  BY EditList DEF Distinct

LEMMA OrdersAreLists ==
  ASSUME NEW S, S \subseteq Urls, NEW s \in Orders(S)
  PROVE  /\ s \in Seq(S)
         /\ DOMAIN s = 1..Len(s)
         /\ \A i, j \in DOMAIN s : s[i] = s[j] => i = j
<1>1. Cardinality(S) \in Nat
  BY UrlsFinite, FS_Subset, FS_CardinalityType
<1>2. s \in [1..Cardinality(S) -> S]
  BY DEF Orders
<1>3. s \in Seq(S)
  BY <1>1, <1>2, SeqDef
<1>4. QED
  BY <1>3, LenProperties DEF Orders

LEMMA FreshIsItem ==
  ASSUME NEW u \in Urls
  PROVE  Fresh(u) \in Item
  BY DEF Fresh, Item

LEMMA FreshItemsAreItems ==
  ASSUME NEW S, S \subseteq Urls, NEW s \in Seq(S)
  PROVE  /\ FreshItems(s) \in Seq(Item)
         /\ Len(FreshItems(s)) = Len(s)
         /\ DOMAIN FreshItems(s) = 1..Len(s)
         /\ \A i \in 1..Len(s) : FreshItems(s)[i] = Fresh(s[i])
<1>1. Len(s) \in Nat /\ DOMAIN s = 1..Len(s) /\ \A i \in 1..Len(s) : s[i] \in Urls
  BY LenProperties, ElementOfSeq
<1>2. FreshItems(s) \in [1..Len(s) -> Item]
  BY <1>1, FreshIsItem DEF FreshItems
<1>3. FreshItems(s) \in Seq(Item)
  BY <1>1, <1>2, SeqDef
<1>4. QED
  BY <1>1, <1>2, <1>3, LenProperties DEF FreshItems

\* What a bridge appends is a list with the old items in their places,
\* followed by fresh items whose sources were not listed.
Extended(items, S, all) ==
  /\ all \in Seq(Item)
  /\ \A i \in DOMAIN items : i \in DOMAIN all /\ all[i] = items[i]
  /\ \A i \in DOMAIN all \ DOMAIN items :
        /\ all[i].source \in S /\ all[i].verdict = NoVerdict
        /\ all[i].marked = FALSE /\ all[i].synced = FALSE /\ all[i].task = 0
  /\ Distinct(items) => Distinct(all)

LEMMA AppendFresh ==
  ASSUME NEW items \in Seq(Item), NEW S, S \subseteq Urls,
         S \cap Sources(items) = {}, NEW s \in Orders(S)
  PROVE  Extended(items, S, items \o FreshItems(s))
<1> DEFINE all == items \o FreshItems(s)
<1> DEFINE new == FreshItems(s)
<1>1. /\ s \in Seq(S) /\ DOMAIN s = 1..Len(s) /\ Len(s) \in Nat
      /\ \A i, j \in 1..Len(s) : s[i] = s[j] => i = j
  BY OrdersAreLists, LenProperties
<1>2. new \in Seq(Item) /\ Len(new) = Len(s)
      /\ \A i \in 1..Len(s) : new[i] = Fresh(s[i])
  BY <1>1, FreshItemsAreItems
<1>3. Len(items) \in Nat /\ DOMAIN items = 1..Len(items)
  BY LenProperties
<1> HIDE DEF new
<1>4. /\ all \in Seq(Item)
      /\ Len(all) = Len(items) + Len(s)
      /\ \A i \in 1..(Len(items) + Len(s)) :
            all[i] = IF i <= Len(items) THEN items[i] ELSE new[i - Len(items)]
  <2>1. /\ items \o new \in Seq(Item)
        /\ Len(items \o new) = Len(items) + Len(new)
        /\ \A i \in 1..(Len(items) + Len(new)) :
              (items \o new)[i] = IF i <= Len(items) THEN items[i] ELSE new[i - Len(items)]
    BY <1>2, ConcatProperties, Zenon
  <2>2. all = items \o new
    BY DEF new
  <2>3. QED
    BY <2>1, <2>2, <1>2, Zenon
<1> HIDE DEF all
<1>5. DOMAIN all = 1..(Len(items) + Len(s))
  BY <1>4, LenProperties
<1>6. \A i \in DOMAIN items : all[i] = items[i]
  BY <1>1, <1>3, <1>4
<1>7. \A i \in DOMAIN all \ DOMAIN items :
         /\ i - Len(items) \in 1..Len(s)
         /\ all[i] = Fresh(s[i - Len(items)])
         /\ s[i - Len(items)] \in S
  <2> SUFFICES ASSUME NEW i \in DOMAIN all \ DOMAIN items
               PROVE  /\ i - Len(items) \in 1..Len(s)
                      /\ all[i] = Fresh(s[i - Len(items)])
                      /\ s[i - Len(items)] \in S
    OBVIOUS
  <2>1. i \in Nat /\ i > Len(items) /\ i <= Len(items) + Len(s)
    BY <1>1, <1>3, <1>5
  <2>2. i - Len(items) \in 1..Len(s)
    BY <1>1, <1>3, <2>1
  <2>3. all[i] = new[i - Len(items)]
    BY <1>1, <1>3, <1>4, <1>5, <2>1
  <2>4. QED
    BY <1>1, <1>2, <2>2, <2>3, ElementOfSeq
<1>8. Distinct(items) => Distinct(all)
  <2> SUFFICES ASSUME Distinct(items),
                      NEW i \in DOMAIN all, NEW j \in DOMAIN all,
                      all[i].source = all[j].source
               PROVE  i = j
    BY DEF Distinct
  <2>1. CASE i \in DOMAIN items /\ j \in DOMAIN items
    BY <2>1, <1>6 DEF Distinct
  <2>2. CASE i \notin DOMAIN items /\ j \notin DOMAIN items
    <3>1. s[i - Len(items)] = s[j - Len(items)]
      BY <2>2, <1>7 DEF Fresh
    <3>2. i - Len(items) = j - Len(items)
      BY <3>1, <2>2, <1>1, <1>7
    <3>3. QED
      BY <3>2, <1>3, <1>1, <1>5
  <2>3. ASSUME NEW m \in DOMAIN items, NEW n \in DOMAIN all \ DOMAIN items
        PROVE  all[m].source # all[n].source
    <3>1. all[m].source \in Sources(items)
      BY <1>6 DEF Sources
    <3>2. all[n].source \in S
      BY <1>7 DEF Fresh
    <3>3. QED
      BY <3>1, <3>2
  <2>4. QED
    BY <2>1, <2>2, <2>3
<1>9. \A i \in DOMAIN all \ DOMAIN items :
         /\ all[i].source \in S /\ all[i].verdict = NoVerdict
         /\ all[i].marked = FALSE /\ all[i].synced = FALSE /\ all[i].task = 0
  BY <1>7 DEF Fresh
<1>10. \A i \in DOMAIN items : i \in DOMAIN all
  BY <1>1, <1>3, <1>5
<1>11. Extended(items, S, all)
  BY <1>4, <1>6, <1>8, <1>9, <1>10 DEF Extended
<1>12. QED
  BY <1>11 DEF all

-----------------------------------------------------------------------------
(* Type correctness.  An applier between its two calendar calls is still   *)
(* at an item, and a setter about to write knows what it was asked to say. *)

TypeInv ==
  /\ TypeOK
  /\ \A a \in Appliers : pc[a] = "event" => at[a] \in DOMAIN view[a]
  /\ \A s \in Setters : pc[s] = "write" =>
        ruling[s] \in [source : Urls, verdict : Verdicts]

LEMMA ExitType ==
  ASSUME TypeInv, NEW p \in Procs, Exit(p)
  PROVE  /\ pc' \in [Procs -> {"idle", "denylist", "findings", "items", "event", "write"}]
         /\ view' \in [Procs -> Seq(Item)]
         /\ deny' \in [Procs -> SUBSET Urls]
         /\ at' \in [Procs -> Nat]
         /\ \A a \in Appliers : pc'[a] \in {"items", "event"} =>
               at'[a] \in 1..(Len(view'[a]) + 1)
         /\ created' \in [Procs -> [Links -> [task : Nat, event : Nat]]]
         /\ dirty' \in [Procs -> BOOLEAN]
         /\ ruling' \in [Procs -> {NoRuling} \cup [source : Urls, verdict : Verdicts]]
         /\ \A a \in Appliers : pc'[a] = "event" => at'[a] \in DOMAIN view'[a]
         /\ \A s \in Setters : pc'[s] = "write" =>
               ruling'[s] \in [source : Urls, verdict : Verdicts]
         /\ pending' \in Seq(Item) => since' \in [Procs -> SUBSET Urls]
<1>1. << >> \in Seq(Item) /\ Len(<< >>) = 0
  BY EmptySeq
<1>2. NoLinks \in [Links -> [task : Nat, event : Nat]]
  BY DEF NoLinks, NoUids
<1>3. ASSUME pending' \in Seq(Item)
      PROVE  since' \in [Procs -> SUBSET Urls]
  <2>1. \A i \in DOMAIN pending' : pending'[i].source \in Urls
    BY <1>3, ElementOfSeq, LenProperties, ItemFields
  <2>2. Changed(pending, pending') \subseteq Urls
    BY <2>1 DEF Changed
  <2>3. since' = [q \in Procs |-> IF q = p \/ pc[q] = "idle" THEN {}
                                 ELSE since[q] \cup Changed(pending, pending')]
    BY DEF Exit
  <2>4. QED
    BY <2>2, <2>3 DEF TypeInv, TypeOK
<1>4. QED
  BY <1>1, <1>2, <1>3 DEF Exit, Goto, TypeInv, TypeOK, Procs

\* The current item of an applier.
LEMMA CurrentIsItem ==
  ASSUME TypeInv, NEW a \in Procs, at[a] \in DOMAIN view[a]
  PROVE  /\ Current(a) \in Item
         /\ Current(a).source \in Urls
         /\ extractLink(Current(a)) \in Links
         /\ at[a] \in Nat /\ at[a] <= Len(view[a]) /\ Len(view[a]) \in Nat
<1>1. view[a] \in Seq(Item)
  BY DEF TypeInv, TypeOK
<1>2. DOMAIN view[a] = 1..Len(view[a]) /\ Len(view[a]) \in Nat
  BY <1>1, LenProperties
<1>3. Current(a) \in Item
  BY <1>1, <1>2, ElementOfSeq DEF Current
<1>4. QED
  BY <1>2, <1>3, ItemFields, LinkOfType DEF extractLink

\* Editing the current item keeps the copies lists of items.
LEMMA EditType ==
  ASSUME TypeInv, NEW a \in Procs, at[a] \in DOMAIN view[a],
         NEW it \in Item, Edit(a, it)
  PROVE  /\ view' \in [Procs -> Seq(Item)]
         /\ view'[a] = [view[a] EXCEPT ![at[a]] = it]
         /\ Len(view'[a]) = Len(view[a])
         /\ DOMAIN view'[a] = DOMAIN view[a]
         /\ view'[a][at[a]] = it
         /\ \A j \in DOMAIN view[a] : j # at[a] => view'[a][j] = view[a][j]
         /\ \A q \in Procs : q # a => view'[q] = view[q]
<1>1. view \in [Procs -> Seq(Item)] /\ view[a] \in Seq(Item)
  BY DEF TypeInv, TypeOK
<1>2. view' = [view EXCEPT ![a] = [view[a] EXCEPT ![at[a]] = it]]
  BY <1>1 DEF Edit
<1>3. [view[a] EXCEPT ![at[a]] = it] \in Seq(Item)
  BY <1>1, EditList
<1>4. view'[a] = [view[a] EXCEPT ![at[a]] = it] /\ \A q \in Procs : q # a => view'[q] = view[q]
  BY <1>1, <1>2
<1>5. QED
  BY <1>1, <1>2, <1>3, <1>4, EditList

LEMMA TypeInit == Init => TypeInv
<1> SUFFICES ASSUME Init
             PROVE  TypeInv
  OBVIOUS
<1>1. << >> \in Seq(Item) /\ << >> \in Seq(Entry) /\ Len(<< >>) = 0
  BY EmptySeq
<1>2. NoLinks \in [Links -> [task : Nat, event : Nat]]
  BY DEF NoLinks, NoUids
<1>3. QED
  BY <1>1, <1>2 DEF Init, TypeInv, TypeOK, Procs

LEMMA TypeScan ==
  ASSUME TypeInv, NEW u \in Urls, Scan(u)
  PROVE  TypeInv'
  BY DEF TypeInv, TypeOK, Scan, files, local, ghosts

LEMMA TypeBridge ==
  ASSUME TypeInv, NEW b \in Bridges, Bridge(b)
  PROVE  TypeInv'
<1>1. b \in Procs /\ b \notin Setters /\ b \notin Appliers
  BY ProcsDisjoint DEF Procs
<1>2. CASE BridgeLoad(b)
  BY <1>1, <1>2 DEF TypeInv, TypeOK, BridgeLoad, Goto, files, ghosts
<1>3. CASE BridgeReadDenylist(b)
  BY <1>1, <1>3 DEF TypeInv, TypeOK, BridgeReadDenylist, Goto, files, ghosts
<1>4. CASE BridgeNothingNew(b)
  <2>1. Exit(b) /\ pending' \in Seq(Item)
    BY <1>4 DEF TypeInv, TypeOK, BridgeNothingNew, files
  <2>2. QED
    BY <1>1, <1>4, <2>1, ExitType DEF TypeInv, TypeOK, BridgeNothingNew, files, ghosts
<1>5. CASE BridgeAppend(b)
  <2> DEFINE new == NewSources(view[b], deny[b], findings)
  <2>1. PICK s \in Orders(new) : view' = [view EXCEPT ![b] = @ \o FreshItems(s)]
    BY <1>5 DEF BridgeAppend
  <2>2. new \subseteq Urls /\ new \cap Sources(view[b]) = {}
    BY DEF NewSources, TypeInv, TypeOK
  <2>3. view[b] \in Seq(Item)
    BY <1>1 DEF TypeInv, TypeOK
  <2>4. view[b] \o FreshItems(s) \in Seq(Item)
    BY <2>2, <2>3, AppendFresh DEF Extended
  <2>5. /\ view' \in [Procs -> Seq(Item)]
        /\ \A q \in Procs : q # b => view'[q] = view[q]
    BY <1>1, <2>1, <2>4 DEF TypeInv, TypeOK
  <2>6. QED
    BY <1>1, <1>5, <2>5 DEF TypeInv, TypeOK, BridgeAppend, Goto, files, ghosts, Procs
<1>6. CASE BridgeWrite(b)
  <2>1. Exit(b) /\ pending' \in Seq(Item)
    BY <1>1, <1>6 DEF TypeInv, TypeOK, BridgeWrite
  <2>2. QED
    BY <1>1, <1>6, <2>1, ExitType DEF TypeInv, TypeOK, BridgeWrite, ghosts
<1>7. QED
  BY <1>2, <1>3, <1>4, <1>5, <1>6 DEF Bridge

LEMMA TypeSet ==
  ASSUME TypeInv, NEW s \in Setters, Set(s)
  PROVE  TypeInv'
<1>1. s \in Procs /\ s \notin Appliers
  BY ProcsDisjoint DEF Procs
<1>2. CASE SetLoad(s)
  <2>1. PICK i \in DOMAIN pending, v \in Verdicts :
          /\ view' = [view EXCEPT ![s] = [pending EXCEPT ![i] =
                        [@ EXCEPT !.verdict = v, !.reviewed = TRUE]]]
          /\ ruling' = [ruling EXCEPT ![s] = [source |-> pending[i].source,
                                              verdict |-> v]]
    BY <1>2 DEF SetLoad
  <2>2. pending \in Seq(Item) /\ pending[i] \in Item
    BY ElementOfSeq, LenProperties DEF TypeInv, TypeOK
  <2>3. [pending[i] EXCEPT !.verdict = v, !.reviewed = TRUE] \in Item
    BY <2>2 DEF Item
  <2>4. [pending EXCEPT ![i] = [pending[i] EXCEPT !.verdict = v, !.reviewed = TRUE]] \in Seq(Item)
    BY <2>2, <2>3, EditList
  <2>5. /\ view' \in [Procs -> Seq(Item)]
        /\ \A q \in Procs : q # s => view'[q] = view[q]
    BY <1>1, <2>1, <2>4 DEF TypeInv, TypeOK
  <2>6. [source |-> pending[i].source, verdict |-> v] \in [source : Urls, verdict : Verdicts]
    BY <2>2, ItemFields
  <2>7. /\ ruling' \in [Procs -> {NoRuling} \cup [source : Urls, verdict : Verdicts]]
        /\ ruling'[s] \in [source : Urls, verdict : Verdicts]
        /\ \A q \in Procs : q # s => ruling'[q] = ruling[q]
    BY <1>1, <2>1, <2>6 DEF TypeInv, TypeOK
  <2>8. QED
    BY <1>1, <1>2, <2>5, <2>7 DEF TypeInv, TypeOK, SetLoad, Goto, files, ghosts, Procs
<1>3. CASE SetWrite(s)
  <2>1. ruling[s] \in [source : Urls, verdict : Verdicts]
    BY <1>3 DEF TypeInv, SetWrite
  <2>2. said' \subseteq Urls \X Verdicts /\ last' \in [Urls -> Verdicts \cup {NoVerdict}]
    BY <1>3, <2>1 DEF TypeInv, TypeOK, SetWrite
  <2>3. Exit(s) /\ pending' \in Seq(Item)
    BY <1>1, <1>3 DEF TypeInv, TypeOK, SetWrite
  <2>4. QED
    BY <1>1, <1>3, <2>2, <2>3, ExitType DEF TypeInv, TypeOK, SetWrite
<1>4. QED
  BY <1>2, <1>3 DEF Set

\* The calendar grows by one entry, whose UID is its length.
LEMMA CreatesType ==
  ASSUME TypeInv, NEW a \in Procs, at[a] \in DOMAIN view[a],
         NEW kind \in {"task", "event"}, Creates(a, kind)
  PROVE  /\ yandex' \in Seq(Entry)
         /\ Len(yandex') = Len(yandex) + 1
         /\ Len(yandex) \in Nat /\ Len(yandex') \in Nat
         /\ DOMAIN yandex = 1..Len(yandex) /\ DOMAIN yandex' = 1..Len(yandex')
         /\ yandex'[Len(yandex')] = [kind |-> kind, link |-> extractLink(Current(a))]
         /\ \A k \in DOMAIN yandex : yandex'[k] = yandex[k]
<1>1. [kind |-> kind, link |-> extractLink(Current(a))] \in Entry
  BY CurrentIsItem DEF Entry
<1>2. yandex \in Seq(Entry)
  BY DEF TypeInv, TypeOK
<1>3. QED
  BY <1>1, <1>2, AppendProperties, LenProperties DEF Creates

\* An edit of the current item that may also move on, when everything else
\* keeps its type.
LEMMA EditTypeInv ==
  ASSUME TypeInv, NEW a \in Appliers, AtItem(a) \/ pc[a] = "event",
         NEW it \in Item, Edit(a, it),
         \/ pc' = [pc EXCEPT ![a] = "items"] /\ Advance(a)
         \/ pc' = [pc EXCEPT ![a] = "event"] /\ at' = at,
         deny' \in [Procs -> SUBSET Urls],
         created' \in [Procs -> [Links -> [task : Nat, event : Nat]]],
         dirty' \in [Procs -> BOOLEAN],
         yandex' \in Seq(Entry),
         UNCHANGED <<findings, files, ruling, ghosts, since, aborts>>
  PROVE  TypeInv'
<1>1. a \in Procs /\ a \notin Setters /\ at[a] \in DOMAIN view[a]
  BY ProcsDisjoint DEF Procs, AtItem, TypeInv
<1>2. /\ view' \in [Procs -> Seq(Item)]
      /\ Len(view'[a]) = Len(view[a])
      /\ DOMAIN view'[a] = DOMAIN view[a]
      /\ \A q \in Procs : q # a => view'[q] = view[q]
  BY <1>1, EditType
<1>3. at[a] \in 1..Len(view[a]) /\ Len(view[a]) \in Nat
  BY <1>1, LenProperties DEF TypeInv, TypeOK
<1>4. /\ \A q \in Procs : q # a => pc'[q] = pc[q] /\ at'[q] = at[q]
      /\ \/ pc'[a] = "items" /\ at'[a] = at[a] + 1
         \/ pc'[a] = "event" /\ at'[a] = at[a]
  BY <1>1 DEF TypeInv, TypeOK, Advance
<1>5. /\ \A b \in Appliers : pc'[b] \in {"items", "event"} =>
            at'[b] \in 1..(Len(view'[b]) + 1)
      /\ \A b \in Appliers : pc'[b] = "event" => at'[b] \in DOMAIN view'[b]
  <2> SUFFICES ASSUME NEW b \in Appliers
               PROVE  /\ pc'[b] \in {"items", "event"} => at'[b] \in 1..(Len(view'[b]) + 1)
                      /\ pc'[b] = "event" => at'[b] \in DOMAIN view'[b]
    OBVIOUS
  <2>1. b \in Procs
    BY DEF Procs
  <2>2. CASE b = a
    BY <2>2, <1>1, <1>2, <1>3, <1>4
  <2>3. CASE b # a
    BY <2>1, <2>3, <1>2, <1>4 DEF TypeInv, TypeOK
  <2>4. QED
    BY <2>2, <2>3
<1>6. /\ pc' \in [Procs -> {"idle", "denylist", "findings", "items", "event", "write"}]
      /\ at' \in [Procs -> Nat]
  <2>1. /\ pc \in [Procs -> {"idle", "denylist", "findings", "items", "event", "write"}]
        /\ at \in [Procs -> Nat] /\ at[a] + 1 \in Nat
    BY <1>1 DEF TypeInv, TypeOK
  <2>2. CASE pc' = [pc EXCEPT ![a] = "items"] /\ Advance(a)
    BY <2>1, <2>2 DEF Advance
  <2>3. CASE pc' = [pc EXCEPT ![a] = "event"] /\ at' = at
    BY <2>1, <2>3
  <2>4. QED
    BY <2>2, <2>3
<1>7. \A s \in Setters : pc'[s] = "write" =>
         ruling'[s] \in [source : Urls, verdict : Verdicts]
  BY <1>1, <1>4 DEF TypeInv, Procs
<1>8. /\ findings' \subseteq Urls /\ pending' \in Seq(Item) /\ rejected' \subseteq Urls
      /\ ruling' \in [Procs -> {NoRuling} \cup [source : Urls, verdict : Verdicts]]
      /\ said' \subseteq Urls \X Verdicts
      /\ last' \in [Urls -> Verdicts \cup {NoVerdict}]
      /\ since' \in [Procs -> SUBSET Urls]
      /\ aborts' \in Nat
  BY DEF TypeInv, TypeOK, files, ghosts
<1>9. QED
  BY <1>2, <1>5, <1>6, <1>7, <1>8 DEF TypeInv, TypeOK

LEMMA TypeApply ==
  ASSUME TypeInv, NEW a \in Appliers, Apply(a)
  PROVE  TypeInv'
<1>1. a \in Procs /\ a \notin Setters /\ a \notin Bridges
  BY ProcsDisjoint DEF Procs
<1>2. CASE ApplyLoad(a)
  BY <1>1, <1>2 DEF TypeInv, TypeOK, ApplyLoad, Goto, files, ghosts
<1>3. CASE ApplyReadDenylist(a)
  <2>1. Len(view[a]) \in Nat
    BY <1>1, LenProperties DEF TypeInv, TypeOK
  <2>2. /\ at' \in [Procs -> Nat]
        /\ pc' \in [Procs -> {"idle", "denylist", "findings", "items", "event", "write"}]
        /\ deny' \in [Procs -> SUBSET Urls]
    BY <1>1, <1>3 DEF TypeInv, TypeOK, ApplyReadDenylist, Goto
  <2>3. at'[a] = 1 /\ pc'[a] = "items"
    BY <1>1, <1>3 DEF TypeInv, TypeOK, ApplyReadDenylist, Goto
  <2>4. \A q \in Procs : q # a => pc'[q] = pc[q] /\ at'[q] = at[q]
    BY <1>1, <1>3 DEF TypeInv, TypeOK, ApplyReadDenylist, Goto
  <2>5. QED
    BY <1>1, <1>3, <2>1, <2>2, <2>3, <2>4
       DEF TypeInv, TypeOK, ApplyReadDenylist, files, ghosts, Procs
<1>4. CASE ApplySkip(a)
  <2>1. at[a] \in 1..Len(view[a]) /\ Len(view[a]) \in Nat
    BY <1>1, <1>4, LenProperties DEF ApplySkip, AtItem, TypeInv, TypeOK
  <2>2. at' \in [Procs -> Nat] /\ at'[a] = at[a] + 1 /\ pc[a] = "items"
        /\ \A q \in Procs : q # a => at'[q] = at[q]
    BY <1>1, <1>4 DEF TypeInv, TypeOK, ApplySkip, Advance, AtItem
  <2>3. \A b \in Appliers : pc[b] \in {"items", "event"} =>
           at'[b] \in 1..(Len(view[b]) + 1)
    <3>1. at'[a] \in 1..(Len(view[a]) + 1)
      BY <2>1, <2>2
    <3>2. QED
      BY <3>1, <2>2 DEF TypeInv, TypeOK, Procs
  <2>4. \A b \in Appliers : pc[b] = "event" => at'[b] \in DOMAIN view[b]
    BY <2>2 DEF TypeInv, Procs
  <2>5. QED
    BY <1>4, <2>2, <2>3, <2>4 DEF TypeInv, TypeOK, ApplySkip, files, ghosts
<1>5. CASE ApplyReject(a)
  <2>1. AtItem(a) /\ at[a] \in DOMAIN view[a] /\ pc[a] = "items"
    BY <1>5 DEF ApplyReject, AtItem
  <2>2. Current(a) \in Item /\ Current(a).source \in Urls
    BY <1>1, <2>1, CurrentIsItem
  <2>3. [Current(a) EXCEPT !.marked = TRUE] \in Item
    BY <2>2 DEF Item
  <2>4. /\ deny' \in [Procs -> SUBSET Urls] /\ dirty' \in [Procs -> BOOLEAN]
        /\ pc' = [pc EXCEPT ![a] = "items"]
    BY <1>1, <1>5, <2>1, <2>2 DEF ApplyReject, TypeInv, TypeOK
  <2>5. QED
    BY <1>5, <2>1, <2>3, <2>4, EditTypeInv DEF ApplyReject, TypeInv, TypeOK
<1>6. CASE ApplyDedup(a)
  <2> DEFINE uids == created[a][extractLink(Current(a))]
             it == [Current(a) EXCEPT !.task = uids.task, !.event = uids.event,
                                      !.synced = TRUE]
  <2>1. AtItem(a) /\ at[a] \in DOMAIN view[a] /\ pc[a] = "items"
    BY <1>6 DEF ApplyDedup, AtItem
  <2>2. Current(a) \in Item /\ extractLink(Current(a)) \in Links
    BY <1>1, <2>1, CurrentIsItem
  <2>3. uids \in [task : Nat, event : Nat]
    BY <1>1, <2>2 DEF TypeInv, TypeOK
  <2>4. it \in Item
    BY <2>2, <2>3 DEF Item
  <2>5. /\ dirty' \in [Procs -> BOOLEAN] /\ pc' = [pc EXCEPT ![a] = "items"]
        /\ Edit(a, it)
    BY <1>1, <1>6, <2>1 DEF ApplyDedup, TypeInv, TypeOK
  <2>6. QED
    BY <1>6, <2>1, <2>4, <2>5, EditTypeInv DEF ApplyDedup, TypeInv, TypeOK
<1>7. CASE ApplyTask(a)
  <2>1. AtItem(a) /\ at[a] \in DOMAIN view[a]
    BY <1>7 DEF ApplyTask, WantsTask, AtItem
  <2>2. Current(a) \in Item
    BY <1>1, <2>1, CurrentIsItem
  <2>3. yandex' \in Seq(Entry) /\ Len(yandex') \in Nat
    BY <1>1, <1>7, <2>1, CreatesType DEF ApplyTask
  <2>4. [Current(a) EXCEPT !.task = Len(yandex')] \in Item
    BY <2>2, <2>3 DEF Item
  <2>5. QED
    BY <1>7, <2>1, <2>3, <2>4, EditTypeInv DEF ApplyTask, Goto, TypeInv, TypeOK
<1>8. CASE ApplyEvent(a)
  <2>1. pc[a] = "event" /\ at[a] \in DOMAIN view[a]
    BY <1>8 DEF ApplyEvent, TypeInv
  <2>2. Current(a) \in Item /\ extractLink(Current(a)) \in Links
    BY <1>1, <2>1, CurrentIsItem
  <2>3. yandex' \in Seq(Entry) /\ Len(yandex') \in Nat
    BY <1>1, <1>8, <2>1, CreatesType DEF ApplyEvent
  <2>4. [Current(a) EXCEPT !.event = Len(yandex'), !.synced = TRUE] \in Item
    BY <2>2, <2>3 DEF Item
  <2>5. [task |-> Current(a).task, event |-> Len(yandex')] \in [task : Nat, event : Nat]
    BY <2>2, <2>3, ItemFields
  <2>6. created' \in [Procs -> [Links -> [task : Nat, event : Nat]]]
    BY <1>1, <1>8, <2>2, <2>5 DEF ApplyEvent, TypeInv, TypeOK
  <2>7. dirty' \in [Procs -> BOOLEAN]
    BY <1>1, <1>8 DEF ApplyEvent, TypeInv, TypeOK
  <2>8. QED
    BY <1>8, <2>1, <2>3, <2>4, <2>6, <2>7, EditTypeInv
       DEF ApplyEvent, Goto, TypeInv, TypeOK
<1>9. CASE YandexFails(a)
  <2>1. yandex' \in Seq(Entry)
    <3>1. at[a] \in DOMAIN view[a]
      BY <1>9 DEF YandexFails, WantsTask, AtItem, TypeInv
    <3>2. QED
      BY <1>1, <1>9, <3>1, CreatesType DEF YandexFails, TypeInv, TypeOK
  <2>2. aborts' \in Nat
    BY <1>9 DEF YandexFails, TypeInv, TypeOK
  <2>3. QED
    BY <1>1, <1>9, <2>1, <2>2, ExitType DEF YandexFails, TypeInv, TypeOK, files, ghosts
<1>10. CASE ApplySaveDenylist(a)
  <2>1. rejected' \subseteq Urls
    BY <1>1, <1>10 DEF ApplySaveDenylist, TypeInv, TypeOK
  <2>2. CASE Exit(a)
    BY <1>1, <1>10, <2>1, <2>2, ExitType
       DEF ApplySaveDenylist, TypeInv, TypeOK, ghosts
  <2>3. CASE /\ Goto(a, "write")
             /\ UNCHANGED <<view, deny, at, created, dirty, ruling, since>>
    BY <1>1, <1>10, <2>1, <2>3 DEF ApplySaveDenylist, Goto, TypeInv, TypeOK, ghosts, Procs
  <2>4. QED
    BY <1>10, <2>2, <2>3 DEF ApplySaveDenylist
<1>11. CASE ApplySavePending(a)
  <2>1. pending' \in Seq(Item)
    BY <1>1, <1>11 DEF ApplySavePending, TypeInv, TypeOK
  <2>2. QED
    BY <1>1, <1>11, <2>1, ExitType DEF ApplySavePending, TypeInv, TypeOK, ghosts
<1>12. QED
  BY <1>2, <1>3, <1>4, <1>5, <1>6, <1>7, <1>8, <1>9, <1>10, <1>11 DEF Apply

LEMMA TypeCrash ==
  ASSUME TypeInv, NEW p \in Procs, Crash(p)
  PROVE  TypeInv'
<1>1. Exit(p)
  BY DEF Crash
<1>2. /\ findings' \subseteq Urls /\ pending' \in Seq(Item) /\ rejected' \subseteq Urls
      /\ yandex' \in Seq(Entry)
      /\ said' \subseteq Urls \X Verdicts
      /\ last' \in [Urls -> Verdicts \cup {NoVerdict}]
      /\ aborts' \in Nat
  BY DEF Crash, TypeInv, TypeOK, files, ghosts
<1>3. QED
  BY <1>1, <1>2, ExitType DEF TypeInv, TypeOK

LEMMA TypeStep == TypeInv /\ [Next]_vars => TypeInv'
<1> SUFFICES ASSUME TypeInv, [Next]_vars
             PROVE  TypeInv'
  OBVIOUS
<1>1. CASE UNCHANGED vars
  BY <1>1 DEF vars, files, local, ghosts, TypeInv, TypeOK
<1>2. QED
  BY <1>1, TypeScan, TypeBridge, TypeSet, TypeApply, TypeCrash DEF Next

\* Every variable keeps its type, whatever interleaves with whatever.
THEOREM TypeCorrect == Spec => []TypeInv
  BY TypeInit, TypeStep, PTL DEF Spec

THEOREM TypesHold == Spec => []TypeOK
<1>1. TypeInv => TypeOK
  BY DEF TypeInv
<1>2. QED
  BY <1>1, TypeCorrect, PTL

-----------------------------------------------------------------------------
(* No source is ever listed twice: it holds of the file because it holds   *)
(* of every copy of it in the memory of a program.                         *)

DistinctInv == /\ Distinct(pending)
               /\ \A p \in Procs : Distinct(view[p])

\* An applier at work edits its current item, keeping source and verdict.
Edits(a) == ApplyReject(a) \/ ApplyDedup(a) \/ ApplyTask(a) \/ ApplyEvent(a)

LEMMA EditSteps ==
  ASSUME TypeInv, NEW a \in Appliers, Edits(a)
  PROVE  /\ a \in Procs /\ at[a] \in DOMAIN view[a] /\ pc[a] \in {"items", "event"}
         /\ pc'[a] \in {"items", "event"} /\ \A q \in Procs : q # a => pc'[q] = pc[q]
         /\ Current(a) \in Item
         /\ UNCHANGED <<findings, files, ruling, ghosts>>
         /\ \E it \in Item : /\ Edit(a, it)
                             /\ it.source = Current(a).source
                             /\ it.verdict = Current(a).verdict
                             /\ ApplyReject(a) \/ it.marked = Current(a).marked
                             /\ ApplyDedup(a) \/ ApplyEvent(a) \/ it.synced = Current(a).synced
<1>1. a \in Procs /\ at[a] \in DOMAIN view[a] /\ pc[a] \in {"items", "event"}
  BY DEF Procs, Edits, ApplyReject, ApplyDedup, ApplyTask, ApplyEvent, WantsTask,
         AtItem, TypeInv
<1>2. Current(a) \in Item /\ extractLink(Current(a)) \in Links
  BY <1>1, CurrentIsItem
<1>3. /\ UNCHANGED <<findings, files, ruling, ghosts>>
      /\ pc'[a] \in {"items", "event"} /\ \A q \in Procs : q # a => pc'[q] = pc[q]
  BY <1>1 DEF Edits, ApplyReject, ApplyDedup, ApplyTask, ApplyEvent, Goto, TypeInv, TypeOK
<1>4. CASE ApplyReject(a)
  <2>1. [Current(a) EXCEPT !.marked = TRUE] \in Item
    BY <1>2 DEF Item
  <2>2. QED
    BY <1>1, <1>2, <1>3, <1>4, <2>1 DEF ApplyReject, Item
<1>5. CASE ApplyDedup(a)
  <2> DEFINE uids == created[a][extractLink(Current(a))]
  <2>1. uids \in [task : Nat, event : Nat]
    BY <1>1, <1>2 DEF TypeInv, TypeOK
  <2>2. [Current(a) EXCEPT !.task = uids.task, !.event = uids.event,
                           !.synced = TRUE] \in Item
    BY <1>2, <2>1 DEF Item
  <2>3. QED
    BY <1>1, <1>2, <1>3, <1>5, <2>2 DEF ApplyDedup, Item
<1>6. CASE ApplyTask(a)
  <2>1. Len(yandex') \in Nat
    BY <1>1, <1>6, CreatesType DEF ApplyTask
  <2>2. [Current(a) EXCEPT !.task = Len(yandex')] \in Item
    BY <1>2, <2>1 DEF Item
  <2>3. QED
    BY <1>1, <1>2, <1>3, <1>6, <2>2 DEF ApplyTask, Item
<1>7. CASE ApplyEvent(a)
  <2>1. Len(yandex') \in Nat
    BY <1>1, <1>7, CreatesType DEF ApplyEvent
  <2>2. [Current(a) EXCEPT !.event = Len(yandex'), !.synced = TRUE] \in Item
    BY <1>2, <2>1 DEF Item
  <2>3. QED
    BY <1>1, <1>2, <1>3, <1>7, <2>2 DEF ApplyEvent, Item
<1>8. QED
  BY <1>4, <1>5, <1>6, <1>7 DEF Edits

\* A program that ends forgets everything; the others are not affected.
LEMMA ExitForgets ==
  ASSUME TypeInv, NEW p \in Procs, Exit(p)
  PROVE  /\ view'[p] = << >> /\ DOMAIN view'[p] = {} /\ pc'[p] = "idle"
         /\ created'[p] = NoLinks
         /\ \A q \in Procs : q # p =>
               /\ view'[q] = view[q] /\ pc'[q] = pc[q] /\ deny'[q] = deny[q]
               /\ at'[q] = at[q] /\ created'[q] = created[q]
               /\ ruling'[q] = ruling[q] /\ dirty'[q] = dirty[q]
  BY EmptySeq, LenProperties DEF Exit, Goto, TypeInv, TypeOK

LEMMA EmptyDistinct == Distinct(<< >>)
  BY EmptySeq, LenProperties DEF Distinct

LEMMA DistinctStep ==
  ASSUME TypeInv, DistinctInv, [Next]_vars
  PROVE  DistinctInv'
<1> USE DEF DistinctInv
\* The only steps that change a list keep the copy they change distinct.
<1>1. ASSUME NEW p \in Procs, Exit(p), pending' \in {pending, view[p]}
      PROVE  DistinctInv'
  BY <1>1, ExitForgets, EmptyDistinct
<1>2. ASSUME NEW p \in Procs, UNCHANGED pending,
             Distinct(view'[p]), \A q \in Procs : q # p => view'[q] = view[q]
      PROVE  DistinctInv'
  BY <1>2
<1>3. ASSUME NEW a \in Appliers, NEW it \in Item, AtItem(a) \/ pc[a] = "event",
             it.source = Current(a).source, Edit(a, it), UNCHANGED pending
      PROVE  DistinctInv'
  <2>1. a \in Procs /\ at[a] \in DOMAIN view[a] /\ view[a] \in Seq(Item)
    BY <1>3 DEF Procs, AtItem, TypeInv, TypeOK
  <2>2. /\ view'[a] = [view[a] EXCEPT ![at[a]] = it]
        /\ \A q \in Procs : q # a => view'[q] = view[q]
    BY <1>3, <2>1, EditType
  <2>3. Distinct(view'[a])
    BY <1>3, <2>1, <2>2, EditDistinct DEF Current
  <2>4. QED
    BY <1>2, <1>3, <2>1, <2>2, <2>3
<1>4. CASE \E u \in Urls : Scan(u)
  BY <1>4 DEF Scan, files, local
<1>5. ASSUME NEW b \in Bridges, Bridge(b)
      PROVE  DistinctInv'
  <2>1. b \in Procs
    BY DEF Procs
  <2>2. CASE BridgeLoad(b)
    BY <2>1, <2>2, <1>2 DEF BridgeLoad, files, TypeInv, TypeOK
  <2>3. CASE BridgeReadDenylist(b)
    BY <2>3 DEF BridgeReadDenylist, files
  <2>4. CASE BridgeNothingNew(b)
    BY <2>1, <2>4, <1>1 DEF BridgeNothingNew, files
  <2>5. CASE BridgeAppend(b)
    <3> DEFINE new == NewSources(view[b], deny[b], findings)
    <3>1. PICK s \in Orders(new) : view' = [view EXCEPT ![b] = @ \o FreshItems(s)]
      BY <2>5 DEF BridgeAppend
    <3>2. new \subseteq Urls /\ new \cap Sources(view[b]) = {}
      BY DEF NewSources, TypeInv, TypeOK
    <3>3. view[b] \in Seq(Item) /\ Distinct(view[b])
      BY <2>1 DEF TypeInv, TypeOK
    <3>4. Distinct(view[b] \o FreshItems(s))
      BY <3>2, <3>3, AppendFresh DEF Extended
    <3>5. /\ Distinct(view'[b])
          /\ \A q \in Procs : q # b => view'[q] = view[q]
      BY <2>1, <3>1, <3>4 DEF TypeInv, TypeOK
    <3>6. QED
      BY <2>1, <2>5, <3>5, <1>2 DEF BridgeAppend, files
  <2>6. CASE BridgeWrite(b)
    BY <2>1, <2>6, <1>1 DEF BridgeWrite
  <2>7. QED
    BY <1>5, <2>2, <2>3, <2>4, <2>5, <2>6 DEF Bridge
<1>6. ASSUME NEW s \in Setters, Set(s)
      PROVE  DistinctInv'
  <2>1. s \in Procs
    BY DEF Procs
  <2>2. CASE SetLoad(s)
    <3>1. PICK i \in DOMAIN pending, v \in Verdicts :
            view' = [view EXCEPT ![s] = [pending EXCEPT ![i] =
                       [@ EXCEPT !.verdict = v, !.reviewed = TRUE]]]
      BY <2>2 DEF SetLoad
    <3> DEFINE it == [pending[i] EXCEPT !.verdict = v, !.reviewed = TRUE]
    <3>2. pending \in Seq(Item) /\ pending[i] \in Item
      BY ElementOfSeq, LenProperties DEF TypeInv, TypeOK
    <3>3. it \in Item /\ it.source = pending[i].source
      BY <3>2 DEF Item
    <3>4. Distinct([pending EXCEPT ![i] = it])
      BY <3>2, <3>3, EditDistinct
    <3>5. /\ view'[s] = [pending EXCEPT ![i] = it]
          /\ \A q \in Procs : q # s => view'[q] = view[q]
      BY <2>1, <3>1 DEF TypeInv, TypeOK
    <3>6. QED
      BY <2>1, <2>2, <3>4, <3>5, <1>2 DEF SetLoad, files
  <2>3. CASE SetWrite(s)
    BY <2>1, <2>3, <1>1 DEF SetWrite
  <2>4. QED
    BY <1>6, <2>2, <2>3 DEF Set
<1>7. ASSUME NEW a \in Appliers, Apply(a)
      PROVE  DistinctInv'
  <2>1. a \in Procs
    BY DEF Procs
  <2>2. CASE ApplyLoad(a)
    BY <2>1, <2>2, <1>2 DEF ApplyLoad, files, TypeInv, TypeOK
  <2>3. CASE ApplyReadDenylist(a) \/ ApplySkip(a)
    BY <2>3 DEF ApplyReadDenylist, ApplySkip, files
  <2>4. CASE Edits(a)
    BY <2>4, <1>3, EditSteps DEF AtItem, files
  <2>5. CASE YandexFails(a)
    BY <2>1, <2>5, <1>1 DEF YandexFails, files
  <2>6. CASE ApplySaveDenylist(a)
    BY <2>1, <2>6, <1>1 DEF ApplySaveDenylist
  <2>7. CASE ApplySavePending(a)
    BY <2>1, <2>7, <1>1 DEF ApplySavePending
  <2>8. QED
    BY <1>7, <2>2, <2>3, <2>4, <2>5, <2>6, <2>7 DEF Apply, Edits
<1>8. ASSUME NEW p \in Procs, Crash(p)
      PROVE  DistinctInv'
  BY <1>8, <1>1 DEF Crash, files
<1>9. CASE UNCHANGED vars
  BY <1>9 DEF vars, files, local
<1>10. QED
  BY <1>4, <1>5, <1>6, <1>7, <1>8, <1>9 DEF Next

\* However many bridges, setters and appliers run at once and however they
\* interleave or die, pending_review.json never lists a source twice.
THEOREM SourcesStayUnique == Spec => []UniqueSources
<1>1. Init => DistinctInv
  BY EmptyDistinct DEF Init, DistinctInv
<1>2. TypeInv /\ DistinctInv /\ [Next]_vars => DistinctInv'
  BY DistinctStep
<1>3. DistinctInv => UniqueSources
  BY DEF DistinctInv, UniqueSources
<1>4. QED
  BY <1>1, <1>2, <1>3, TypeCorrect, PTL DEF Spec

-----------------------------------------------------------------------------
(* The denylist.  An item may be flagged rejected_marked in the memory of  *)
(* a running applier before rejected.json is saved; it is covered by the   *)
(* applier's own copy of the denylist until then, and that copy holds all  *)
(* of the file because no other program writes the file.                   *)

Covered(p, u) == \/ u \in rejected
                 \/ p \in Appliers /\ pc[p] \in {"items", "event"} /\ u \in deny[p]

DenyInv ==
  /\ MarkedIsDenied
  /\ \A p \in Procs : \A i \in DOMAIN view[p] :
        view[p][i].marked => Covered(p, view[p][i].source)
  /\ \A a \in Appliers : pc[a] \in {"items", "event"} => rejected \subseteq deny[a]

LEMMA DenyStep ==
  ASSUME OneApplier, TypeInv, DenyInv, [Next]_vars
  PROVE  DenyInv' /\ rejected \subseteq rejected'
<1> USE DEF DenyInv, MarkedIsDenied, Covered
<1>1. ASSUME NEW p \in Procs, Exit(p), pending' = pending \/ pending' = view[p],
             ~(p \in Appliers /\ pc[p] \in {"items", "event"}) \/ pending' = pending,
             rejected \subseteq rejected', 
             rejected' = rejected \/ p \in Appliers
      PROVE  DenyInv' /\ rejected \subseteq rejected'
  <2>1. MarkedIsDenied'
    BY <1>1
  <2>2. /\ DOMAIN view'[p] = {} /\ pc'[p] = "idle"
        /\ \A q \in Procs : q # p => /\ view'[q] = view[q] /\ pc'[q] = pc[q]
                                     /\ deny'[q] = deny[q]
    BY <1>1, ExitForgets
  <2>3. \A a \in Appliers : pc'[a] \in {"items", "event"} => rejected' \subseteq deny'[a]
    BY <1>1, <2>2 DEF OneApplier, Procs
  <2>4. QED
    BY <1>1, <2>1, <2>2, <2>3
<1>2. ASSUME NEW p \in Procs, UNCHANGED files, p \notin Appliers,
             \A i \in DOMAIN view'[p] :
                view'[p][i].marked => view'[p][i].source \in rejected,
             \A q \in Procs : q # p => /\ view'[q] = view[q] /\ pc'[q] = pc[q]
                                       /\ deny'[q] = deny[q]
      PROVE  DenyInv' /\ rejected \subseteq rejected'
  BY <1>2 DEF files, Procs
<1>3. CASE \E u \in Urls : Scan(u)
  BY <1>3 DEF Scan, files, local
<1>4. ASSUME NEW b \in Bridges, Bridge(b)
      PROVE  DenyInv' /\ rejected \subseteq rejected'
  <2>1. b \in Procs /\ b \notin Appliers
    BY ProcsDisjoint DEF Procs
  <2>2. CASE BridgeLoad(b)
    BY <2>1, <2>2, <1>2 DEF BridgeLoad, Goto, files, TypeInv, TypeOK
  <2>3. CASE BridgeReadDenylist(b)
    BY <2>1, <2>3, <1>2 DEF BridgeReadDenylist, Goto, files, TypeInv, TypeOK
  <2>4. CASE BridgeNothingNew(b)
    BY <2>1, <2>4, <1>1 DEF BridgeNothingNew, files
  <2>5. CASE BridgeAppend(b)
    <3> DEFINE new == NewSources(view[b], deny[b], findings)
    <3>1. PICK s \in Orders(new) : view' = [view EXCEPT ![b] = @ \o FreshItems(s)]
      BY <2>5 DEF BridgeAppend
    <3>2. new \subseteq Urls /\ new \cap Sources(view[b]) = {}
      BY DEF NewSources, TypeInv, TypeOK
    <3> HIDE DEF new
    <3>3. view[b] \in Seq(Item) /\ view'[b] = view[b] \o FreshItems(s)
      BY <2>1, <3>1 DEF TypeInv, TypeOK
    <3>4. Extended(view[b], new, view'[b])
      BY <3>2, <3>3, AppendFresh
    <3>5. \A i \in DOMAIN view'[b] :
             view'[b][i].marked => view'[b][i].source \in rejected
      BY <2>1, <3>4 DEF Extended
    <3>6. QED
      BY <2>1, <2>5, <3>1, <3>5, <1>2 DEF BridgeAppend, Goto, files, TypeInv, TypeOK
  <2>6. CASE BridgeWrite(b)
    BY <2>1, <2>6, <1>1 DEF BridgeWrite
  <2>7. QED
    BY <1>4, <2>2, <2>3, <2>4, <2>5, <2>6 DEF Bridge
<1>5. ASSUME NEW s \in Setters, Set(s)
      PROVE  DenyInv' /\ rejected \subseteq rejected'
  <2>1. s \in Procs /\ s \notin Appliers
    BY ProcsDisjoint DEF Procs
  <2>2. CASE SetLoad(s)
    <3>1. PICK i \in DOMAIN pending, v \in Verdicts :
            view' = [view EXCEPT ![s] = [pending EXCEPT ![i] =
                       [@ EXCEPT !.verdict = v, !.reviewed = TRUE]]]
      BY <2>2 DEF SetLoad
    <3> DEFINE it == [pending[i] EXCEPT !.verdict = v, !.reviewed = TRUE]
    <3>2. pending \in Seq(Item) /\ pending[i] \in Item
      BY ElementOfSeq, LenProperties DEF TypeInv, TypeOK
    <3>3. /\ it \in Item /\ it.source = pending[i].source
          /\ it.marked = pending[i].marked
      BY <3>2 DEF Item
    <3>4. view'[s] = [pending EXCEPT ![i] = it]
      BY <2>1, <3>1 DEF TypeInv, TypeOK
    <3>5. \A j \in DOMAIN view'[s] :
             view'[s][j].marked => view'[s][j].source \in rejected
      BY <3>2, <3>3, <3>4, EditList
    <3>6. QED
      BY <2>1, <2>2, <3>1, <3>5, <1>2 DEF SetLoad, Goto, files, TypeInv, TypeOK
  <2>3. CASE SetWrite(s)
    BY <2>1, <2>3, <1>1 DEF SetWrite
  <2>4. QED
    BY <1>5, <2>2, <2>3 DEF Set
<1>6. ASSUME NEW a \in Appliers, Apply(a)
      PROVE  DenyInv' /\ rejected \subseteq rejected'
  <2>1. a \in Procs
    BY DEF Procs
  <2>2. CASE ApplyLoad(a)
    <3>1. /\ view'[a] = pending /\ pc'[a] = "denylist"
          /\ \A q \in Procs : q # a => view'[q] = view[q] /\ pc'[q] = pc[q]
          /\ UNCHANGED <<pending, rejected, deny>>
      BY <2>1, <2>2 DEF ApplyLoad, Goto, files, TypeInv, TypeOK
    <3>2. QED
      BY <3>1 DEF Procs
  <2>3. CASE ApplyReadDenylist(a)
    <3>1. /\ deny'[a] = rejected /\ pc'[a] = "items" /\ pc[a] = "denylist"
          /\ \A q \in Procs : q # a => deny'[q] = deny[q] /\ pc'[q] = pc[q]
          /\ UNCHANGED <<pending, rejected, view>>
      BY <2>1, <2>3 DEF ApplyReadDenylist, Goto, files, TypeInv, TypeOK
    <3>2. QED
      BY <3>1 DEF Procs
  <2>4. CASE ApplySkip(a)
    BY <2>4 DEF ApplySkip, files
  <2>5. CASE Edits(a)
    <3>1. /\ at[a] \in DOMAIN view[a] /\ pc[a] \in {"items", "event"}
          /\ pc'[a] \in {"items", "event"} /\ \A q \in Procs : q # a => pc'[q] = pc[q]
          /\ UNCHANGED <<pending, rejected>>
      BY <2>5, EditSteps DEF files
    <3>2. PICK it \in Item : /\ Edit(a, it)
                             /\ it.source = Current(a).source
                             /\ ApplyReject(a) \/ it.marked = Current(a).marked
      BY <2>5, EditSteps
    <3>3. /\ DOMAIN view'[a] = DOMAIN view[a] /\ view'[a][at[a]] = it
          /\ \A j \in DOMAIN view[a] : j # at[a] => view'[a][j] = view[a][j]
          /\ \A q \in Procs : q # a => view'[q] = view[q]
      BY <2>1, <3>1, <3>2, EditType
    <3>4. /\ deny[a] \subseteq deny'[a]
          /\ ApplyReject(a) => it.source \in deny'[a]
          /\ \A q \in Procs : q # a => deny'[q] = deny[q]
      BY <2>1, <2>5, <3>2
         DEF Edits, ApplyReject, ApplyDedup, ApplyTask, ApplyEvent, TypeInv, TypeOK
    <3>5. \A i \in DOMAIN view'[a] :
             view'[a][i].marked => view'[a][i].source \in rejected \cup deny'[a]
      BY <2>1, <3>1, <3>2, <3>3, <3>4 DEF Current
    <3>6. QED
      BY <2>1, <3>1, <3>3, <3>4, <3>5 DEF Procs
  <2>6. CASE YandexFails(a)
    BY <2>1, <2>6, <1>1 DEF YandexFails, files
  <2>7. CASE ApplySaveDenylist(a)
    <3>1. pc[a] = "items" /\ rejected \subseteq rejected' /\ rejected' = deny[a]
          /\ UNCHANGED pending
      BY <2>7 DEF ApplySaveDenylist
    <3>2. CASE Exit(a)
      BY <2>1, <3>1, <3>2, <1>1
    <3>3. CASE /\ Goto(a, "write")
               /\ UNCHANGED <<view, deny, at, created, dirty, ruling>>
      <4>1. pc'[a] = "write" /\ \A q \in Procs : q # a => pc'[q] = pc[q]
        BY <2>1, <3>3 DEF Goto, TypeInv, TypeOK
      <4>2. \A p \in Procs : \A i \in DOMAIN view[p] :
               view[p][i].marked => view[p][i].source \in rejected'
        BY <3>1 DEF OneApplier
      <4>3. \A b \in Appliers : pc'[b] \notin {"items", "event"}
        BY <4>1 DEF OneApplier
      <4>4. QED
        BY <3>1, <3>3, <4>2, <4>3
    <3>4. QED
      BY <2>7, <3>2, <3>3 DEF ApplySaveDenylist
  <2>8. CASE ApplySavePending(a)
    BY <2>1, <2>8, <1>1 DEF ApplySavePending
  <2>9. QED
    BY <1>6, <2>2, <2>3, <2>4, <2>5, <2>6, <2>7, <2>8 DEF Apply, Edits
<1>7. ASSUME NEW p \in Procs, Crash(p)
      PROVE  DenyInv' /\ rejected \subseteq rejected'
  BY <1>7, <1>1 DEF Crash, files
<1>8. CASE UNCHANGED vars
  BY <1>8 DEF vars, files, local
<1>9. QED
  BY <1>3, <1>4, <1>5, <1>6, <1>7, <1>8 DEF Next

LEMMA DenyCorrect == ASSUME OneApplier PROVE Spec => []DenyInv
<1>1. Init => DenyInv
  BY EmptySeq, LenProperties DEF Init, DenyInv, MarkedIsDenied, Covered, Procs
<1>2. TypeInv /\ DenyInv /\ [Next]_vars => DenyInv'
  BY DenyStep
<1>3. QED
  BY <1>1, <1>2, TypeCorrect, PTL DEF Spec

\* With one applier and any number of bridges and setters overlapping it, a
\* flag rejected_marked in the file always has its source on the denylist.
THEOREM MarksAreCovered == ASSUME OneApplier PROVE Spec => []MarkedIsDenied
<1>1. DenyInv => MarkedIsDenied
  BY DEF DenyInv
<1>2. QED
  BY <1>1, DenyCorrect, PTL

\* Under the same assumption the denylist never loses a source.
THEOREM DenylistOnlyGrows == ASSUME OneApplier PROVE Spec => DenylistGrows
<1>1. TypeInv /\ DenyInv /\ [Next]_vars => [rejected \subseteq rejected']_rejected
  BY DenyStep
<1>2. QED
  BY <1>1, TypeCorrect, DenyCorrect, PTL DEF Spec, DenylistGrows

-----------------------------------------------------------------------------
(* What the files, the calendar and every copy in memory record.  A        *)
(* verdict was acknowledged to a reviewer, or it is the one a setter is    *)
(* about to write; an item flagged synced has both its entries; the UIDs a *)
(* running applier holds are of entries for the link it holds them for.    *)
(* The two properties need each other's copies, so they are one induction. *)

Told(it) == it.verdict # NoVerdict => <<it.source, it.verdict>> \in said
BackedIfSynced(it) == it.synced => Backed(it)
Filed(k, kind, l) == k \in DOMAIN yandex /\ yandex[k] = [kind |-> kind, link |-> l]

Rules(p, it) == /\ p \in Setters /\ pc[p] = "write"
                /\ ruling[p].source = it.source /\ ruling[p].verdict = it.verdict

MemoryOK(p) ==
  /\ \A i \in DOMAIN view[p] : /\ Told(view[p][i]) \/ Rules(p, view[p][i])
                               /\ BackedIfSynced(view[p][i])
  /\ \A u \in deny[p] : <<u, "rejected">> \in said
  /\ \A l \in Links : created[p][l] # NoUids =>
        Filed(created[p][l].task, "task", l) /\ Filed(created[p][l].event, "event", l)
  /\ p \in Appliers /\ pc[p] = "event" =>
        /\ Current(p).verdict = "backlog"
        /\ Filed(Current(p).task, "task", extractLink(Current(p)))

PendingOK == \A i \in DOMAIN pending : Told(pending[i]) /\ BackedIfSynced(pending[i])
DeniedOK == \A u \in rejected : <<u, "rejected">> \in said
AskedFor(l) == \E u \in Urls : LinkOf[u] = l /\ <<u, "backlog">> \in said
EntriesOK == \A k \in DOMAIN yandex : AskedFor(yandex[k].link)

RecordInv == /\ PendingOK /\ DeniedOK /\ EntriesOK
             /\ \A p \in Procs : MemoryOK(p)

\* Nothing said is unsaid, and no calendar entry is lost or changed.
Later == /\ said \subseteq said'
         /\ \A k \in DOMAIN yandex : k \in DOMAIN yandex' /\ yandex'[k] = yandex[k]

SameMemory(q) == /\ view'[q] = view[q] /\ pc'[q] = pc[q] /\ deny'[q] = deny[q]
                 /\ at'[q] = at[q] /\ created'[q] = created[q]
                 /\ ruling'[q] = ruling[q]

LEMMA ItemLater ==
  ASSUME NEW it, Later
  PROVE  /\ Told(it) => Told(it)'
         /\ BackedIfSynced(it) => BackedIfSynced(it)'
         /\ \A k, kind, l : Filed(k, kind, l) => Filed(k, kind, l)'
         /\ \A l : AskedFor(l) => AskedFor(l)'
  BY DEF Later, Told, BackedIfSynced, Backed, Filed, AskedFor

LEMMA MemoryKept ==
  ASSUME NEW q \in Procs, MemoryOK(q), SameMemory(q), Later
  PROVE  MemoryOK(q)'
<1>1. \A i \in DOMAIN view[q] : /\ Told(view[q][i])' \/ Rules(q, view[q][i])'
                                /\ BackedIfSynced(view[q][i])'
  BY ItemLater DEF MemoryOK, SameMemory, Rules, Told, BackedIfSynced, Backed, Later
<1>2. \A u \in deny[q] : <<u, "rejected">> \in said'
  BY DEF MemoryOK, Later
<1>3. \A l \in Links : created[q][l] # NoUids =>
        Filed(created[q][l].task, "task", l)' /\ Filed(created[q][l].event, "event", l)'
  BY DEF MemoryOK, Filed, Later, SameMemory
<1>4. q \in Appliers /\ pc[q] = "event" =>
        /\ Current(q).verdict = "backlog"
        /\ Filed(Current(q).task, "task", extractLink(Current(q)))'
  BY DEF MemoryOK, Filed, Later, SameMemory, Current, extractLink
<1>5. Current(q)' = Current(q)
  BY DEF Current, SameMemory
<1>6. QED
  BY <1>1, <1>2, <1>3, <1>4, <1>5
     DEF MemoryOK, SameMemory, Told, Rules, BackedIfSynced, Backed, Filed, extractLink

\* A step of one program: the others remember what they did.
LEMMA OneActs ==
  ASSUME RecordInv, NEW p \in Procs, Later, MemoryOK(p)',
         \A q \in Procs : q # p => SameMemory(q),
         PendingOK', DeniedOK', EntriesOK'
  PROVE  RecordInv'
<1>1. \A q \in Procs : q # p => MemoryOK(q)'
  BY MemoryKept DEF RecordInv
<1>2. QED
  BY <1>1 DEF RecordInv

\* A step that writes no file.
LEMMA FilesKept ==
  ASSUME RecordInv, Later, UNCHANGED files
  PROVE  PendingOK' /\ DeniedOK'
<1>1. \A i \in DOMAIN pending : Told(pending[i])' /\ BackedIfSynced(pending[i])'
  BY DEF RecordInv, PendingOK, Later, Told, BackedIfSynced, Backed, files
<1>2. QED
  BY <1>1 DEF RecordInv, PendingOK, DeniedOK, Later, files, Told, BackedIfSynced, Backed

\* A program that ends remembers nothing that could be wrong.
LEMMA ExitMemory ==
  ASSUME TypeInv, NEW p \in Procs, Exit(p)
  PROVE  MemoryOK(p)' /\ \A q \in Procs : q # p => SameMemory(q)
<1>1. /\ DOMAIN view'[p] = {} /\ created'[p] = NoLinks /\ pc'[p] = "idle"
      /\ \A q \in Procs : q # p => SameMemory(q)
  BY ExitForgets DEF SameMemory
<1>2. deny'[p] = {}
  BY DEF Exit, TypeInv, TypeOK
<1>3. \A l \in Links : created'[p][l] = NoUids
  BY <1>1 DEF NoLinks
<1>4. QED
  BY <1>1, <1>2, <1>3 DEF MemoryOK, NoUids

\* The calendar gets an entry for an item on the backlog.
LEMMA EntryAsked ==
  ASSUME TypeInv, RecordInv, NEW a \in Procs, at[a] \in DOMAIN view[a], a \notin Setters,
         NEW kind \in {"task", "event"}, Creates(a, kind),
         Current(a).verdict = "backlog", UNCHANGED said
  PROVE  /\ Later /\ EntriesOK'
         /\ Len(yandex') \in DOMAIN yandex'
         /\ yandex'[Len(yandex')] = [kind |-> kind, link |-> extractLink(Current(a))]
<1>1. /\ Current(a).source \in Urls /\ Current(a).verdict # NoVerdict
      /\ extractLink(Current(a)) = LinkOf[Current(a).source]
  BY CurrentIsItem DEF extractLink, NoVerdict
<1>2. <<Current(a).source, "backlog">> \in said
  BY <1>1 DEF RecordInv, MemoryOK, Current, Told, Rules
<1>3. AskedFor(extractLink(Current(a)))
  BY <1>1, <1>2 DEF AskedFor
<1>4. /\ Len(yandex') = Len(yandex) + 1 /\ Len(yandex) \in Nat
      /\ DOMAIN yandex = 1..Len(yandex) /\ DOMAIN yandex' = 1..Len(yandex')
      /\ yandex'[Len(yandex')] = [kind |-> kind, link |-> extractLink(Current(a))]
      /\ \A k \in DOMAIN yandex : yandex'[k] = yandex[k]
  BY CreatesType
<1>5. Later
  BY <1>4 DEF Later
<1>6. \A k \in DOMAIN yandex' : AskedFor(yandex'[k].link)
  <2> SUFFICES ASSUME NEW k \in DOMAIN yandex' PROVE AskedFor(yandex'[k].link)
    OBVIOUS
  <2>1. CASE k \in DOMAIN yandex
    BY <2>1, <1>4 DEF RecordInv, EntriesOK
  <2>2. CASE k \notin DOMAIN yandex
    <3>1. k = Len(yandex')
      BY <2>2, <1>4
    <3>2. yandex'[k].link = extractLink(Current(a))
      BY <3>1, <1>4
    <3>3. QED
      BY <3>2, <1>3
  <2>3. QED
    BY <2>1, <2>2
<1>7. EntriesOK'
  BY <1>6 DEF EntriesOK, AskedFor
<1>8. Len(yandex') \in DOMAIN yandex'
  BY <1>4
<1>9. QED
  BY <1>4, <1>5, <1>7, <1>8

LEMMA RecordInit == Init => RecordInv
<1> SUFFICES ASSUME Init PROVE RecordInv
  OBVIOUS
<1>1. DOMAIN << >> = {}
  BY EmptySeq, LenProperties
<1>2. PendingOK /\ DeniedOK /\ EntriesOK
  BY <1>1 DEF Init, PendingOK, DeniedOK, EntriesOK
<1>3. ASSUME NEW p \in Procs PROVE MemoryOK(p)
  <2>1. view[p] = << >> /\ deny[p] = {} /\ pc[p] = "idle" /\ created[p] = NoLinks
    BY DEF Init
  <2>2. QED
    BY <1>1, <2>1 DEF MemoryOK, NoLinks, NoUids
<1>4. QED
  BY <1>2, <1>3 DEF RecordInv

\* A bridge adds items that nobody has judged and that are in no calendar.
LEMMA RecordBridge ==
  ASSUME TypeInv, RecordInv, NEW b \in Bridges, Bridge(b)
  PROVE  RecordInv'
<1>1. b \in Procs /\ b \notin Appliers /\ b \notin Setters
  BY ProcsDisjoint DEF Procs
<1>2. Later /\ UNCHANGED <<said, yandex>>
  BY DEF Bridge, BridgeLoad, BridgeReadDenylist, BridgeNothingNew, BridgeAppend,
         BridgeWrite, ghosts, Later
<1>3. EntriesOK'
  BY <1>2 DEF EntriesOK, RecordInv, AskedFor
<1>4. MemoryOK(b)
  BY <1>1 DEF RecordInv
<1>5. ASSUME UNCHANGED <<files, deny, created>>,
             \A q \in Procs : q # b => SameMemory(q),
             \A i \in DOMAIN view'[b] : Told(view'[b][i]) /\ BackedIfSynced(view'[b][i])
      PROVE  RecordInv'
  <2>1. MemoryOK(b)'
    BY <1>1, <1>2, <1>4, <1>5 DEF MemoryOK, Told, BackedIfSynced, Backed, Filed
  <2>2. QED
    BY <1>1, <1>2, <1>3, <1>5, <2>1, FilesKept, OneActs
<1>6. CASE BridgeLoad(b)
  <2>1. /\ view'[b] = pending /\ UNCHANGED <<files, deny, created>>
        /\ \A q \in Procs : q # b => SameMemory(q)
    BY <1>1, <1>6 DEF BridgeLoad, Goto, SameMemory, TypeInv, TypeOK
  <2>2. QED
    BY <1>5, <2>1 DEF RecordInv, PendingOK
<1>7. CASE BridgeReadDenylist(b)
  <2>1. /\ deny'[b] = rejected /\ UNCHANGED <<files, view, created>>
        /\ \A q \in Procs : q # b => SameMemory(q)
    BY <1>1, <1>7 DEF BridgeReadDenylist, Goto, SameMemory, TypeInv, TypeOK
  <2>2. MemoryOK(b)'
    BY <1>1, <1>2, <1>4, <2>1
       DEF MemoryOK, Told, BackedIfSynced, Backed, Filed, Rules, RecordInv, DeniedOK
  <2>3. QED
    BY <1>1, <1>2, <1>3, <2>1, <2>2, FilesKept, OneActs
<1>8. CASE BridgeNothingNew(b)
  <2>1. Exit(b) /\ UNCHANGED files
    BY <1>8 DEF BridgeNothingNew
  <2>2. QED
    BY <1>1, <1>2, <1>3, <2>1, ExitMemory, FilesKept, OneActs
<1>9. CASE BridgeAppend(b)
  <2> DEFINE new == NewSources(view[b], deny[b], findings)
  <2>1. PICK s \in Orders(new) : view' = [view EXCEPT ![b] = @ \o FreshItems(s)]
    BY <1>9 DEF BridgeAppend
  <2>2. new \subseteq Urls /\ new \cap Sources(view[b]) = {}
    BY DEF NewSources, TypeInv, TypeOK
  <2> HIDE DEF new
  <2>3. view[b] \in Seq(Item) /\ view'[b] = view[b] \o FreshItems(s)
    BY <1>1, <2>1 DEF TypeInv, TypeOK
  <2>4. Extended(view[b], new, view'[b])
    BY <2>2, <2>3, AppendFresh
  <2>5. \A i \in DOMAIN view'[b] : Told(view'[b][i]) /\ BackedIfSynced(view'[b][i])
    BY <1>1, <1>4, <2>4 DEF Extended, MemoryOK, Rules, Told, BackedIfSynced
  <2>6. /\ UNCHANGED <<files, deny, created>>
        /\ \A q \in Procs : q # b => SameMemory(q)
    BY <1>1, <1>9, <2>1 DEF BridgeAppend, Goto, SameMemory, TypeInv, TypeOK
  <2>7. QED
    BY <1>5, <2>5, <2>6
<1>10. CASE BridgeWrite(b)
  <2>1. Exit(b) /\ pending' = view[b] /\ rejected' = rejected
    BY <1>10 DEF BridgeWrite
  <2>2. PendingOK' /\ DeniedOK'
    BY <1>1, <1>2, <1>4, <2>1
       DEF PendingOK, DeniedOK, RecordInv, MemoryOK, Rules, Told, BackedIfSynced, Backed
  <2>3. QED
    BY <1>1, <1>2, <1>3, <2>1, <2>2, ExitMemory, OneActs
<1>11. QED
  BY <1>6, <1>7, <1>8, <1>9, <1>10 DEF Bridge

\* A setter changes the verdict of one item to the one it then acknowledges.
LEMMA RecordSet ==
  ASSUME TypeInv, RecordInv, NEW s \in Setters, Set(s)
  PROVE  RecordInv'
<1>1. s \in Procs /\ s \notin Appliers /\ s \notin Bridges
  BY ProcsDisjoint DEF Procs
<1>2. Later /\ UNCHANGED yandex
  BY DEF Set, SetLoad, SetWrite, ghosts, Later
<1>3. EntriesOK'
  <2>1. \A l : AskedFor(l) => AskedFor(l)'
    BY <1>2, ItemLater
  <2>2. QED
    BY <1>2, <2>1 DEF EntriesOK, RecordInv, AskedFor
<1>4. MemoryOK(s)
  BY <1>1 DEF RecordInv
<1>5. CASE SetLoad(s)
  <2>1. PICK i \in DOMAIN pending, v \in Verdicts :
          /\ view' = [view EXCEPT ![s] = [pending EXCEPT ![i] =
                        [@ EXCEPT !.verdict = v, !.reviewed = TRUE]]]
          /\ ruling' = [ruling EXCEPT ![s] = [source |-> pending[i].source, verdict |-> v]]
    BY <1>5 DEF SetLoad
  <2> DEFINE it == [pending[i] EXCEPT !.verdict = v, !.reviewed = TRUE]
  <2>2. pending \in Seq(Item) /\ pending[i] \in Item
    BY ElementOfSeq, LenProperties DEF TypeInv, TypeOK
  <2>3. /\ it \in Item /\ it.source = pending[i].source /\ it.verdict = v
        /\ it.synced = pending[i].synced
        /\ it.task = pending[i].task /\ it.event = pending[i].event
    BY <2>2 DEF Item
  <2>4. /\ view'[s] = [pending EXCEPT ![i] = it]
        /\ ruling'[s].source = it.source /\ ruling'[s].verdict = it.verdict
        /\ \A q \in Procs : q # s => view'[q] = view[q] /\ ruling'[q] = ruling[q]
    BY <1>1, <2>1, <2>3 DEF TypeInv, TypeOK
  <2>5. /\ pc'[s] = "write" /\ UNCHANGED <<files, deny, created, said>>
        /\ \A q \in Procs : q # s => SameMemory(q)
    BY <1>1, <1>5, <2>4 DEF SetLoad, Goto, SameMemory, ghosts, TypeInv, TypeOK
  <2> HIDE DEF it
  <2>6. BackedIfSynced(it)
    BY <2>3 DEF RecordInv, PendingOK, BackedIfSynced, Backed
  <2>7. \A j \in DOMAIN view'[s] :
           /\ view'[s][j] = it \/ Told(view'[s][j])
           /\ BackedIfSynced(view'[s][j])
    BY <2>2, <2>3, <2>4, <2>6, EditList DEF RecordInv, PendingOK
  <2>8. (\A j \in DOMAIN view[s] : Told(view[s][j]) \/ Rules(s, view[s][j]))'
    BY <2>4, <2>5, <2>7 DEF Rules, Told
  <2>9. MemoryOK(s)'
    BY <1>1, <1>2, <1>4, <2>5, <2>7, <2>8
       DEF MemoryOK, Told, BackedIfSynced, Backed, Filed
  <2>10. QED
    BY <1>1, <1>2, <1>3, <2>5, <2>9, FilesKept, OneActs
<1>6. CASE SetWrite(s)
  <2>1. /\ Exit(s) /\ pending' = view[s] /\ rejected' = rejected /\ pc[s] = "write"
        /\ said' = said \cup {<<ruling[s].source, ruling[s].verdict>>}
    BY <1>6 DEF SetWrite
  <2>2. \A i \in DOMAIN view[s] :
           <<view[s][i].source, view[s][i].verdict>> \in said' \/ view[s][i].verdict = NoVerdict
    BY <1>4, <2>1 DEF MemoryOK, Told, Rules
  <2>3. PendingOK'
    BY <1>2, <1>4, <2>1, <2>2 DEF PendingOK, MemoryOK, Told, BackedIfSynced, Backed
  <2>4. DeniedOK'
    BY <2>1 DEF DeniedOK, RecordInv
  <2>5. QED
    BY <1>1, <1>2, <1>3, <2>1, <2>3, <2>4, ExitMemory, OneActs
<1>7. QED
  BY <1>5, <1>6 DEF Set

\* The same of an item and the calendar after the step.
BackedThen(it) ==
  it.synced =>
    /\ it.task \in DOMAIN yandex' /\ it.event \in DOMAIN yandex'
    /\ yandex'[it.task] = [kind |-> "task", link |-> LinkOf[it.source]]
    /\ yandex'[it.event] = [kind |-> "event", link |-> LinkOf[it.source]]

\* A step of an applier that edits its current item: the other items of its
\* copy, and the copies of other programs, stay as they were.
LEMMA RecordEdit ==
  ASSUME TypeInv, RecordInv, NEW a \in Appliers, a \in Procs, a \notin Setters,
         at[a] \in DOMAIN view[a], NEW it \in Item, Edit(a, it), Later,
         it.source = Current(a).source, it.verdict = Current(a).verdict,
         BackedThen(it),
         UNCHANGED said
  PROVE  /\ (\A i \in DOMAIN view[a] : Told(view[a][i]) /\ BackedIfSynced(view[a][i]))'
         /\ \A q \in Procs : q # a => view'[q] = view[q]
         /\ view'[a][at[a]] = it
<1>1. /\ DOMAIN view'[a] = DOMAIN view[a] /\ view'[a][at[a]] = it
      /\ \A j \in DOMAIN view[a] : j # at[a] => view'[a][j] = view[a][j]
      /\ \A q \in Procs : q # a => view'[q] = view[q]
  BY EditType
<1>2. \A i \in DOMAIN view[a] : Told(view[a][i]) /\ BackedIfSynced(view[a][i])
  BY DEF RecordInv, MemoryOK, Rules
<1>3. <<it.source, it.verdict>> \in said \/ it.verdict = NoVerdict
  BY <1>2 DEF Told, Current
<1>4. \A j \in DOMAIN view[a] : j # at[a] =>
         /\ view'[a][j].verdict # NoVerdict =>
               <<view'[a][j].source, view'[a][j].verdict>> \in said'
         /\ BackedThen(view'[a][j])
  BY <1>1, <1>2 DEF Told, BackedIfSynced, Backed, BackedThen, Later
<1>5. (\A i \in DOMAIN view[a] : Told(view[a][i]) /\ BackedIfSynced(view[a][i]))'
  BY <1>1, <1>3, <1>4 DEF Told, BackedIfSynced, Backed, BackedThen
<1>6. QED
  BY <1>1, <1>5

LEMMA RecordApply ==
  ASSUME TypeInv, RecordInv, NEW a \in Appliers, Apply(a)
  PROVE  RecordInv'
<1>1. a \in Procs /\ a \notin Setters /\ a \notin Bridges
  BY ProcsDisjoint DEF Procs
<1>2. MemoryOK(a) /\ UNCHANGED said
  BY <1>1 DEF RecordInv, Apply, ApplyLoad, ApplyReadDenylist, ApplySkip, ApplyReject,
     ApplyDedup, ApplyTask, ApplyEvent, YandexFails, ApplySaveDenylist,
     ApplySavePending, ghosts
<1>3. \A i \in DOMAIN view[a] : Told(view[a][i]) /\ BackedIfSynced(view[a][i])
  BY <1>1, <1>2 DEF MemoryOK, Rules
<1>4. ASSUME UNCHANGED yandex
      PROVE  Later /\ EntriesOK'
  BY <1>2, <1>4 DEF Later, EntriesOK, RecordInv, AskedFor
<1>5. CASE ApplyLoad(a)
  <2>1. /\ view'[a] = pending /\ pc'[a] = "denylist" /\ UNCHANGED <<files, deny, created, yandex>>
        /\ \A q \in Procs : q # a => SameMemory(q)
    BY <1>1, <1>5 DEF ApplyLoad, Goto, SameMemory, TypeInv, TypeOK
  <2>2. \A i \in DOMAIN view'[a] : Told(view'[a][i]) /\ BackedIfSynced(view'[a][i])
    BY <2>1 DEF RecordInv, PendingOK
  <2>3. MemoryOK(a)'
    BY <1>2, <2>1, <2>2 DEF MemoryOK, Told, BackedIfSynced, Backed, Filed
  <2>4. QED
    BY <1>1, <1>4, <2>1, <2>3, FilesKept, OneActs
<1>6. CASE ApplyReadDenylist(a)
  <2>1. /\ deny'[a] = rejected /\ pc'[a] = "items" /\ UNCHANGED <<files, view, created, yandex>>
        /\ \A q \in Procs : q # a => SameMemory(q)
    BY <1>1, <1>6 DEF ApplyReadDenylist, Goto, SameMemory, TypeInv, TypeOK
  <2>2. MemoryOK(a)'
    BY <1>2, <1>3, <2>1
       DEF MemoryOK, Told, BackedIfSynced, Backed, Filed, RecordInv, DeniedOK
  <2>3. QED
    BY <1>1, <1>4, <2>1, <2>2, FilesKept, OneActs
<1>7. CASE ApplySkip(a)
  <2>1. /\ pc[a] = "items" /\ UNCHANGED <<files, pc, view, deny, created, yandex>>
        /\ \A q \in Procs : q # a => SameMemory(q)
    BY <1>1, <1>7 DEF ApplySkip, Advance, AtItem, SameMemory, TypeInv, TypeOK
  <2>2. MemoryOK(a)'
    BY <1>2, <1>3, <2>1 DEF MemoryOK, Told, BackedIfSynced, Backed, Filed
  <2>3. QED
    BY <1>1, <1>4, <2>1, <2>2, FilesKept, OneActs
<1>8. CASE ApplyReject(a)
  <2> DEFINE it == [Current(a) EXCEPT !.marked = TRUE]
  <2>1. /\ at[a] \in DOMAIN view[a] /\ pc[a] = "items" /\ ToDeny(Current(a)) /\ Edit(a, it)
        /\ deny' = [deny EXCEPT ![a] = @ \cup {Current(a).source}]
        /\ Advance(a) /\ UNCHANGED <<files, pc, created, yandex, ruling>>
    BY <1>8 DEF ApplyReject, AtItem
  <2>2. Current(a) \in Item
    BY <1>1, <2>1, CurrentIsItem
  <2>3. /\ it \in Item /\ it.source = Current(a).source /\ it.verdict = Current(a).verdict
        /\ it.synced = Current(a).synced
        /\ it.task = Current(a).task /\ it.event = Current(a).event
    BY <2>2 DEF Item
  <2> HIDE DEF it
  <2>4. BackedThen(it)
    BY <1>3, <2>1, <2>3 DEF BackedIfSynced, BackedThen, Backed, Current
  <2>5. /\ (\A i \in DOMAIN view[a] : Told(view[a][i]) /\ BackedIfSynced(view[a][i]))'
        /\ \A q \in Procs : q # a => view'[q] = view[q]
    BY <1>1, <1>2, <1>4, <2>1, <2>3, <2>4, RecordEdit
  <2>6. <<Current(a).source, "rejected">> \in said
    BY <1>3, <2>1 DEF ToDeny, Told, Current, NoVerdict
  <2>7. /\ \A u \in deny'[a] : <<u, "rejected">> \in said
        /\ \A q \in Procs : q # a => SameMemory(q)
    BY <1>1, <1>2, <2>1, <2>5, <2>6 DEF MemoryOK, SameMemory, Advance, TypeInv, TypeOK
  <2>8. MemoryOK(a)'
    BY <1>2, <2>1, <2>5, <2>7 DEF MemoryOK, Filed
  <2>9. QED
    BY <1>1, <1>4, <2>1, <2>7, <2>8, FilesKept, OneActs
<1>9. CASE ApplyDedup(a)
  <2> DEFINE uids == created[a][extractLink(Current(a))]
             it == [Current(a) EXCEPT !.task = uids.task, !.event = uids.event,
                                      !.synced = TRUE]
  <2>1. /\ at[a] \in DOMAIN view[a] /\ pc[a] = "items" /\ uids # NoUids /\ Edit(a, it)
        /\ Advance(a) /\ UNCHANGED <<files, pc, deny, created, yandex, ruling>>
    BY <1>9 DEF ApplyDedup, AtItem, MadeThisRun
  <2>2. Current(a) \in Item /\ extractLink(Current(a)) \in Links
    BY <1>1, <2>1, CurrentIsItem
  <2>3. uids \in [task : Nat, event : Nat]
    BY <1>1, <2>2 DEF TypeInv, TypeOK
  <2>4. /\ Filed(uids.task, "task", extractLink(Current(a)))
        /\ Filed(uids.event, "event", extractLink(Current(a)))
    BY <1>2, <2>1, <2>2 DEF MemoryOK
  <2> HIDE DEF uids
  <2>5. /\ it \in Item /\ it.source = Current(a).source /\ it.verdict = Current(a).verdict
        /\ it.task = uids.task /\ it.event = uids.event
    BY <2>2, <2>3 DEF Item
  <2> HIDE DEF it
  <2>6. BackedThen(it)
    BY <2>1, <2>4, <2>5 DEF BackedThen, Filed, extractLink
  <2>7. /\ (\A i \in DOMAIN view[a] : Told(view[a][i]) /\ BackedIfSynced(view[a][i]))'
        /\ \A q \in Procs : q # a => view'[q] = view[q]
    BY <1>1, <1>2, <1>4, <2>1, <2>5, <2>6, RecordEdit
  <2>8. \A q \in Procs : q # a => SameMemory(q)
    BY <1>1, <2>1, <2>7 DEF SameMemory, Advance, TypeInv, TypeOK
  <2>9. MemoryOK(a)'
    BY <1>2, <2>1, <2>7 DEF MemoryOK, Filed
  <2>10. QED
    BY <1>1, <1>4, <2>1, <2>8, <2>9, FilesKept, OneActs
<1>10. CASE ApplyTask(a)
  <2> DEFINE it == [Current(a) EXCEPT !.task = Len(yandex')]
  <2>1. /\ at[a] \in DOMAIN view[a] /\ pc[a] = "items" /\ ToSync(Current(a)) /\ Edit(a, it)
        /\ Creates(a, "task") /\ pc' = [pc EXCEPT ![a] = "event"]
        /\ UNCHANGED <<files, at, deny, created, ruling>>
    BY <1>10 DEF ApplyTask, WantsTask, AtItem, Goto
  <2>2. /\ Current(a) \in Item /\ Current(a).verdict = "backlog" /\ ~Current(a).synced
        /\ Len(yandex') \in Nat
    BY <1>1, <2>1, CurrentIsItem, CreatesType DEF ToSync
  <2>3. /\ Later /\ EntriesOK' /\ Len(yandex') \in DOMAIN yandex'
        /\ yandex'[Len(yandex')] = [kind |-> "task", link |-> extractLink(Current(a))]
    BY <1>1, <1>2, <2>1, <2>2, EntryAsked
  <2>4. /\ it \in Item /\ it.source = Current(a).source /\ it.verdict = Current(a).verdict
        /\ it.synced = Current(a).synced /\ it.task = Len(yandex')
    BY <2>2 DEF Item
  <2> HIDE DEF it
  <2>5. BackedThen(it)
    BY <2>2, <2>4 DEF BackedThen
  <2>6. /\ (\A i \in DOMAIN view[a] : Told(view[a][i]) /\ BackedIfSynced(view[a][i]))'
        /\ \A q \in Procs : q # a => view'[q] = view[q]
        /\ view'[a][at[a]] = it
    BY <1>1, <1>2, <2>1, <2>3, <2>4, <2>5, RecordEdit
  <2>7. \A q \in Procs : q # a => SameMemory(q)
    BY <1>1, <2>1, <2>6 DEF SameMemory, TypeInv, TypeOK
  <2>8. /\ Current(a)'.verdict = "backlog"
        /\ Filed(Current(a).task, "task", extractLink(Current(a)))'
    BY <2>1, <2>2, <2>3, <2>4, <2>6 DEF Current, Filed, extractLink
  <2>9. MemoryOK(a)'
    BY <1>2, <2>1, <2>3, <2>6, <2>8 DEF MemoryOK, Filed, Later
  <2>10. QED
    BY <1>1, <2>1, <2>3, <2>7, <2>9, FilesKept, OneActs
<1>11. CASE ApplyEvent(a)
  <2> DEFINE it == [Current(a) EXCEPT !.event = Len(yandex'), !.synced = TRUE]
             uids == [task |-> Current(a).task, event |-> Len(yandex')]
  <2>1. /\ at[a] \in DOMAIN view[a] /\ pc[a] = "event" /\ Edit(a, it) /\ Creates(a, "event")
        /\ created' = [created EXCEPT ![a][extractLink(Current(a))] = uids]
        /\ Advance(a) /\ pc' = [pc EXCEPT ![a] = "items"]
        /\ UNCHANGED <<files, deny, ruling>>
    BY <1>11 DEF ApplyEvent, Goto, TypeInv
  <2>2. /\ Current(a) \in Item /\ extractLink(Current(a)) \in Links
        /\ Current(a).verdict = "backlog" /\ Len(yandex') \in Nat
        /\ Filed(Current(a).task, "task", extractLink(Current(a)))
    BY <1>1, <1>2, <2>1, CurrentIsItem, CreatesType DEF MemoryOK
  <2>3. /\ Later /\ EntriesOK' /\ Len(yandex') \in DOMAIN yandex'
        /\ yandex'[Len(yandex')] = [kind |-> "event", link |-> extractLink(Current(a))]
    BY <1>1, <1>2, <2>1, <2>2, EntryAsked
  <2>4. /\ it \in Item /\ it.source = Current(a).source /\ it.verdict = Current(a).verdict
        /\ it.task = Current(a).task /\ it.event = Len(yandex')
    BY <2>2 DEF Item
  <2>5. uids.task = Current(a).task /\ uids.event = Len(yandex')
    OBVIOUS
  <2>6. /\ created'[a][extractLink(Current(a))] = uids
        /\ \A l \in Links : l # extractLink(Current(a)) => created'[a][l] = created[a][l]
        /\ \A q \in Procs : q # a => created'[q] = created[q]
    BY <1>1, <2>1, <2>2 DEF TypeInv, TypeOK
  <2> HIDE DEF it, uids
  <2>7. BackedThen(it)
    BY <2>2, <2>3, <2>4 DEF BackedThen, Filed, Later, extractLink
  <2>8. /\ (\A i \in DOMAIN view[a] : Told(view[a][i]) /\ BackedIfSynced(view[a][i]))'
        /\ \A q \in Procs : q # a => view'[q] = view[q]
    BY <1>1, <1>2, <2>1, <2>3, <2>4, <2>7, RecordEdit
  <2>9. \A q \in Procs : q # a => SameMemory(q)
    BY <1>1, <2>1, <2>6, <2>8 DEF SameMemory, Advance, TypeInv, TypeOK
  <2>10. (\A l \in Links : created[a][l] # NoUids =>
            Filed(created[a][l].task, "task", l) /\ Filed(created[a][l].event, "event", l))'
    BY <1>2, <2>2, <2>3, <2>5, <2>6 DEF MemoryOK, Filed, Later
  <2>11. pc'[a] = "items"
    BY <1>1, <2>1 DEF TypeInv, TypeOK
  <2>12. MemoryOK(a)'
    BY <1>2, <2>1, <2>8, <2>10, <2>11 DEF MemoryOK
  <2>13. QED
    BY <1>1, <2>1, <2>3, <2>9, <2>12, FilesKept, OneActs
<1>12. CASE YandexFails(a)
  <2>1. Exit(a) /\ UNCHANGED files
    BY <1>12 DEF YandexFails
  <2>2. Later /\ EntriesOK'
    <3>1. CASE UNCHANGED yandex
      BY <3>1, <1>4
    <3>2. CASE WantsTask(a) /\ Creates(a, "task")
      <4>1. at[a] \in DOMAIN view[a] /\ Current(a).verdict = "backlog"
        BY <3>2 DEF WantsTask, AtItem, ToSync
      <4>2. QED
        BY <1>1, <1>2, <3>2, <4>1, EntryAsked
    <3>3. CASE pc[a] = "event" /\ Creates(a, "event")
      <4>1. at[a] \in DOMAIN view[a] /\ Current(a).verdict = "backlog"
        BY <1>2, <3>3 DEF MemoryOK, TypeInv
      <4>2. QED
        BY <1>1, <1>2, <3>3, <4>1, EntryAsked
    <3>4. QED
      BY <1>12, <3>1, <3>2, <3>3 DEF YandexFails
  <2>3. QED
    BY <1>1, <2>1, <2>2, ExitMemory, FilesKept, OneActs
<1>13. CASE ApplySaveDenylist(a)
  <2>1. rejected' = deny[a] /\ UNCHANGED <<pending, yandex>> /\ pc[a] = "items"
    BY <1>13 DEF ApplySaveDenylist
  <2>2. PendingOK' /\ DeniedOK' /\ Later /\ EntriesOK'
    BY <1>2, <1>4, <2>1
       DEF PendingOK, DeniedOK, RecordInv, MemoryOK, Told, BackedIfSynced, Backed
  <2>3. CASE Exit(a)
    BY <1>1, <2>2, <2>3, ExitMemory, OneActs
  <2>4. CASE Goto(a, "write") /\ UNCHANGED <<view, deny, at, created, dirty, ruling>>
    <3>1. pc'[a] = "write" /\ \A q \in Procs : q # a => SameMemory(q)
      BY <1>1, <2>4 DEF Goto, SameMemory, TypeInv, TypeOK
    <3>2. MemoryOK(a)'
      BY <1>2, <1>3, <2>1, <2>4, <3>1 DEF MemoryOK, Told, BackedIfSynced, Backed, Filed
    <3>3. QED
      BY <1>1, <2>2, <3>1, <3>2, OneActs
  <2>5. QED
    BY <1>13, <2>3, <2>4 DEF ApplySaveDenylist
<1>14. CASE ApplySavePending(a)
  <2>1. Exit(a) /\ pending' = view[a] /\ UNCHANGED <<rejected, yandex>>
    BY <1>14 DEF ApplySavePending
  <2>2. PendingOK' /\ DeniedOK'
    BY <1>2, <1>3, <2>1 DEF PendingOK, DeniedOK, RecordInv, Told, BackedIfSynced, Backed
  <2>3. QED
    BY <1>1, <1>4, <2>1, <2>2, ExitMemory, OneActs
<1>15. QED
  BY <1>5, <1>6, <1>7, <1>8, <1>9, <1>10, <1>11, <1>12, <1>13, <1>14 DEF Apply

LEMMA RecordStep == TypeInv /\ RecordInv /\ [Next]_vars => RecordInv'
<1> SUFFICES ASSUME TypeInv, RecordInv, [Next]_vars PROVE RecordInv'
  OBVIOUS
<1>1. ASSUME UNCHANGED <<files, yandex, local, said>>
      PROVE  RecordInv'
  <2>1. Later /\ \A q \in Procs : SameMemory(q)
    BY <1>1 DEF Later, SameMemory, local
  <2>2. EntriesOK'
    BY <1>1 DEF RecordInv, EntriesOK, AskedFor
  <2>3. \A q \in Procs : MemoryOK(q)'
    BY <2>1, MemoryKept DEF RecordInv
  <2>4. QED
    BY <1>1, <2>1, <2>2, <2>3, FilesKept DEF RecordInv
<1>2. CASE \E u \in Urls : Scan(u)
  BY <1>1, <1>2 DEF Scan, ghosts
<1>3. ASSUME NEW p \in Procs, Crash(p)
      PROVE  RecordInv'
  <2>1. Exit(p) /\ UNCHANGED <<files, yandex, said>>
    BY <1>3 DEF Crash, ghosts
  <2>2. Later /\ EntriesOK'
    BY <2>1 DEF Later, RecordInv, EntriesOK, AskedFor
  <2>3. QED
    BY <2>1, <2>2, ExitMemory, FilesKept, OneActs
<1>4. CASE UNCHANGED vars
  BY <1>1, <1>4 DEF vars, ghosts
<1>5. QED
  BY <1>2, <1>3, <1>4, RecordBridge, RecordSet, RecordApply DEF Next

LEMMA RecordsCorrect == Spec => []RecordInv
  BY RecordInit, RecordStep, TypeCorrect, PTL DEF Spec

\* However many programs overlap, fail or die, and also for items that shared
\* the entries of another, an item flagged synced in the file has the UIDs of
\* a task and an event for its own link.
THEOREM SyncedHaveEntries == Spec => []SyncedIsBacked
<1>1. RecordInv => SyncedIsBacked
  BY DEF RecordInv, PendingOK, BackedIfSynced, SyncedIsBacked
<1>2. QED
  BY <1>1, RecordsCorrect, PTL

\* Every verdict in the file, every denied source and every calendar entry
\* answers a verdict that some reviewer was told had been recorded.
THEOREM NothingUnasked == Spec => []OnlyWhatWasSaid
<1>1. RecordInv => OnlyWhatWasSaid
  BY DEF RecordInv, PendingOK, DeniedOK, EntriesOK, Told, AskedFor, OnlyWhatWasSaid
<1>2. QED
  BY <1>1, RecordsCorrect, PTL

-----------------------------------------------------------------------------
(* What a running program has of an entry nobody has changed since it      *)
(* loaded the file: the entry, at its place, with its own edits.           *)

HasEntries(p) ==
  pc[p] # "idle" =>
    \A i \in DOMAIN pending :
      \/ pending[i].source \in since[p]
      \/ i \in DOMAIN view[p] /\ Follows(p, ruling[p], pending[i], view[p][i])

\* An applier that creates an event does so for an item that is not synced.
StillOwed == \A a \in Appliers : pc[a] = "event" => ~Current(a).synced

CopyInv == StillOwed /\ \A p \in Procs : HasEntries(p)

\* Nobody replaces the file: a program that has not moved has what it had.
LEMMA EntriesKept ==
  ASSUME NEW q \in Procs, HasEntries(q), UNCHANGED pending,
         pc'[q] = pc[q], view'[q] = view[q], ruling'[q] = ruling[q],
         since[q] \subseteq since'[q]
  PROVE  HasEntries(q)'
  BY DEF HasEntries, Follows, Keeps

\* A program ends.  If it has replaced the file the others have the entries it
\* has left alone.
LEMMA EntriesAtExit ==
  ASSUME TypeInv, CopyInv, NEW p \in Procs, Exit(p)
  PROVE  CopyInv'
<1>1. /\ pc'[p] = "idle"
      /\ \A q \in Procs : q # p => /\ view'[q] = view[q] /\ pc'[q] = pc[q]
                                   /\ at'[q] = at[q] /\ ruling'[q] = ruling[q]
  BY ExitForgets
<1>2. StillOwed'
  BY <1>1 DEF CopyInv, StillOwed, Current, Procs
<1>3. ASSUME NEW q \in Procs, q # p, pc[q] # "idle", NEW i \in DOMAIN pending',
             pending'[i].source \notin since'[q]
      PROVE  i \in DOMAIN view'[q] /\ Follows(q, ruling'[q], pending'[i], view'[q][i])
  <2>1. since'[q] = since[q] \cup Changed(pending, pending')
    BY <1>3 DEF Exit
  <2>2. i \in DOMAIN pending /\ pending'[i] = pending[i] /\ pending[i].source \notin since[q]
    BY <1>3, <2>1 DEF Changed
  <2>3. i \in DOMAIN view[q] /\ Follows(q, ruling[q], pending[i], view[q][i])
    BY <1>3, <2>2 DEF CopyInv, HasEntries
  <2>4. QED
    BY <1>1, <1>3, <2>2, <2>3 DEF Follows, Keeps
<1>4. \A q \in Procs : HasEntries(q)'
  BY <1>1, <1>3 DEF HasEntries
<1>5. QED
  BY <1>2, <1>4 DEF CopyInv

\* A step of p that replaces no file: all the others have what they had.
LEMMA EntriesOne ==
  ASSUME CopyInv, NEW p \in Procs, UNCHANGED <<pending, since>>, HasEntries(p)',
         \A q \in Procs : q # p => /\ view'[q] = view[q] /\ pc'[q] = pc[q]
                                  /\ at'[q] = at[q] /\ ruling'[q] = ruling[q],
         p \in Appliers /\ pc'[p] = "event" => ~Current(p)'.synced
  PROVE  CopyInv'
<1>1. \A q \in Procs : q # p => HasEntries(q)'
  BY EntriesKept DEF CopyInv
<1>2. StillOwed'
  BY DEF CopyInv, StillOwed, Current, Procs
<1>3. QED
  BY <1>1, <1>2 DEF CopyInv

\* What has just been read is all there.
LEMMA EntriesRead ==
  ASSUME NEW p \in Procs, UNCHANGED pending, view'[p] = pending
  PROVE  HasEntries(p)'
  BY DEF HasEntries, Follows, Keeps

LEMMA EntriesBridge ==
  ASSUME TypeInv, CopyInv, NEW b \in Bridges, Bridge(b)
  PROVE  CopyInv'
<1>1. b \in Procs /\ b \notin Appliers
  BY ProcsDisjoint DEF Procs
<1>2. CASE BridgeLoad(b)
  <2>1. /\ UNCHANGED <<pending, since, at, ruling>> /\ view'[b] = pending
        /\ \A q \in Procs : q # b => view'[q] = view[q] /\ pc'[q] = pc[q]
    BY <1>1, <1>2 DEF BridgeLoad, Goto, files, TypeInv, TypeOK
  <2>2. QED
    BY <1>1, <2>1, EntriesRead, EntriesOne
<1>3. CASE BridgeReadDenylist(b)
  <2>1. /\ UNCHANGED <<pending, since, at, ruling, view>>
        /\ pc[b] # "idle" /\ \A q \in Procs : q # b => pc'[q] = pc[q]
    BY <1>1, <1>3 DEF BridgeReadDenylist, Goto, files, TypeInv, TypeOK
  <2>2. HasEntries(b)'
    BY <1>1, <2>1 DEF CopyInv, HasEntries, Follows, Keeps
  <2>3. QED
    BY <1>1, <2>1, <2>2, EntriesOne
<1>4. CASE BridgeNothingNew(b) \/ BridgeWrite(b)
  BY <1>1, <1>4, EntriesAtExit DEF BridgeNothingNew, BridgeWrite
<1>5. CASE BridgeAppend(b)
  <2> DEFINE new == NewSources(view[b], deny[b], findings)
  <2>1. PICK s \in Orders(new) : view' = [view EXCEPT ![b] = @ \o FreshItems(s)]
    BY <1>5 DEF BridgeAppend
  <2>2. new \subseteq Urls /\ new \cap Sources(view[b]) = {} /\ view[b] \in Seq(Item)
    BY <1>1 DEF NewSources, TypeInv, TypeOK
  <2>3. \A i \in DOMAIN view[b] :
          i \in DOMAIN (view[b] \o FreshItems(s)) /\ (view[b] \o FreshItems(s))[i] = view[b][i]
    BY <2>2, AppendFresh DEF Extended
  <2>4. /\ \A i \in DOMAIN view[b] : i \in DOMAIN view'[b] /\ view'[b][i] = view[b][i]
        /\ \A q \in Procs : q # b => view'[q] = view[q]
    BY <1>1, <2>1, <2>3 DEF TypeInv, TypeOK
  <2>5. /\ UNCHANGED <<pending, since, at, ruling>>
        /\ pc[b] # "idle" /\ \A q \in Procs : q # b => pc'[q] = pc[q]
    BY <1>1, <1>5 DEF BridgeAppend, Goto, files, TypeInv, TypeOK
  <2>6. ASSUME NEW i \in DOMAIN pending, pending[i].source \notin since[b]
        PROVE  i \in DOMAIN view'[b] /\ Follows(b, ruling[b], pending[i], view'[b][i])
    <3>1. i \in DOMAIN view[b] /\ Follows(b, ruling[b], pending[i], view[b][i])
      BY <1>1, <2>5, <2>6 DEF CopyInv, HasEntries
    <3>2. QED
      BY <2>4, <3>1
  <2>7. HasEntries(b)'
    BY <2>5, <2>6 DEF HasEntries
  <2>8. QED
    BY <1>1, <2>4, <2>5, <2>7, EntriesOne
<1>6. QED
  BY <1>2, <1>3, <1>4, <1>5 DEF Bridge

LEMMA EntriesSet ==
  ASSUME TypeInv, CopyInv, NEW s \in Setters, Set(s)
  PROVE  CopyInv'
<1>1. s \in Procs /\ s \notin Appliers
  BY ProcsDisjoint DEF Procs
<1>2. CASE SetLoad(s)
  <2>1. PICK k \in DOMAIN pending, v \in Verdicts :
          /\ view' = [view EXCEPT ![s] = [pending EXCEPT ![k] =
                        [@ EXCEPT !.verdict = v, !.reviewed = TRUE]]]
          /\ ruling' = [ruling EXCEPT ![s] = [source |-> pending[k].source,
                                              verdict |-> v]]
    BY <1>2 DEF SetLoad
  <2> DEFINE it == [pending[k] EXCEPT !.verdict = v, !.reviewed = TRUE]
  <2>2. pending \in Seq(Item) /\ pending[k] \in Item
    BY ElementOfSeq, LenProperties DEF TypeInv, TypeOK
  <2>3. it \in Item /\ Keeps(pending[k], it) /\ it.verdict = v /\ it.reviewed
    BY <2>2 DEF Item, Keeps
  <2>4. /\ view'[s] = [pending EXCEPT ![k] = it]
        /\ ruling'[s] = [source |-> pending[k].source, verdict |-> v]
        /\ \A q \in Procs : q # s => view'[q] = view[q] /\ ruling'[q] = ruling[q]
    BY <1>1, <2>1 DEF TypeInv, TypeOK
  <2> HIDE DEF it
  <2>5. /\ DOMAIN view'[s] = DOMAIN pending /\ view'[s][k] = it
        /\ \A j \in DOMAIN pending : j # k => view'[s][j] = pending[j]
    BY <2>2, <2>3, <2>4, EditList
  <2>6. /\ UNCHANGED <<pending, since, at>>
        /\ \A q \in Procs : q # s => pc'[q] = pc[q]
    BY <1>1, <1>2 DEF SetLoad, Goto, files, TypeInv, TypeOK
  <2>7. ASSUME NEW i \in DOMAIN pending
        PROVE  i \in DOMAIN view'[s] /\ Follows(s, ruling'[s], pending[i], view'[s][i])
    <3>1. CASE i = k
      BY <2>3, <2>4, <2>5, <2>6, <3>1 DEF Follows, Keeps
    <3>2. CASE i # k
      BY <2>5, <2>6, <3>2 DEF Follows, Keeps
    <3>3. QED
      BY <3>1, <3>2
  <2>8. HasEntries(s)'
    BY <2>6, <2>7 DEF HasEntries
  <2>9. QED
    BY <1>1, <2>4, <2>6, <2>8, EntriesOne
<1>3. CASE SetWrite(s)
  BY <1>1, <1>3, EntriesAtExit DEF SetWrite
<1>4. QED
  BY <1>2, <1>3 DEF Set

\* The edits of an applier: which item is edited, and how.
LEMMA EditKeeps ==
  ASSUME TypeInv, CopyInv, NEW a \in Appliers, Edits(a)
  PROVE  \E it \in Item : /\ Edit(a, it) /\ Keeps(Current(a), it)
                          /\ it.verdict = Current(a).verdict
                          /\ it.reviewed = Current(a).reviewed
                          /\ pc'[a] = "event" => ~it.synced /\ at'[a] = at[a]
<1>1. a \in Procs /\ at[a] \in DOMAIN view[a] /\ Current(a) \in Item
  BY EditSteps
<1>2. extractLink(Current(a)) \in Links
  BY <1>1, CurrentIsItem
<1>3. CASE ApplyReject(a)
  <2>1. [Current(a) EXCEPT !.marked = TRUE] \in Item
    BY <1>1 DEF Item
  <2>2. pc'[a] = "items"
    BY <1>3 DEF ApplyReject, AtItem
  <2>3. QED
    BY <1>1, <1>3, <2>1, <2>2 DEF ApplyReject, Item, Keeps
<1>4. CASE ApplyDedup(a)
  <2> DEFINE uids == created[a][extractLink(Current(a))]
  <2>1. uids \in [task : Nat, event : Nat]
    BY <1>1, <1>2 DEF TypeInv, TypeOK
  <2>2. [Current(a) EXCEPT !.task = uids.task, !.event = uids.event,
                           !.synced = TRUE] \in Item
    BY <1>1, <2>1 DEF Item
  <2>3. pc'[a] = "items" /\ ~Current(a).synced
    BY <1>4 DEF ApplyDedup, AtItem, ToSync
  <2>4. QED
    BY <1>1, <1>4, <2>2, <2>3 DEF ApplyDedup, Item, Keeps
<1>5. CASE ApplyTask(a)
  <2>1. Len(yandex') \in Nat
    BY <1>1, <1>5, CreatesType DEF ApplyTask
  <2>2. [Current(a) EXCEPT !.task = Len(yandex')] \in Item
    BY <1>1, <2>1 DEF Item
  <2>3. ~Current(a).synced /\ at' = at
    BY <1>5 DEF ApplyTask, WantsTask, ToSync
  <2>4. QED
    BY <1>1, <1>5, <2>2, <2>3 DEF ApplyTask, Item, Keeps
<1>6. CASE ApplyEvent(a)
  <2>1. Len(yandex') \in Nat
    BY <1>1, <1>6, CreatesType DEF ApplyEvent
  <2>2. [Current(a) EXCEPT !.event = Len(yandex'), !.synced = TRUE] \in Item
    BY <1>1, <2>1 DEF Item
  <2>3. ~Current(a).synced /\ pc'[a] = "items"
    BY <1>1, <1>6 DEF ApplyEvent, CopyInv, StillOwed, Goto, TypeInv, TypeOK
  <2>4. QED
    BY <1>1, <1>6, <2>2, <2>3 DEF ApplyEvent, Item, Keeps
<1>7. QED
  BY <1>3, <1>4, <1>5, <1>6 DEF Edits

LEMMA EntriesEdit ==
  ASSUME TypeInv, CopyInv, NEW a \in Appliers, Edits(a)
  PROVE  CopyInv'
<1>1. /\ a \in Procs /\ at[a] \in DOMAIN view[a] /\ pc[a] # "idle"
      /\ \A q \in Procs : q # a => pc'[q] = pc[q]
      /\ UNCHANGED <<pending, ruling>>
  BY EditSteps DEF files
<1>2. /\ since' = since
      /\ \A q \in Procs : q # a => at'[q] = at[q]
  BY <1>1 DEF Edits, ApplyReject, ApplyDedup, ApplyTask, ApplyEvent, Advance, TypeInv, TypeOK
<1>3. PICK it \in Item : /\ Edit(a, it) /\ Keeps(Current(a), it)
                         /\ it.verdict = Current(a).verdict
                         /\ it.reviewed = Current(a).reviewed
                         /\ pc'[a] = "event" => ~it.synced /\ at'[a] = at[a]
  BY EditKeeps
<1>4. /\ DOMAIN view'[a] = DOMAIN view[a] /\ view'[a][at[a]] = it
      /\ \A j \in DOMAIN view[a] : j # at[a] => view'[a][j] = view[a][j]
      /\ \A q \in Procs : q # a => view'[q] = view[q]
  BY <1>1, <1>3, EditType
<1>5. ASSUME NEW i \in DOMAIN pending, pending[i].source \notin since[a]
      PROVE  i \in DOMAIN view'[a] /\ Follows(a, ruling[a], pending[i], view'[a][i])
  <2>1. i \in DOMAIN view[a] /\ Follows(a, ruling[a], pending[i], view[a][i])
    BY <1>1, <1>5 DEF CopyInv, HasEntries
  <2>2. CASE i = at[a]
    <3>1. Current(a) = view[a][i]
      BY <2>2 DEF Current
    <3>2. Keeps(pending[i], it) /\ it.verdict = view[a][i].verdict
          /\ it.reviewed = view[a][i].reviewed
      BY <1>3, <2>1, <3>1 DEF Follows, Keeps
    <3>3. QED
      BY <1>1, <1>4, <2>1, <2>2, <3>2 DEF Follows, Keeps
  <2>3. CASE i # at[a]
    BY <1>1, <1>4, <2>1, <2>3 DEF Follows, Keeps
  <2>4. QED
    BY <2>2, <2>3
<1>6. HasEntries(a)'
  BY <1>1, <1>2, <1>5 DEF HasEntries
<1>7. pc'[a] = "event" => ~Current(a)'.synced
  BY <1>3, <1>4 DEF Current
<1>8. QED
  BY <1>1, <1>2, <1>4, <1>6, <1>7, EntriesOne

LEMMA EntriesApply ==
  ASSUME TypeInv, CopyInv, NEW a \in Appliers, Apply(a)
  PROVE  CopyInv'
<1>1. a \in Procs
  BY DEF Procs
<1>2. CASE ApplyLoad(a)
  <2>1. /\ UNCHANGED <<pending, since, at, ruling>> /\ view'[a] = pending
        /\ pc'[a] = "denylist"
        /\ \A q \in Procs : q # a => view'[q] = view[q] /\ pc'[q] = pc[q]
    BY <1>1, <1>2 DEF ApplyLoad, Goto, files, TypeInv, TypeOK
  <2>2. QED
    BY <1>1, <2>1, EntriesRead, EntriesOne
<1>3. CASE ApplyReadDenylist(a) \/ ApplySkip(a)
  <2>1. /\ UNCHANGED <<pending, since, ruling, view>>
        /\ pc[a] # "idle" /\ pc'[a] = "items"
        /\ \A q \in Procs : q # a => pc'[q] = pc[q] /\ at'[q] = at[q]
    BY <1>1, <1>3 DEF ApplyReadDenylist, ApplySkip, AtItem, Advance, Goto, files,
       TypeInv, TypeOK
  <2>2. HasEntries(a)'
    BY <1>1, <2>1 DEF CopyInv, HasEntries, Follows, Keeps
  <2>3. QED
    BY <1>1, <2>1, <2>2, EntriesOne
<1>4. CASE YandexFails(a) \/ ApplySavePending(a)
  BY <1>1, <1>4, EntriesAtExit DEF YandexFails, ApplySavePending
<1>5. CASE ApplySaveDenylist(a)
  <2>1. CASE Exit(a)
    BY <1>1, <2>1, EntriesAtExit
  <2>2. CASE ~Exit(a)
    <3>1. /\ UNCHANGED <<pending, since, ruling, view, at>>
          /\ pc[a] # "idle" /\ pc'[a] = "write"
          /\ \A q \in Procs : q # a => pc'[q] = pc[q]
      BY <1>1, <1>5, <2>2 DEF ApplySaveDenylist, Goto, TypeInv, TypeOK
    <3>2. HasEntries(a)'
      BY <1>1, <3>1 DEF CopyInv, HasEntries, Follows, Keeps
    <3>3. QED
      BY <1>1, <3>1, <3>2, EntriesOne
  <2>3. QED
    BY <2>1, <2>2
<1>6. QED
  BY <1>2, <1>3, <1>4, <1>5, EntriesEdit DEF Apply, Edits

LEMMA CopiesCorrect == Spec => []CopyInv
<1>1. Init => CopyInv
  BY DEF Init, CopyInv, StillOwed, HasEntries, Procs
<1>2. TypeInv /\ CopyInv /\ [Next]_vars => CopyInv'
  <2> SUFFICES ASSUME TypeInv, CopyInv, [Next]_vars
               PROVE  CopyInv'
    OBVIOUS
  <2>1. ASSUME UNCHANGED <<pending, since, pc, view, at, ruling>>
        PROVE  CopyInv'
    BY <2>1, EntriesKept DEF CopyInv, StillOwed, Current
  <2>2. CASE \E u \in Urls : Scan(u)
    BY <2>1, <2>2 DEF Scan, files, local
  <2>3. CASE \E p \in Procs : Crash(p)
    BY <2>3, EntriesAtExit DEF Crash
  <2>4. CASE UNCHANGED vars
    BY <2>1, <2>4 DEF vars, files, local
  <2>5. QED
    BY <2>2, <2>3, <2>4, EntriesBridge, EntriesSet, EntriesApply DEF Next
<1>3. QED
  BY <1>1, <1>2, TypeCorrect, PTL DEF Spec

\* Who replaces pending_review.json writes its copy.
LEMMA FileReplaced ==
  ASSUME [Next]_vars, pending' # pending
  PROVE  \E p \in Procs : pc[p] = "write" /\ Exit(p) /\ pending' = view[p]
<1>1. ASSUME NEW b \in Bridges, Bridge(b)
      PROVE  BridgeWrite(b)
  BY <1>1 DEF Bridge, BridgeLoad, BridgeReadDenylist, BridgeNothingNew, BridgeAppend, files
<1>2. ASSUME NEW s \in Setters, Set(s)
      PROVE  SetWrite(s)
  BY <1>2 DEF Set, SetLoad, files
<1>3. ASSUME NEW a \in Appliers, Apply(a)
      PROVE  ApplySavePending(a)
  BY <1>3 DEF Apply, ApplyLoad, ApplyReadDenylist, ApplySkip, ApplyReject, ApplyDedup,
     ApplyTask, ApplyEvent, YandexFails, ApplySaveDenylist, files
<1>4. ~(\E u \in Urls : Scan(u)) /\ ~(\E p \in Procs : Crash(p)) /\ ~UNCHANGED vars
  BY DEF Scan, Crash, vars, files
<1>5. QED
  BY <1>1, <1>2, <1>3, <1>4 DEF Next, BridgeWrite, SetWrite, ApplySavePending, Procs

\* However many bridges, setters and appliers overlap, fail or die: an entry of
\* pending_review.json loses its place, its flags or its verdict only to a program
\* that had loaded the file before another wrote that entry.
THEOREM FreshCopiesUndoNothing == Spec => OnlyOldCopiesUndo
<1>1. TypeInv /\ CopyInv /\ [Next]_vars =>
        [\E p \in Procs :
           /\ pc[p] = "write" /\ pc'[p] = "idle"
           /\ \A i \in DOMAIN pending :
                \/ pending[i].source \in since[p]
                \/ i \in DOMAIN pending' /\ Follows(p, ruling[p], pending[i], pending'[i])]_pending
  <2> SUFFICES ASSUME TypeInv, CopyInv, [Next]_vars, pending' # pending
               PROVE  \E p \in Procs :
                        /\ pc[p] = "write" /\ pc'[p] = "idle"
                        /\ \A i \in DOMAIN pending :
                             \/ pending[i].source \in since[p]
                             \/ /\ i \in DOMAIN pending'
                                /\ Follows(p, ruling[p], pending[i], pending'[i])
    OBVIOUS
  <2>1. PICK p \in Procs : pc[p] = "write" /\ Exit(p) /\ pending' = view[p]
    BY FileReplaced
  <2>2. pc'[p] = "idle"
    BY <2>1, ExitForgets
  <2>3. \A i \in DOMAIN pending :
          \/ pending[i].source \in since[p]
          \/ i \in DOMAIN pending' /\ Follows(p, ruling[p], pending[i], pending'[i])
    BY <2>1 DEF CopyInv, HasEntries
  <2>4. QED
    BY <2>1, <2>2, <2>3
<1>2. QED
  BY <1>1, TypeCorrect, CopiesCorrect, PTL DEF Spec, OnlyOldCopiesUndo
=============================================================================
