------------------------------- MODULE Triage -------------------------------
(***************************************************************************)
(* The human review pipeline of internal/notify: three programs that share *)
(* two JSON files and take no lock.                                        *)
(*                                                                         *)
(*   bridge   hunter notify, hunter scan --bridge (BridgePendingReview)    *)
(*   setter   hunter triage-set, POST /findings/verdict (TriageSet)        *)
(*   applier  hunter triage-apply (TriageApply)                            *)
(*                                                                         *)
(* Every program reads pending_review.json whole, edits its copy, and      *)
(* replaces the file by a rename; each file access is a step of its own,   *)
(* so the programs interleave between them.  A program may die between any *)
(* two steps.  A call of yandex.sh may fail, before or after the calendar  *)
(* entry exists.                                                           *)
(***************************************************************************)
EXTENDS Naturals, Sequences, FiniteSets

CONSTANTS Urls,      \* source URLs of the findings
          Links,     \* canonical links extractLink maps sources to
          LinkOf,    \* the canonical link of each source
          Bridges, Setters, Appliers,  \* the program instances
          Overlap,   \* TRUE: runs overlap freely; FALSE: one run at a time
          MaxAborts, \* bound on the runs that die or give up on an error
          MaxCalls,  \* bound on the calendar entries created
          MaxSaid    \* bound on the different verdicts reviewers give

ASSUME UrlsFinite == IsFiniteSet(Urls)
ASSUME LinkOfType == LinkOf \in [Urls -> Links]
ASSUME OverlapType == Overlap \in BOOLEAN
ASSUME ProcsDisjoint == /\ Bridges \cap Setters = {}
                        /\ Bridges \cap Appliers = {}
                        /\ Setters \cap Appliers = {}

Procs == Bridges \cup Setters \cup Appliers

NoVerdict == "none"
\* The aliases not_confirmed and not_working_rf behave as "rejected",
\* already_in_use as "confirmed".
Verdicts == {"rejected", "backlog", "confirmed"}

\* An entry of pending_review.json; UID 0 is the empty UID.
Item == [source: Urls, reviewed: BOOLEAN, verdict: Verdicts \cup {NoVerdict},
         marked: BOOLEAN, synced: BOOLEAN, task: Nat, event: Nat]

\* A calendar entry; its UID is its position in the variable yandex.
Entry == [kind: {"task", "event"}, link: Links]

VARIABLES
  findings,  \* the findings table: URLs of the rows that are no duplicates
  pending,   \* pending_review.json
  rejected,  \* rejected.json, the denylist
  yandex,    \* every calendar entry ever created, in order
  pc,        \* where each program is
  view,      \* its in-memory copy of pending_review.json
  deny,      \* its in-memory copy of rejected.json
  at,        \* an applier's position in its loop over the items
  created,   \* an applier's createdLinks: the UIDs made for a link this run
  dirty,     \* an applier's flag changed
  ruling,    \* the source and verdict a setter was asked to record
  said,      \* history: every <<source, verdict>> acknowledged to a reviewer
  last,      \* history: the last verdict acknowledged for each source
  since,     \* history: the sources whose entries in pending_review.json have
             \* changed since a running program loaded it
  aborts     \* number of runs that died or gave up

files  == <<pending, rejected>>
ghosts == <<said, last>>
local  == <<pc, view, deny, at, created, dirty, ruling>>
vars   == <<findings, files, yandex, local, ghosts, since, aborts>>

NoUids   == [task |-> 0, event |-> 0]
NoLinks  == [l \in Links |-> NoUids]
NoRuling == [source |-> NoVerdict, verdict |-> NoVerdict]

Init == /\ findings = {}
        /\ pending = << >>
        /\ rejected = {}
        /\ yandex = << >>
        /\ pc = [p \in Procs |-> "idle"]
        /\ view = [p \in Procs |-> << >>]
        /\ deny = [p \in Procs |-> {}]
        /\ at = [p \in Procs |-> 0]
        /\ created = [p \in Procs |-> NoLinks]
        /\ dirty = [p \in Procs |-> FALSE]
        /\ ruling = [p \in Procs |-> NoRuling]
        /\ said = {}
        /\ last = [u \in Urls |-> NoVerdict]
        /\ since = [p \in Procs |-> {}]
        /\ aborts = 0

-----------------------------------------------------------------------------
(* Helpers.                                                                *)

Sources(items) == {items[i].source : i \in DOMAIN items}

\* Nothing but the deployment keeps two runs apart: there is no lock.
MayStart == Overlap \/ \A p \in Procs : pc[p] = "idle"

Goto(p, label) == pc' = [pc EXCEPT ![p] = label]

\* The sources whose entries are new, are others or have moved.
Changed(old, new) ==
  {new[i].source : i \in {j \in DOMAIN new : j \notin DOMAIN old \/ old[j] # new[j]}}

\* The program ends; what it had in memory is gone.  What the others have is out
\* of date if this one has replaced the file.
Exit(p) == /\ since' = [q \in Procs |->
                IF q = p \/ pc[q] = "idle" THEN {}
                ELSE since[q] \cup Changed(pending, pending')]
           /\ Goto(p, "idle")
           /\ view' = [view EXCEPT ![p] = << >>]
           /\ deny' = [deny EXCEPT ![p] = {}]
           /\ at' = [at EXCEPT ![p] = 0]
           /\ created' = [created EXCEPT ![p] = NoLinks]
           /\ dirty' = [dirty EXCEPT ![p] = FALSE]
           /\ ruling' = [ruling EXCEPT ![p] = NoRuling]

\* The entry AppendNewFindings makes for a new source.
Fresh(u) == [source |-> u, reviewed |-> FALSE, verdict |-> NoVerdict,
             marked |-> FALSE, synced |-> FALSE, task |-> 0, event |-> 0]

\* The query orders findings by quality, so new ones may come in any order.
Orders(S) == {s \in [1..Cardinality(S) -> S] :
                \A i, j \in DOMAIN s : s[i] = s[j] => i = j}

FreshItems(s) == [i \in DOMAIN s |-> Fresh(s[i])]

\* The GitHub repository an item is about, or else its source.
extractLink(it) == LinkOf[it.source]

\* Mutant: the check against the sources already listed is lost.
NewSources_NoDedup(items, denylist, found) == found \ denylist

\* The sources a bridge that has read items and a denylist still has to add.
NewSources(items, denylist, found) == (found \ denylist) \ Sources(items)

-----------------------------------------------------------------------------
(* The scan pipeline stores a finding (SaveFindings); nothing removes one. *)

Scan(u) == /\ u \notin findings
           /\ findings' = findings \cup {u}
           /\ UNCHANGED <<files, yandex, local, ghosts, since, aborts>>

-----------------------------------------------------------------------------
(* BridgePendingReview.                                                    *)

\* Mutant: the bridge keeps only what still awaits review.
BridgeLoad_OnlyOpen(b) ==
  /\ pc[b] = "idle" /\ MayStart
  /\ view' = [view EXCEPT ![b] = SelectSeq(pending, LAMBDA it : ~it.reviewed)]
  /\ Goto(b, "denylist")
  /\ UNCHANGED <<findings, files, yandex, deny, at, created, dirty, ruling,
                 ghosts, since, aborts>>

BridgeLoad(b) ==
  /\ pc[b] = "idle" /\ MayStart
  /\ view' = [view EXCEPT ![b] = pending]
  /\ Goto(b, "denylist")
  /\ UNCHANGED <<findings, files, yandex, deny, at, created, dirty, ruling,
                 ghosts, since, aborts>>

BridgeReadDenylist(b) ==
  /\ pc[b] = "denylist"
  /\ deny' = [deny EXCEPT ![b] = rejected]
  /\ Goto(b, "findings")
  /\ UNCHANGED <<findings, files, yandex, view, at, created, dirty, ruling,
                 ghosts, since, aborts>>

\* Nothing to add: the file is not written at all.
BridgeNothingNew(b) ==
  /\ pc[b] = "findings"
  /\ NewSources(view[b], deny[b], findings) = {}
  /\ UNCHANGED <<findings, files, yandex, ghosts, aborts>>
  /\ Exit(b)

\* Mutant: new findings go to the front of the list.
BridgeAppend_Front(b) ==
  LET new == NewSources(view[b], deny[b], findings) IN
  /\ pc[b] = "findings"
  /\ new # {}
  /\ \E s \in Orders(new) :
        view' = [view EXCEPT ![b] = FreshItems(s) \o @]
  /\ Goto(b, "write")
  /\ UNCHANGED <<findings, files, yandex, deny, at, created, dirty, ruling,
                 ghosts, since, aborts>>

BridgeAppend(b) ==
  LET new == NewSources(view[b], deny[b], findings) IN
  /\ pc[b] = "findings"
  /\ new # {}
  /\ \E s \in Orders(new) :
        view' = [view EXCEPT ![b] = @ \o FreshItems(s)]
  /\ Goto(b, "write")
  /\ UNCHANGED <<findings, files, yandex, deny, at, created, dirty, ruling,
                 ghosts, since, aborts>>

BridgeWrite(b) ==
  /\ pc[b] = "write"
  /\ pending' = view[b]
  /\ UNCHANGED <<findings, rejected, yandex, ghosts, aborts>>
  /\ Exit(b)

Bridge(b) == \/ BridgeLoad(b) \/ BridgeReadDenylist(b)
             \/ BridgeNothingNew(b) \/ BridgeAppend(b) \/ BridgeWrite(b)

-----------------------------------------------------------------------------
(* TriageSet.  The item is found by position, or by source (the first      *)
(* match); an item that is not there is an error that changes nothing.     *)

\* Mutant: the reviewed flag is not set.
SetLoad_NotReviewed(s) ==
  /\ pc[s] = "idle" /\ MayStart
  /\ \E i \in DOMAIN pending, v \in Verdicts :
        /\ Cardinality(said \cup {<<pending[i].source, v>>}) <= MaxSaid
        /\ view' = [view EXCEPT ![s] = [pending EXCEPT ![i] =
                                         [@ EXCEPT !.verdict = v]]]
        /\ ruling' = [ruling EXCEPT ![s] =
                        [source |-> pending[i].source, verdict |-> v]]
  /\ Goto(s, "write")
  /\ UNCHANGED <<findings, files, yandex, deny, at, created, dirty,
                 ghosts, since, aborts>>

SetLoad(s) ==
  /\ pc[s] = "idle" /\ MayStart
  /\ \E i \in DOMAIN pending, v \in Verdicts :
        /\ Cardinality(said \cup {<<pending[i].source, v>>}) <= MaxSaid
        /\ view' = [view EXCEPT ![s] = [pending EXCEPT ![i] =
                      [@ EXCEPT !.verdict = v, !.reviewed = TRUE]]]
        /\ ruling' = [ruling EXCEPT ![s] =
                        [source |-> pending[i].source, verdict |-> v]]
  /\ Goto(s, "write")
  /\ UNCHANGED <<findings, files, yandex, deny, at, created, dirty,
                 ghosts, since, aborts>>

SetWrite(s) ==
  /\ pc[s] = "write"
  /\ pending' = view[s]
  /\ said' = said \cup {<<ruling[s].source, ruling[s].verdict>>}
  /\ last' = [last EXCEPT ![ruling[s].source] = ruling[s].verdict]
  /\ UNCHANGED <<findings, rejected, yandex, aborts>>
  /\ Exit(s)

Set(s) == SetLoad(s) \/ SetWrite(s)

-----------------------------------------------------------------------------
(* TriageApply.                                                            *)

ApplyLoad(a) ==
  /\ pc[a] = "idle" /\ MayStart
  /\ pending # << >>
  /\ view' = [view EXCEPT ![a] = pending]
  /\ Goto(a, "denylist")
  /\ UNCHANGED <<findings, files, yandex, deny, at, created, dirty, ruling,
                 ghosts, since, aborts>>

\* Mutant: the run starts from an empty denylist.
ApplyReadDenylist_Empty(a) ==
  /\ pc[a] = "denylist"
  /\ deny' = [deny EXCEPT ![a] = {}]
  /\ at' = [at EXCEPT ![a] = 1]
  /\ Goto(a, "items")
  /\ UNCHANGED <<findings, files, yandex, view, created, dirty, ruling,
                 ghosts, since, aborts>>

ApplyReadDenylist(a) ==
  /\ pc[a] = "denylist"
  /\ deny' = [deny EXCEPT ![a] = rejected]
  /\ at' = [at EXCEPT ![a] = 1]
  /\ Goto(a, "items")
  /\ UNCHANGED <<findings, files, yandex, view, created, dirty, ruling,
                 ghosts, since, aborts>>

\* The applier is at an item of its loop.
AtItem(a) == pc[a] = "items" /\ at[a] \in DOMAIN view[a]
Current(a) == view[a][at[a]]
\* Mutant: the loop skips an item.
Advance_Two(a) == at' = [at EXCEPT ![a] = @ + 2]

Advance(a) == at' = [at EXCEPT ![a] = @ + 1]

\* The run changes the current item in its copy.
Edit(a, it) == view' = [view EXCEPT ![a] = [@ EXCEPT ![at[a]] = it]]

\* Mutant: everything judged and not put on the backlog is denied.
ToDeny_AnyVerdict(it) == it.verdict \notin {NoVerdict, "backlog"} /\ ~it.marked

ToDeny(it) == it.verdict = "rejected" /\ ~it.marked
\* Mutant: confirmed findings are put in the calendar too.
ToSync_Confirmed(it) == it.verdict \in {"backlog", "confirmed"} /\ ~it.synced

ToSync(it) == it.verdict = "backlog" /\ ~it.synced

\* No verdict, nothing automated to do, or done by an earlier run.
ApplySkip(a) ==
  /\ AtItem(a)
  /\ ~ToDeny(Current(a)) /\ ~ToSync(Current(a))
  /\ Advance(a)
  /\ UNCHANGED <<findings, files, yandex, pc, view, deny, created, dirty,
                 ruling, ghosts, since, aborts>>

\* Mutant: the item is flagged but its source is not denied.
ApplyReject_MarkOnly(a) ==
  /\ AtItem(a)
  /\ ToDeny(Current(a))
  /\ Edit(a, [Current(a) EXCEPT !.marked = TRUE])
  /\ dirty' = [dirty EXCEPT ![a] = TRUE]
  /\ Advance(a)
  /\ UNCHANGED <<findings, files, yandex, pc, deny, created, ruling, ghosts,
                 since, aborts>>

ApplyReject(a) ==
  /\ AtItem(a)
  /\ ToDeny(Current(a))
  /\ deny' = [deny EXCEPT ![a] = @ \cup {Current(a).source}]
  /\ Edit(a, [Current(a) EXCEPT !.marked = TRUE])
  /\ dirty' = [dirty EXCEPT ![a] = TRUE]
  /\ Advance(a)
  /\ UNCHANGED <<findings, files, yandex, pc, created, ruling, ghosts, since, aborts>>

\* Mutant: entries made for any link count.
MadeThisRun_AnyLink(a, l) == created[a] # NoLinks

MadeThisRun(a, l) == created[a][l] # NoUids

\* Mutant: the shared event is not copied.
ApplyDedup_NoEvent(a) ==
  LET uids == created[a][extractLink(Current(a))] IN
  /\ AtItem(a)
  /\ ToSync(Current(a))
  /\ MadeThisRun(a, extractLink(Current(a)))
  /\ Edit(a, [Current(a) EXCEPT !.task = uids.task, !.synced = TRUE])
  /\ dirty' = [dirty EXCEPT ![a] = TRUE]
  /\ Advance(a)
  /\ UNCHANGED <<findings, files, yandex, pc, deny, created, ruling,
                 ghosts, since, aborts>>

\* Another item of this run had the same link: its entries are shared.
ApplyDedup(a) ==
  LET uids == created[a][extractLink(Current(a))] IN
  /\ AtItem(a)
  /\ ToSync(Current(a))
  /\ MadeThisRun(a, extractLink(Current(a)))
  /\ Edit(a, [Current(a) EXCEPT !.task = uids.task, !.event = uids.event,
                                !.synced = TRUE])
  /\ dirty' = [dirty EXCEPT ![a] = TRUE]
  /\ Advance(a)
  /\ UNCHANGED <<findings, files, yandex, pc, deny, created, ruling,
                 ghosts, since, aborts>>

\* The calendar stores an entry for the current item; its UID is new.
Creates(a, kind) ==
  /\ Len(yandex) < MaxCalls
  /\ yandex' = Append(yandex, [kind |-> kind, link |-> extractLink(Current(a))])

\* The applier is about to call yandex.sh for a task.
WantsTask(a) == /\ AtItem(a)
                /\ ToSync(Current(a))
                /\ ~MadeThisRun(a, extractLink(Current(a)))

ApplyTask(a) ==
  /\ WantsTask(a)
  /\ Creates(a, "task")
  /\ Edit(a, [Current(a) EXCEPT !.task = Len(yandex')])
  /\ Goto(a, "event")
  /\ UNCHANGED <<findings, files, deny, at, created, dirty, ruling,
                 ghosts, since, aborts>>

\* Mutant: the run does not notice that it has something to save.
ApplyEvent_Clean(a) ==
  /\ pc[a] = "event"
  /\ Creates(a, "event")
  /\ Edit(a, [Current(a) EXCEPT !.event = Len(yandex'), !.synced = TRUE])
  /\ created' = [created EXCEPT ![a][extractLink(Current(a))] =
                   [task |-> Current(a).task, event |-> Len(yandex')]]
  /\ Advance(a)
  /\ Goto(a, "items")
  /\ UNCHANGED <<findings, files, deny, dirty, ruling, ghosts, since, aborts>>

ApplyEvent(a) ==
  /\ pc[a] = "event"
  /\ Creates(a, "event")
  /\ Edit(a, [Current(a) EXCEPT !.event = Len(yandex'), !.synced = TRUE])
  /\ created' = [created EXCEPT ![a][extractLink(Current(a))] =
                   [task |-> Current(a).task, event |-> Len(yandex')]]
  /\ dirty' = [dirty EXCEPT ![a] = TRUE]
  /\ Advance(a)
  /\ Goto(a, "items")
  /\ UNCHANGED <<findings, files, deny, ruling, ghosts, since, aborts>>

\* yandex.sh fails, or succeeds and prints no UID: the run returns at once,
\* and neither file is written, whatever the run had done before.
YandexFails(a) ==
  /\ aborts < MaxAborts
  /\ \/ /\ WantsTask(a)
        /\ UNCHANGED yandex \/ Creates(a, "task")
     \/ /\ pc[a] = "event"
        /\ UNCHANGED yandex \/ Creates(a, "event")
  /\ aborts' = aborts + 1
  /\ UNCHANGED <<findings, files, ghosts>>
  /\ Exit(a)

\* The loop is over: the denylist is saved first, changed or not.
ApplySaveDenylist(a) ==
  /\ pc[a] = "items" /\ at[a] \notin DOMAIN view[a]
  /\ rejected' = deny[a]
  /\ UNCHANGED <<findings, pending, yandex, ghosts, aborts>>
  /\ \/ /\ dirty[a]
        /\ Goto(a, "write")
        /\ UNCHANGED <<view, deny, at, created, dirty, ruling, since>>
     \/ /\ ~dirty[a]
        /\ Exit(a)

ApplySavePending(a) ==
  /\ pc[a] = "write"
  /\ pending' = view[a]
  /\ UNCHANGED <<findings, rejected, yandex, ghosts, aborts>>
  /\ Exit(a)

Apply(a) == \/ ApplyLoad(a) \/ ApplyReadDenylist(a)
            \/ ApplySkip(a) \/ ApplyReject(a) \/ ApplyDedup(a)
            \/ ApplyTask(a) \/ ApplyEvent(a) \/ YandexFails(a)
            \/ ApplySaveDenylist(a) \/ ApplySavePending(a)

-----------------------------------------------------------------------------
(* A program is killed, or an I/O error ends it.  A rename is atomic, so a *)
(* file is the old one or the new one, never a part.                       *)

Crash(p) == /\ pc[p] # "idle"
            /\ aborts < MaxAborts
            /\ aborts' = aborts + 1
            /\ UNCHANGED <<findings, files, yandex, ghosts>>
            /\ Exit(p)

Next == \/ \E u \in Urls : Scan(u)
        \/ \E b \in Bridges : Bridge(b)
        \/ \E s \in Setters : Set(s)
        \/ \E a \in Appliers : Apply(a)
        \/ \E p \in Procs : Crash(p)

Spec == Init /\ [][Next]_vars

\* The nightly timer starts the applier whether or not others keep running
\* (strong fairness: in the non-overlapping regime they come and go), and a
\* program that has been started is run to its end.
FairSpec == /\ Spec
            /\ \A a \in Appliers : /\ SF_vars(ApplyLoad(a))
                                   /\ WF_vars(Apply(a) /\ pc[a] # "idle")
            /\ \A b \in Bridges : WF_vars(Bridge(b) /\ pc[b] # "idle")
            /\ \A s \in Setters : WF_vars(SetWrite(s))

-----------------------------------------------------------------------------
(* Properties.                                                             *)

\* Type invariant.
TypeOK ==
  /\ findings \subseteq Urls
  /\ pending \in Seq(Item)
  /\ rejected \subseteq Urls
  /\ yandex \in Seq(Entry)
  /\ pc \in [Procs -> {"idle", "denylist", "findings", "items", "event", "write"}]
  /\ view \in [Procs -> Seq(Item)]
  /\ deny \in [Procs -> SUBSET Urls]
  /\ at \in [Procs -> Nat]
  /\ \A a \in Appliers : pc[a] \in {"items", "event"} =>
        at[a] \in 1..(Len(view[a]) + 1)
  /\ created \in [Procs -> [Links -> [task : Nat, event : Nat]]]
  /\ dirty \in [Procs -> BOOLEAN]
  /\ ruling \in [Procs -> {NoRuling} \cup [source : Urls, verdict : Verdicts]]
  /\ said \subseteq Urls \X Verdicts
  /\ last \in [Urls -> Verdicts \cup {NoVerdict}]
  /\ since \in [Procs -> SUBSET Urls]
  /\ aborts \in Nat

Distinct(items) == \A i, j \in DOMAIN items :
                      items[i].source = items[j].source => i = j

\* However the programs interleave, no source is ever listed twice: every
\* version of the file extends or edits one that had no duplicates
\* (AppendNewFindings dedups against the copy it extends).
UniqueSources == Distinct(pending)

\* An item marked rejected_marked has its source on the denylist, at every
\* moment of every interleaving with one applier: the flag makes later runs
\* skip the item, so a flag saved without the denylist would lose the
\* rejection for good (TriageApply saves rejected.json first).
MarkedIsDenied == \A i \in DOMAIN pending :
                     pending[i].marked => pending[i].source \in rejected

\* An item flagged yandex_synced carries the UIDs of a task and an event that
\* exist and are for its own link, also when they were shared by the dedup of
\* one run (TriageApply, createdLinks).
Backed(it) == /\ it.task \in DOMAIN yandex /\ it.event \in DOMAIN yandex
              /\ yandex[it.task] = [kind |-> "task", link |-> LinkOf[it.source]]
              /\ yandex[it.event] = [kind |-> "event", link |-> LinkOf[it.source]]
SyncedIsBacked == \A i \in DOMAIN pending : pending[i].synced => Backed(pending[i])

\* Nothing happens that no reviewer asked for: a verdict in the file, a source
\* on the denylist and a calendar entry each answer a verdict some reviewer
\* was told had been recorded (TriageSet, TriageApply).
OnlyWhatWasSaid ==
  /\ \A i \in DOMAIN pending : pending[i].verdict # NoVerdict =>
        <<pending[i].source, pending[i].verdict>> \in said
  /\ \A u \in rejected : <<u, "rejected">> \in said
  /\ \A k \in DOMAIN yandex : \E u \in Urls :
        LinkOf[u] = yandex[k].link /\ <<u, "backlog">> \in said

\* With one applier the denylist only grows, whatever else runs meanwhile:
\* TriageApply replaces rejected.json by what it read plus what it added.
DenylistGrows == [][rejected \subseteq rejected']_rejected

\* An entry is still about its source, keeps its flags, and once it is flagged
\* synced the UIDs it has.
Keeps(old, new) ==
  /\ new.source = old.source
  /\ old.marked => new.marked
  /\ old.synced => new.synced /\ new.task = old.task /\ new.event = old.event

\* And its verdict is what it was, or what program p was asked to record.
Follows(p, asked, old, new) ==
  /\ Keeps(old, new)
  /\ \/ new.verdict = old.verdict /\ new.reviewed = old.reviewed
     \/ /\ p \in Setters /\ new.reviewed
        /\ asked = [source |-> old.source, verdict |-> new.verdict]

\* However many programs run at once, and wherever they die: whoever replaces
\* pending_review.json leaves every entry at its place in the list, where a
\* verdict given by position finds it, with its flags and its verdict -- but for
\* the verdict it was asked to record, and for entries that another program has
\* written since this one loaded the file.
OnlyOldCopiesUndo ==
  [][\E p \in Procs :
       /\ pc[p] = "write" /\ pc'[p] = "idle"
       /\ \A i \in DOMAIN pending :
            \/ pending[i].source \in since[p]
            \/ i \in DOMAIN pending' /\ Follows(p, ruling[p], pending[i], pending'[i])]_pending

-----------------------------------------------------------------------------
(* What a comment of the code says, and overlapping runs do not keep.      *)

\* bridge.go: the bridge "never rewrites existing entries, so the Mongoose
\* agent's reviewed:true updates are preserved across bridge runs".
ReviewedPreserved ==
  [][\A i \in DOMAIN pending : pending[i].reviewed =>
       \E j \in DOMAIN pending' : /\ pending'[j].source = pending[i].source
                                  /\ pending'[j].reviewed]_pending

-----------------------------------------------------------------------------
(* Properties of runs that do not overlap.                                 *)

\* The reviewer's last acknowledged word on a source is what the file says,
\* through bridges, appliers, failures and crashes.
LastWordStands ==
  \A u \in Urls : last[u] # NoVerdict =>
     \E i \in DOMAIN pending : pending[i].source = u /\ pending[i].verdict = last[u]

\* A denied source is never put before the reviewer again: if it is listed,
\* it is listed as reviewed (ComputeBridge drops denied findings).
NeverReoffered == \A i \in DOMAIN pending :
                     pending[i].source \in rejected => pending[i].reviewed

\* A task in the calendar that no item refers to, in the file or in the
\* memory of a running applier.
Refers(items, k) == \E i \in DOMAIN items : items[i].task = k
Orphans(l) == {k \in DOMAIN yandex :
                 /\ yandex[k] = [kind |-> "task", link |-> l]
                 /\ ~Refers(pending, k)
                 /\ \A a \in Appliers : ~Refers(view[a], k)}

\* Re-running triage-apply after a failure may create an entry again, but a
\* run that fails or dies leaves at most one orphan task per link.
OrphansBounded == \A l \in Links : Cardinality(Orphans(l)) <= aborts

\* The pipeline implements ReviewQueue.
VerdictOf(u) == IF \E i \in DOMAIN pending : pending[i].source = u
                THEN (CHOOSE it \in {pending[i] : i \in DOMAIN pending} :
                        it.source = u).verdict
                ELSE NoVerdict
Queue == INSTANCE ReviewQueue
           WITH Unreviewed <- NoVerdict,
                offered <- Sources(pending),
                verdict <- [u \in Urls |-> VerdictOf(u)],
                denied  <- rejected,
                synced  <- {pending[i].source :
                              i \in {j \in DOMAIN pending : pending[j].synced}}
ImplementsQueue == Queue!Spec

\* A recorded verdict is executed: a rejection reaches the denylist and a
\* backlog item the calendar, unless the reviewer changes the verdict first.
Stands(u, v) == \E i \in DOMAIN pending :
                   pending[i].source = u /\ pending[i].verdict = v
IsSynced(u) == \E i \in DOMAIN pending : pending[i].source = u /\ pending[i].synced
VerdictsExecuted ==
  \A u \in Urls :
    /\ Stands(u, "rejected") ~> (u \in rejected \/ ~Stands(u, "rejected"))
    /\ Stands(u, "backlog") ~> (IsSynced(u) \/ ~Stands(u, "backlog"))
=============================================================================
