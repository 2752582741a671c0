---------------------------- MODULE ReviewQueue ----------------------------
(***************************************************************************)
(* What the review pipeline of internal/notify promises, with no files, no *)
(* processes and no partial work: findings are offered to a human reviewer *)
(* once, the reviewer's last word on each of them stands, sources the      *)
(* reviewer rejected are denied, and those put on the backlog are synced   *)
(* to the calendar.  Triage.tla is the detailed counterpart.               *)
(***************************************************************************)
CONSTANTS Urls,      \* the source URLs of the findings
          Verdicts,  \* what a reviewer may say
          Unreviewed \* the verdict of an offered finding nobody has judged

VARIABLES offered,   \* the sources the reviewer has been shown
          verdict,   \* the reviewer's last word on each source
          denied,    \* the sources that are never offered again
          synced     \* the sources with a calendar entry

queueVars == <<offered, verdict, denied, synced>>

Init == /\ offered = {}
        /\ verdict = [u \in Urls |-> Unreviewed]
        /\ denied = {}
        /\ synced = {}

\* New findings are shown to the reviewer, never one already shown or denied.
Offer == \E S \in SUBSET (Urls \ (offered \cup denied)) :
            /\ offered' = offered \cup S
            /\ UNCHANGED <<verdict, denied, synced>>

\* The reviewer speaks, or changes their mind.
Judge == \E u \in offered, v \in Verdicts :
            /\ verdict' = [verdict EXCEPT ![u] = v]
            /\ UNCHANGED <<offered, denied, synced>>

\* Some of the sources that stand rejected are put on the denylist.
Deny == \E S \in SUBSET {u \in offered : verdict[u] = "rejected"} :
            /\ denied' = denied \cup S
            /\ UNCHANGED <<offered, verdict, synced>>

\* Some of the sources that stand on the backlog are recorded as synced.
Sync == \E S \in SUBSET {u \in offered : verdict[u] = "backlog"} :
            /\ synced' = synced \cup S
            /\ UNCHANGED <<offered, verdict, denied>>

Next == Offer \/ Judge \/ Deny \/ Sync

Spec == Init /\ [][Next]_queueVars
=============================================================================
