------------------------------- MODULE Filter -------------------------------
(***************************************************************************)
(* The Engine of internal/filter: of what the scraper found it drops what  *)
(* is seen twice or not worth keeping, in one pass.                        *)
(***************************************************************************)
EXTENDS Scraper

CONSTANT UrlsUnique  \* dedup.check_url_uniqueness of config/filters.json

ASSUME FilterType == UrlsUnique \in BOOLEAN

Reasons == {"duplicate", "early", "duplicate_url", "late", "kept"}

VARIABLES reason,     \* what became of the findings filtered so far
          seenPrints, \* Engine.seenFingerprints
          seenURLs    \* Engine.seenURLs; stays empty unless UrlsUnique

engineVars == <<reason, seenPrints, seenURLs>>

EngineInit == reason = << >> /\ seenPrints = {} /\ seenURLs = {}

Url(f) == f.print.url

\* The finding gets as far as the lookup of its URL.
Passes(f) == f.print \notin seenPrints /\ f.flaw # "early"
UrlSeen(f) == UrlsUnique /\ Url(f) \in seenURLs

Verdict(f) ==
  CASE f.print \in seenPrints -> "duplicate"
    [] f.print \notin seenPrints /\ f.flaw = "early" -> "early"
    [] Passes(f) /\ UrlSeen(f) -> "duplicate_url"
    [] Passes(f) /\ ~UrlSeen(f) /\ f.flaw = "late" -> "late"
    [] Passes(f) /\ ~UrlSeen(f) /\ f.flaw = "none" -> "kept"

\* Mutant: only a finding that is kept marks its URL as seen.
ApplyFilters_MarkKept ==
  /\ Len(reason) < Len(raw)
  /\ LET f == raw[Len(reason) + 1]
     IN  /\ reason' = Append(reason, Verdict(f))
         /\ seenPrints' = seenPrints \cup {f.print}
         /\ seenURLs' = IF UrlsUnique /\ Verdict(f) = "kept"
                          THEN seenURLs \cup {Url(f)} ELSE seenURLs
  /\ UNCHANGED scraperVars

\* applyFilters on the next finding.
ApplyFilters ==
  /\ Len(reason) < Len(raw)
  /\ LET f == raw[Len(reason) + 1]
     IN  /\ reason' = Append(reason, Verdict(f))
         /\ seenPrints' = seenPrints \cup {f.print}
         /\ seenURLs' = IF UrlsUnique /\ Passes(f)
                          THEN seenURLs \cup {Url(f)} ELSE seenURLs
  /\ UNCHANGED scraperVars

\* FilterFindings returns: the fingerprints of what was kept.
Filtered == Len(reason) = Len(raw)
Kept == {raw[i].print : i \in {j \in DOMAIN reason : reason[j] = "kept"}}

-----------------------------------------------------------------------------
(* Properties.                                                             *)

EngineTypeOK == /\ reason \in Seq(Reasons) /\ Len(reason) <= Len(raw)
                /\ seenPrints \subseteq Fingerprints /\ seenURLs \subseteq Links

\* What decides about a finding, told by the findings alone: the first of its
\* fingerprint counts, and of the first ones without an early flaw the first
\* with its URL -- whether or not that one was kept.  So a late flaw in one
\* finding drops a good one with the same URL, of a web page at most the first
\* mention is kept, and a finding is dropped only for its own flaw or for an
\* earlier finding.
First(i) == \A j \in 1..(i - 1) : raw[j].print # raw[i].print
Reaches(i) == First(i) /\ raw[i].flaw # "early"
FirstOfUrl(i) == UrlsUnique =>
  \A j \in 1..(i - 1) : Reaches(j) => Url(raw[j]) # Url(raw[i])
FirstDecides ==
  \A i \in DOMAIN reason :
    /\ reason[i] = "duplicate" <=> ~First(i)
    /\ reason[i] = "duplicate_url" <=> Reaches(i) /\ ~FirstOfUrl(i)
    /\ reason[i] = "kept" <=> Reaches(i) /\ FirstOfUrl(i) /\ raw[i].flaw = "none"
=============================================================================
