------------------------------- MODULE Scraper -------------------------------
(***************************************************************************)
(* internal/scraper: RunScraper asks the enabled sources of                *)
(* config/sources.json one after the other, and each adds what it finds.   *)
(*                                                                         *)
(* A finding is its title, its URL and the first flaw a filter would see   *)
(* in it; the first two are what a finding is recognized by, for no        *)
(* scraper fills in a provider.  Which posts, stories, lines and hits there *)
(* are, and which of them speak of a free API, is left open.               *)
(***************************************************************************)
EXTENDS Integers, Sequences

CONSTANTS Titles,     \* titles of posts, stories, links and sections
          Mention,    \* "Web page mention", the title of every such finding
          Urls,       \* what posts, stories, links and hits point to, and pages
          NoUrl,      \* the empty URL: a story without a link
          Feeds,      \* the sources of config/sources.json
          RequireURL, \* quality_threshold.require_url of config/filters.json
          MaxRaw      \* bound on how much is found

Kinds == {"reddit", "github", "github_raw", "web_page", "hackernews", "search"}

ASSUME ScraperType ==
  /\ NoUrl \notin Urls
  /\ Feeds \in Seq([kind : Kinds, page : Urls, enabled : BOOLEAN])
  /\ RequireURL \in BOOLEAN
  /\ MaxRaw \in Nat

\* An "early" flaw is one looked for before the URL is looked up (too short, no
\* URL, excluded domain or provider, trash source), a "late" one is looked for
\* after it (spam, keyword, too old).
Flaws == {"none", "early", "late"}
Links == Urls \cup {NoUrl}
Fingerprints == [title : Titles \cup {Mention}, url : Links]
Findings == [print : Fingerprints, flaw : Flaws]

VARIABLES feeds, \* the sources of this run
          feed,  \* the one being asked
          raw    \* what they gave so far, in order

scraperVars == <<feeds, feed, raw>>

ScraperInit == feeds = << >> /\ feed = 1 /\ raw = << >>

\* loadAllConfig: every source, or with -source the one of that name.
ReadSources == /\ feeds' \in {Feeds} \cup {<<Feeds[i]>> : i \in DOMAIN Feeds}
               /\ UNCHANGED <<feed, raw>>

Named(titles, urls) == [title : titles, url : urls]

\* ScrapeReddit: the posts with a keyword; a permalink is never empty.
RedditPosts == Named(Titles, Urls)

\* ScrapeGitHubREADME: a line with a link, or one that goes by the title of its
\* section and the URL of the README.
ReadmeLines(page) == Named(Titles, Urls) \cup Named(Titles, {page})

\* ScrapeWebPage: every mention on a page has the same title and URL.
PageMentions(page) == Named({Mention}, {page})

\* ScrapeHackerNews: a story may have no link.
Stories == Named(Titles, Links)

\* ScrapeSearch: a hit without a valid URL is passed over.
SearchHits == Named(Titles, Urls)

Yields(src) == CASE src.kind = "reddit" -> RedditPosts
                 [] src.kind \in {"github", "github_raw"} -> ReadmeLines(src.page)
                 [] src.kind = "web_page" -> PageMentions(src.page)
                 [] src.kind = "hackernews" -> Stories
                 [] src.kind = "search" -> SearchHits

Asking == feed <= Len(feeds)

\* The source gives a finding.
Found(f) == /\ Asking /\ feeds[feed].enabled
            /\ Len(raw) < MaxRaw
            /\ f.print \in Yields(feeds[feed])
            /\ RequireURL /\ f.print.url = NoUrl => f.flaw = "early"
            /\ raw' = Append(raw, f)
            /\ UNCHANGED <<feeds, feed>>

\* It has no more, has failed, or is disabled.
NextFeed == /\ Asking
            /\ feed' = feed + 1
            /\ UNCHANGED <<feeds, raw>>

ScraperTypeOK == /\ feeds \in Seq([kind : Kinds, page : Urls, enabled : BOOLEAN])
                 /\ feed \in 1..(Len(feeds) + 1)
                 /\ raw \in Seq(Findings) /\ Len(raw) <= MaxRaw
=============================================================================
