----------------------------- MODULE MCPipeline -----------------------------
(* Pipeline for TLC: one scan and the server; up to two findings from       *)
(* sources of every kind that share a URL; four models, two workers; TTS    *)
(* sources that share keys.                                                 *)
EXTENDS Pipeline, TLC

CONSTANTS scan, server, raven, post, mention, page, none,
          text1, text2, costly, image, w1, w2, tts, tts2, x1, x2

Confirmed == raven :> "confirmed"

NoFiles == {[providers |-> Absent, rows |-> [n \in Names |-> NoRow],
             findings |-> Absent, prints |-> {}, keyPool |-> Absent, keys |-> {}]}

Feed(kind, enabled) == [kind |-> kind, page |-> page, enabled |-> enabled]
AllKinds == <<Feed("web_page", TRUE), Feed("hackernews", TRUE), Feed("reddit", TRUE),
              Feed("github", TRUE), Feed("search", TRUE), Feed("github_raw", FALSE)>>

AllPrints == Fingerprints

Source(id, name, vault, cfg, limit) ==
  [id |-> id, name |-> name, vault |-> vault, config |-> cfg, limit |-> limit]

\* No source; one; a key listed twice; sources that draw on one another's keys.
Plans == {<< >>,
          <<Source(tts, tts, <<x1>>, <<x1>>, 1), Source(tts2, tts, << >>, << >>, 0)>>,
          <<Source(tts, tts, <<x1, x2>>, << >>, 1), Source(tts2, tts, << >>, << >>, 0),
            Source(tts2, tts, << >>, << >>, 0)>>,
          <<Source(tts, tts, <<x1>>, << >>, 2), Source(tts2, tts, <<x2>>, << >>, 0),
            Source(tts2, tts2, << >>, << >>, 0)>>}
=============================================================================
