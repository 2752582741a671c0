SPECIFICATION FairSpec
CONSTANTS
  scan = scan
  server = server
  raven = raven
  post = post
  mention = mention
  page = page
  none = none
  text1 = text1
  text2 = text2
  costly = costly
  image = image
  w1 = w1
  w2 = w2
  tts = tts
  tts2 = tts2
  x1 = x1
  x2 = x2
  Scans = {scan}
  Hunter = scan
  Server = server
  Names = {raven}
  Pollinations = raven
  ConfigNames = {raven}
  ConfigStatus <- Confirmed
  Statuses = {"confirmed", "expired", "verified"}
  Prints <- AllPrints
  Keys = {}
  Legacies <- NoFiles
  MaxFaults = 1
  MaxCrashes = 1
  MaxSets = 1
  Titles = {post}
  Mention = mention
  Urls = {page}
  NoUrl = none
  Feeds <- AllKinds
  RequireURL = FALSE
  UrlsUnique = TRUE
  MaxRaw = 2
  Entries = {text1, text2, costly, image}
  PaidOnly = {costly}
  NonText = {image}
  Workers = {w1, w2}
  NoEntry = NoEntry
  Speakers = {tts, tts2}
  SpeechKeys = {x1, x2}
  SpeechPlans <- Plans
CHECK_DEADLOCK FALSE
INVARIANTS
  PipelineTypeOK
  FirstDecides
  EachModelOnce
PROPERTIES
  RestsOnceOut
  ScanEnds
