SPECIFICATION BrowserSpec
CONSTANTS
  t1 = t1 t2 = t2 t3 = t3 w1 = w1 w2 = w2
  Task = {t1, t2, t3}
  Worker = {w1}
  None = None
  Home <- OneWorker
  NumPorts = 2
  MaxProcesses = 2
  MaxCancels = 2
  MaxFaults = 1
  Modes <- MCModes
  Answers <- MCGenerated
  MaxSteps = 3
  MaxParseFailures = 2
  JudgeImages = 2
  EvalTask = {t1, t2}
  Protocols = {"slime", "browser_env", "webvoyager", "online_mind2web", "deepshop"}
  Episodes <- MCEpisodes
  Replies <- MCReplies
  Parallel = 2
  JudgeSlots = 1
  MaxFailures = 4
  MaxTimeouts = 1
  NumRecords = 3
  Shards = 2
  Judges = {"api", "native", "webjudge"}
  BatchSize = 2
  Concurrency = 2
  Texts <- MCTexts
  Refusable <- MCRefusable
  MaxRetries = 2
  MaxRuns = 3
  StartTabs = 2
  MaxTabs = 3
  MaxActions = 2
  MaxClosed = 1
  Page = {p1, p2}
  FirstPage = p1
  MaxNavs = 3
  MaxSettles = 2
  Checks = 3
INVARIANTS
  FreshServer
  LeaseOutlivesServer
  TranscriptExact
  VerdictsExact
  TabsInHand
  ViewSettled
