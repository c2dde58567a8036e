SPECIFICATION Spec
CONSTANTS
  AnchorFrames = 2
  MinShared = 3
  Unanchored = 4
  MinRepeatedAd = 2
  MaxMarker = 1
  MaxRemoved = 65
  Tolerance = 20
  Window = 2
  Hop = 1
  Near = 1
  MinAudioRun = 3
  MinAudioBreak = 2
  LineUpSlack = 1
  SearchMargin = 1
  SearchBudget = 9
  Hash <- MCHash
  Attempt = {a1, a2}
  Exit <- MCExit
  Direct = "direct"
  Countries <- MCCountries
  Content <- MCContent
  Download <- MCDownload
  Hosts <- MCHosts
  Blocks <- MCBlocks
  Feeds <- MCFeeds
  Show <- MCShow
  BatchSize = 2
  Budgets <- MCBudgets
INVARIANTS TypeOK CutsSound  
SYMMETRY MCSymmetry
CHECK_DEADLOCK FALSE
