CONSTANTS
  client = client
  a = a
  b = b
  c = c
  d = d
  d1 = d1
  d2 = d2
  d3 = d3
  Sizes = {1, 3}
  Payload = 2
  SendAtOnce = 4
  MaxSendBuffer = 5
  SeqnoWrapVal = 30000
  SeqnoWrapGap = 5000
  FirstSeqno = 29998
  Modes <- TwoModes
  MaxMessages = 3
  MaxPackets = 2
  HubClients = {a, b}
  HubServer = c
  HubMessages = 1
  Deputies = {d1, d2, d3}
  DiscoveryTicks = 3
  DiscoveryLosses = 1
  RingBytes = {0, 1}
  RingSize = 2
  Capacities = {0, 2, 3}
  MaxAdds = 5
  Handlers = {a, b}
  Priorities = {1, 2}
  Distances <- SomeDistances
  DrawnFrames = {a, b}
  Bookmarks = {1}
  Remembered <- SomeViews
  MinDist = 1
  MaxDist = 2
  Decimate = 1
  Room = 2
  MaxTimers = 2
  MaxPath = 2
  MaxActions = 3
  SplicedLogs <- SomeLogs
  MostLogs = 2
  SpliceOptions <- SomeOptions
  MovedFrames = {a, b}
  TopFrame = c
  NoFrame = d
  Coords = {1, 2}
  SliderValues = {0, 1}
  MostChanges = 3
  MostOthers = 1
  MostUnheard = 1
  Machines <- SomeMachines
  KillSignal = "SIGKILL"
  StopSignals = {"SIGINT", "SIGKILL"}
  MostSignals = 1
  Clients = {client}
  MaxServers = 2
  File <- OneLeaf
  Entries <- SomeEntries
  Unreadable = {"#"}
  MaxSets = 2
  MaxInFlight = 2
SPECIFICATION LibrariesSpec
INVARIANTS TypeOK OverridesStick Transparent OthersHearItOnce TransformsAreRight
  AtMostOneServes KeepsTheNewest ControlsMoveTheFrame ModelsAreWhole CommandsRunAsAsked KillsItsOwn
  PickerGoesFirst NoRedrawForgotten WrittenIsReadBack ReachesTheBookmark ShowsWhatIs
  SplicesInOrder
PROPERTIES CopiesOfOneServer ComeToRest IsAQueue SavedComesBack
CHECK_DEADLOCK FALSE
