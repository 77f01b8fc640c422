\* A config entry with its session, polls, pushes, writes and Repair cards.
SPECIFICATION FairSpec
CONSTANTS
  Coded = {"water_flow", "compressor"}
  Flow = "water_flow"
  Debounce = 3
  Interval = 2
INVARIANTS
  NoOrphanSession
  CardsKnown
PROPERTIES
  PollsGoOn
  AvailabilityFollows
  FaultsSettle
