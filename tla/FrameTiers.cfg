SPECIFICATION EitherSpec
CONSTANTS
  MaxId = 2
  MaxPins = 2
  Sizes = {1, 2}
  Pixels = {zero, scene}
  Zeroed = zero
  HashOf <- MCHashOf
  Ceiling = 3
  HasSink = TRUE
  NoBytes = NoBytes
  NoFrame = NoFrame
  Lost = Lost
  Identity = {f1, f2}
  Lengths = {1, 2}
  Picture = {before, after}
  MaxEnd = 3
  MaxGeneration = 3
  StaleIndex = FALSE
  NoSlot = NoSlot
  Unreadable = Unreadable
  Nobody = Nobody
  NoCopy = NoCopy
  Torn = Torn
  Strange = Strange
SYMMETRY Interchangeable
INVARIANTS TypeOK BudgetExact CopyVouchedFor HashHonest IdentitiesFresh
INVARIANTS EveryByteInOneHand NoStrangersPixels
PROPERTIES PinOutlivesEveryCall KeepsEveryFrame TokenTellsTheTruth
