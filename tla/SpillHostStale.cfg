CONSTANTS
  Identity = {f1, f2}
  Lengths = {1, 2}
  Picture = {before, after}
  MaxEnd = 3
  MaxGeneration = 3
  StaleIndex = TRUE
  NoSlot = NoSlot
  Unreadable = Unreadable
  Nobody = Nobody
  NoCopy = NoCopy
  Torn = Torn
  Strange = Strange
SYMMETRY Interchangeable
SPECIFICATION HostSpec
INVARIANT NoStrangersPixels
