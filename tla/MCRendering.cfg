SPECIFICATION FairSpec
CONSTANTS
  SourceRates = {2, 5}
  SourceChannels = {0, 1, 2}
  DeviceRates = {2, 3}
  DeviceChannels = 2
  Unit = 6
  Err = 1
  MaxSamples = 4
  MaxBuffer = 2
  MaxElapsed = 7
  None = None
INVARIANTS
  TypeOK
  HeardWhole
PROPERTIES
  PlaysInTime
  SoundsEnd
