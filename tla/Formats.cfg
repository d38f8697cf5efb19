CONSTANTS
  Adapter <- SomeAdapter
  Endpoints <- Urls
  Configs <- AllConfigs
  SomeBytes <- BytesTried
  VolumeTexts <- VolumesWritten
  Pcms <- SomePcms
  SomeSymbols <- SymbolsTried
  Words <- SomeWords
  Volumes = {0, 1, 33, 50, 99, 100}
  Lengths <- EdgeLengths
  MaxHarmed = 80
  Unicode <- SomeUnicode
  Beyond <- Pairs
  Phrases <- SomePhrases
  StatusCodes <- SomeStatuses
SPECIFICATION Spec
INVARIANTS
  ConfigArrives
  DamageNoticed
  AudioArrives
  SamplesKept
  FramesAgree
  MessagesRead
