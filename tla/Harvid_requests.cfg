SPECIFICATION Spec
CONSTANTS
  Senders = {t1, t2}
  Images = {i1, i2, i3}
  ImageKeys = {k1, k2}
  ImageSize = 1
  NoImage = NoImage
  FreedImage = FreedImage
  Movies <- MCMovies
  FrameNumbers = {0, 1, 2, 3, 4, 5, 6, 7}
  SeekWindow = 4
  Reseek = 3
  Bailout = 12
  OtherStream = OtherStream
  Nothing = Nothing
  BlackFrame = BlackFrame
  Files = {"a", "b", "gone", "denied", "broken", "up"}
  IdMax = 3
  CacheSize = 2
  Workers = {"w1", "w2"}
  RequestsOf <- MCRequestsOf
  MaxReads <- MCMaxReads
  OnDisk <- MCOnDisk
  Masks <- MCMasks
  RawLines = 1
  ImageLines = 1
  BodyChunks = 2
  WriteTimeout = 1
  NoFile = NoFile
  NoFrame = NoFrame
  NoRequest = NoRequest
  NoBody = NoBody
  Nodes <- MCNodes
  Entry <- MCEntry
  StartDirs = {0, 1, 3}
  IndexOptions = {{}, {"flat"}}
  IndexFormats = {"html", "json", "csv", "plain"}
  Preamble = Preamble
  Up = Up
  Foot = Foot
  FrameRates <- MCFrameRates
  Durations <- MCDurations
  NoLabel = NoLabel
INVARIANTS
  ImageBound ImageRefcnt HitIsRequested
  VidMapSound OneReply PinsReleased ReplyTruthful
  IndexComplete LabelSound
PROPERTIES
  SentImageStays ImagesAsAsked FrameAccurate SeekSucceeds SearchEnds RequestEnds
CHECK_DEADLOCK FALSE
