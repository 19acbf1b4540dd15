SPECIFICATION FFSpec
CONSTANTS
  Movies <- LateMovies
  FrameNumbers = {0, 1, 2, 3, 4, 5}
  SeekWindow = 4
  Reseek = 3
  Bailout = 12
  OtherStream = OtherStream
  Nothing = Nothing
  BlackFrame = BlackFrame
PROPERTIES AnswersExactly
