CONSTANTS
  None = None
  MenuInputs <- MCMenuInputs
  PageInputs <- MCPageInputs
  PlayerInputs <- MCPlayerInputs
  YouTubeInputs <- MCYouTubeInputs
  YtdlpInputs <- MCYtdlpInputs
  Installed <- MCInstalled
  MaxPads = 3
SPECIFICATION Spec
INVARIANTS SteadyIfAny DecoysAreAvoided PlayerResponseWhole PictureAndSound StreamsArePlayed
CHECK_DEADLOCK FALSE
