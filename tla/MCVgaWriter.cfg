SPECIFICATION VgaSpec
CONSTANTS
  BUFFER_HEIGHT = 3
  BUFFER_WIDTH = 2
  Bytes = {10, 88}
  Strings <- MCStrings
  MaxText = 9
INVARIANT ScreenShowsText
