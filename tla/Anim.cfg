SPECIFICATION Spec
CONSTANTS
  Harts = {h1, h2}
  FB_WIDTH = 5
  w = 2
  Speeds = {1, 2}
INVARIANT ScreenShowsBox
