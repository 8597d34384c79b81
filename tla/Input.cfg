SPECIFICATION Spec
CONSTANTS
  ps = ps
  left = left
  cross = cross
  square = square
  Key = {ps, left, cross, square}
  Turbo = {square}
  MenuToggle = {ps}
  GameRewind = {ps, left}
  SaveState = {ps, square}
  ExitGame = {ps, cross}
  Enter = {cross}
PROPERTIES ChordsDoNotToggle ToggleIsHeeded
