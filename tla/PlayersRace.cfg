SPECIFICATION Spec
CONSTANTS
  Pads = {p1, p2}
  Keyboard = Keyboard
  Script = Script
  None = None
  MaxPlayers = 2
  Frames = 2
  Events = 2
  Seconds = 1
  Setups <- MCTwoPolls
PROPERTY
  PlayersFollow
