SPECIFICATION Spec
CONSTANTS
  Pads = {p1, p2}
  Keyboard = Keyboard
  Script = Script
  None = None
  MaxPlayers = 2
  Frames = 2
  Events = 3
  Seconds = 1
  Setups <- MCSetups
INVARIANTS
  TypeOK
PROPERTIES
  ChoiceStands
  Settles
