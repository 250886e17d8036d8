SPECIFICATION MCSpec
CONSTANTS
  Ports <- MCPorts
  Bytes <- MCBytes
  Pattern = 1
  NoReply = NoReply
  Free = Free
INVARIANTS TypeOK VerdictsRight LoadsSeeSaves EmptySlotsUntouched MotorFollowsGame
PROPERTY ScriptsEnd
