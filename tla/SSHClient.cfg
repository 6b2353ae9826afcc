\* Two nodes, two commands each; every call may fail.
SPECIFICATION Spec
CONSTANTS
  NodeCount = 2
  MaxCommands = 2
  Faults = {"init", "socket", "connect", "session", "handshake", "knownhosts", "hostkey", "authenticate", "channel", "exec", "lose"}
INVARIANTS
  AuthenticatedCommands
  AllConnected
  LeaksOnce
  ClosedAtEnd
  NoSessionLost
