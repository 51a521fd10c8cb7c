SPECIFICATION Spec
CONSTANTS
  Transports = {"stdin", "tcp", "tls"}
  Lines = {"START", "STOP", "OFF", "SCALE=C", "PERIOD=2", "PERIOD=10", "LOG OFF"}
  MaxLines = 2
  BufSize = 6
  MaxUnread = 2
  Misread = 7
INVARIANTS
  TypeOK
  OneLateReport
  LogInOrder
  CommandsObeyed
PROPERTIES
  ShutdownLogged
  InputRead
  PeerGoneEnds
CHECK_DEADLOCK FALSE
