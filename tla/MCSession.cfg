SPECIFICATION SessionSpec
CONSTANTS
  Commands = {"execee", "ping", "listen", "console"}
  Markers = {TRUE, FALSE}
  Timeouts <- AllTimeouts
  HandshakeTimeout = 2
  PingTimeout = 2
  Resend = 1
  Drain = 1
  Horizon = 2
  Statuses = {300}
  MaxFd = 2
  StaleFds = {}
  MaxOutputs = 2
  MaxRequests = 2
  Endless = FALSE
INVARIANTS TypeOK CommandAfterDump NoFlood LostIsReal
PROPERTY ExitTellsTheStory
