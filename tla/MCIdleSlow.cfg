SPECIFICATION IdealSpec
CONSTANTS
  Commands = {"listen"}
  Markers = {FALSE}
  Timeouts = {2}
  HandshakeTimeout = 2
  PingTimeout = 2
  Resend = 2
  Drain = 1
  Horizon = 2
  Statuses = {}
  MaxFd = 1
  StaleFds = {}
  MaxOutputs = 0
  MaxRequests = 1
  Endless = FALSE
  SlowHandlers = TRUE
INVARIANT IdleOnlyWhenQuiet
