SPECIFICATION IdealSpec
CONSTANTS
  Commands = {"listen", "console"}
  Markers = {FALSE}
  Timeouts = {2}
  HandshakeTimeout = 2
  PingTimeout = 2
  Resend = 2
  Drain = 1
  Horizon = 2
  Statuses = {}
  MaxFd = 1
  StaleFds = {}
  MaxOutputs = 1
  MaxRequests = 2
  Endless = FALSE
  SlowHandlers = FALSE
INVARIANT IdleOnlyWhenQuiet
