SPECIFICATION Spec
CONSTANTS
  Commands = {"listen"}
  Markers = {FALSE}
  Timeouts = {1}
  HandshakeTimeout = 2
  PingTimeout = 2
  Resend = 1
  Drain = 1
  Horizon = 2
  Statuses = {1}
  MaxFd = 2
  StaleFds = {}
  MaxOutputs = 0
  MaxRequests = 1
  Endless = FALSE
INVARIANT StatusIsListed
