SPECIFICATION LiveSpec
CONSTANTS
  Commands = {"console", "listen", "reset", "ping"}
  Markers = {TRUE, FALSE}
  Timeouts <- WaitingTimeouts
  HandshakeTimeout = 1
  PingTimeout = 1
  Resend = 1
  Drain = 1
  Horizon = 1
  Statuses = {}
  MaxFd = 1
  StaleFds = {}
  MaxOutputs = 1
  MaxRequests = 1
  Endless = TRUE
PROPERTIES LossEndsRun MarkerEndsRun TimeoutEndsRun SilenceEndsRun
