\* Four kills or failures, a client, two browsers and two commands beside the
\* server: enough for both files to be torn and read again.
SPECIFICATION RestartFairSpec
CONSTANTS
  Keys = {k1, k2, k3, k4}
  Secrets = {x1, x2, x3, x4}
  Clients = {c1}
  Browsers = {b1, b2}
  Commands = {cmd1, cmd2}
  MaxFailures = 4
  Torn = Torn
  Absent = Absent
INVARIANT HostKeyStays
PROPERTIES ImplementsIdentity ServesAgain
