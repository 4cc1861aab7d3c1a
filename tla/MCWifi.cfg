\* The bring-up with every fault, quick and slow networks.
SPECIFICATION FairSpec
CONSTANTS
  home = home
  twin = twin
  guest = guest
  other = other
  short = short
  NoNetwork = NoNetwork
  Network = {home, twin, guest, other, short}
  SsidOf <- MCSsidOf
  Ssid <- MCSsid
  SsidMaxLen = 4
  Faults = {"device", "interface", "scan", "connect", "associate", "loss"}
  MaxFaults = 2
INVARIANTS RequestOfMatch OneRequest OkMeansConnected
PROPERTIES MovesOn ComesOnline
\* Nothing is left to do after the bring-up.
CHECK_DEADLOCK FALSE
