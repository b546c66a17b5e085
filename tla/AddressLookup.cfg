SPECIFICATION Spec
CONSTANTS
  NICs = {guest, sibling}
  MAC = guest
  NoMAC = nomac
  Addresses = {a1, a2}
  Odd = {v6}
  NoIP = noip
  Bridge = bridge
  Uplink = uplink
  NoExpiry = noexpiry
  LeaseTime = 1
  Interval = 2
  ReadTimeout = 1
  PollTimeout = 4
  LiveTimeout = 2
VIEW View
CHECK_DEADLOCK FALSE
INVARIANTS
  TypeOK
  SilenceIsBounded
PROPERTIES
  NotASiblings
  PollEnds
