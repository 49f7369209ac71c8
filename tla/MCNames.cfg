CONSTANTS
  Agents = {a1, a2}
  Jobs = {d, s}
  Daemon = {d}
  Mixed = {}
  Kinds = {"dns", "lb"}
  MAX_EVENTS = 1
  MAX_PENDING = 1
  INBOX = 2
  MaxTrouble = 2
  UDP_MAX = 80
  EDNS_MAX = 110
  CLUSTERS <- MCClusters
  JobTables <- MCJobTables
  CnameSets <- MCCnameSets
  Questions <- MCQuestions
SPECIFICATION NameSpec
INVARIANTS WatchInv DnsInv
