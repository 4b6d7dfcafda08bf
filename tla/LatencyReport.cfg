\* Two clients with two workers each.
CONSTANTS
  a = a
  b = b
  Clients <- MCClients
  Vectors <- MCVectors
SPECIFICATION SpecReport
INVARIANTS SummaryExact FileAgainstConsole ScriptsAgree JainIndexInRange
