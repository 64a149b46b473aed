\* Everything a person can do with the queue while one ticket is created.
SPECIFICATION FairSpec
CONSTANTS
  Status = {"resolved"}
  Word = {"vpn"}
  All = All
  Ticket <- Tickets
  FirstStatus = "open"
  PageSize = 1
  MaxPage = 2
  Address <- Addresses
  None = None
  Sent = Sent
  MaxMoves = 4
INVARIANTS
  PageOfTheseFilters
PROPERTIES
  QueueSettles
CHECK_DEADLOCK FALSE
