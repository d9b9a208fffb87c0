\* Requests, replies and the loss of the connection.
CONSTANTS
  Services <- MCServices
  Supports <- MCSupports
  Headers <- MCHeaders
  DataLength = 32
  MaxRequests = 2
  MaxConnections = 2
SPECIFICATION Spec
INVARIANTS
  TypeOK
  RepliesInOrder
  RepliesTellTheTruth
  ListensOnlyWhenNotified
PROPERTIES
  ImplementsExchange
  ClosedIsNoticed
  Answered
