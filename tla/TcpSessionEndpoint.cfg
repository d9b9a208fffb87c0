\* The endpoint of a reply that carries data.
CONSTANTS
  Services <- MCServices
  Supports <- MCSupports
  Headers <- MCHeaders
  DataLength = 32
  MaxRequests = 2
  MaxConnections = 2
SPECIFICATION Spec
INVARIANT RepliesNameTheirEndpoint
