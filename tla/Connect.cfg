SPECIFICATION FairSpecConnect
CONSTANTS
  BusLinkTimeout = 1
  PingTimeout = 3
  MaxPings = 2
  a = a
  b = b
  c = c
  Nodes <- MCNodes
  Transports <- MCTransports
  Answers <- MCAnswers
  Natures <- MCNatures
  ListSize = 2
  BlacklistSize = 3
INVARIANT TypeOKConnect
PROPERTY GivenUpAfterProbes
PROPERTY BestFirst
PROPERTY DeadLinkGivenUp
PROPERTY ConnectsInTheEnd
