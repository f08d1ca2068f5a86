SPECIFICATION FairSpec
CONSTANTS
  MaxInitAttempts = 2
  SendResults = {"OK", "RESOURCES", "WRITE"}
  MaxId = 3
  MaxInbox = 3
INVARIANTS TypeOK SessionsAgree AnnouncedAfterReply
PROPERTIES Announces
