SPECIFICATION Spec
CONSTANTS
  b1 = b1
  b2 = b2
  Radix = 8
  Narrow = 3
  Wide = 2
  Bots = {b1, b2}
  Files <- SmallFiles
  Foreign <- OtherStrings
  Long = 32
  Short = 8
  InlineIDs <- SmallInlineIDs
  ForeignTexts <- OtherTexts
  Self = 9
  Users = {1, 2}
  Groups = {5}
  Channels = {5, 7}
  Broadcasts = {5}
  ChannelBase = 100
  Containers <- SmallContainers
  MaxUpdates = 3
INVARIANTS
  FileIdsLeadBack
  PathsServeTheId
  UniqueIdsTellApart
  InlineIdsReadBack
  ChatsToldApart
  OnceKnownStaysKnown
CHECK_DEADLOCK FALSE
