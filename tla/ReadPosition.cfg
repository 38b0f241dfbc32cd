SPECIFICATION MessagingSpec
CONSTANTS
  Post = {p1}
  Mutation = {k1}
  NoMutation = NoMutation
  ReadCall = {c1, c2}
  Reader = {u1}
  MaxMessages = 2
  PageSize = 1
PROPERTY ReadPositionOnlyMovesForward
CHECK_DEADLOCK FALSE
