CONSTANTS
  ChunksPerPage = 2
  MaxChunkSize = 3
  MaxPages = 3
  DefaultPageSize = 4
  MaxVersionLen = 4
  Lengths = {1, 3, 4}
  MaxMsg = 3
  MaxHeader = 2
  MaxFlood = 2
  MaxControls = 2
  Replies <- TheReplies
  Old <- TheOld
  Torn <- TheTorn
SPECIFICATION Spec
INVARIANTS ReplyOrReason CeilingHeld FileIsWhole ImageAsStated SavedIsFetched
PROPERTIES CalledOffReturns
CHECK_DEADLOCK FALSE
