\* Two generations, an abort, resets and a close on one Colibri session.
SPECIFICATION FairSpec
CONSTANTS
  Clients = {a, b}
  Context = 3
  MaxTokens = 2
  Resetter = Resetter
  Nobody = Nobody
INVARIANTS TypeOK DecodesOwnPrompt AbortStops
PROPERTIES ConversationSpec MutexReturned
CHECK_DEADLOCK FALSE
