\* Two generations that overlap, under the fairness of the two dispatchers.
SPECIFICATION FairSpec
CONSTANTS
  Chats = {a, b}
  MaxChunks = 2
  NoChat = NoChat
INVARIANTS TypeOK OneLiveGeneration QuiescentScreen WholeAnswerShown
PROPERTY StreamingEnds
