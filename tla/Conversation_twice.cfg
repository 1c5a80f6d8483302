\* Two confirmations of one conversation, a second conversation in between.
SPECIFICATION Spec
CONSTANTS
  Handlers = {h1, h2}
  Texts <- CreateTexts
  MaxConversations = 2
  None = None
INVARIANTS
  OneOutcomePerConversation
CHECK_DEADLOCK FALSE
