\* Two conversations one after the other, three messages at a time.
SPECIFICATION Spec
CONSTANTS
  Handlers = {h1, h2, h3}
  Texts <- AllTexts
  MaxConversations = 2
  None = None
SYMMETRY Symmetry
INVARIANTS
  OutcomesBounded
  DataMatchesStep
PROPERTIES
  VersionProtects
  GoneStaysGone
  RefinesWorkflow
CHECK_DEADLOCK FALSE
