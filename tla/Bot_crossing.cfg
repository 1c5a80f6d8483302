\* Two posts at a time of a user's three messages, one fault, while time passes.
SPECIFICATION Spec
CONSTANTS
  first = first
  help = help
  code = code
  confirm = confirm
  Events <- JoinEvents
  TextOf <- JoinTexts
  Batches <- JoinBatches
  Handlers = {h1, h2}
  MaxFaults = 1
  MaxConversations = 2
  None = None
SYMMETRY Symmetry
INVARIANTS
  TypeOK
  ActsOnce
  ReplyTruthful
