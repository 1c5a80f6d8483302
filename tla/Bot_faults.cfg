\* One post at a time of a user's four messages, one fault, restarts, expiry.
SPECIFICATION FairSpec
CONSTANTS
  first = first
  help = help
  code = code
  confirm = confirm
  Events <- HelpEvents
  TextOf <- HelpTexts
  Batches <- HelpBatches
  Handlers = {h1}
  MaxFaults = 1
  MaxConversations = 1
  None = None
PROPERTIES
  RefinesMessaging
  HandledIsSettled
