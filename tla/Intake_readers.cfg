\* Payloads of two changes and three items; three calls for two numbers; all
\* suffixes of four letters K, F, T, A followed by AA, one stray separator;
\* amounts of one to seven digits, in groups or not, with cents or a sign.
SPECIFICATION IntakeSpec
CONSTANTS
  None = None
  MessageIds = {m1, m2}
  Senders = {u1, u2}
  Profiles = {n1}
  MaxItems = 3
  MaxChanges = 2
  Calls = {c1, c2, c3}
  WaIds <- SomeWaIds
  Ids = {i1, i2, i3}
  Names = {"Ada", "Awa"}
  UpperOf <- SomeUpperOf
  Drawable <- SomeSuffixes
  MaxSeparators = 1
  Meant <- SomeAmounts
  Raised = Raised
SYMMETRY Symmetry
INVARIANTS
  NameIsOwn
  CodeOrNothing
  AmountReadExactly
  OneUserPerPhone
  CallersAgree
PROPERTIES
  OneMoreEvent
CHECK_DEADLOCK FALSE
