SPECIFICATION FairSpec
CONSTANTS
  Locals = {l1, l2}
  Links = {c1, c2}
  MaxBinds = 2
  NoLink = NoLink
INVARIANTS
  NoOrphanLink
  OneOpenLink
PROPERTIES
  LiveLinkIsKept
  IdleLinkCloses
  OffEndsAll
CHECK_DEADLOCK FALSE
