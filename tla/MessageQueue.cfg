\* Two producers and a ring of two slots that wraps.
SPECIFICATION Spec
CONSTANTS
  Producers = {p1, p2}
  MaxMessages = 2
  NULL = NULL
  SpuriousWakeups = TRUE
  PostBound = 4
INVARIANTS
  NeverSleepsOnMessages
PROPERTIES
  ImplementsMailbox
  MessagesAreTaken
