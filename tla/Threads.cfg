\* Main and one more thread, which is renamed, two messages, two requests of the sidebar under way.
SPECIFICATION ThreadsSpec
CONSTANTS
  MaxThreads = 2
  MaxMessages = 2
  Renamed = {2}
  Requests = {r1, r2}
CHECK_DEADLOCK FALSE
INVARIANTS
  NamedAfterFirstMessage
  SessionStaysInThread
PROPERTIES
  BadgeConverges
