SPECIFICATION FairChannelSpec
CONSTANTS
  Sources = {s1, s2}
  MaxPosts = 2
INVARIANTS
  SharedIsConsistent
PROPERTIES
  ImplementsMailbox
  AllAreDisposedOf
\* All functions may have been posted and run, and the channel be closed.
CHECK_DEADLOCK FALSE
