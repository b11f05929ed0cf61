SPECIFICATION Spec
CONSTANTS
  Universe <- MCUniverse
  Published <- MCPublished
  Posts <- MCPosts
  Links <- MCLinks
  Feed = feed
  MaxHops = 2
  MS = 1
  MaxWait = 2
  MaxFaults = 1
INVARIANTS EveryKnownIdIsAsked RetractionHolds BadgeIsEarned
PROPERTIES ThreadKeepsItsReplies CatchesUp
CHECK_DEADLOCK FALSE
