SPECIFICATION FairSpec
CONSTANTS
  stale = stale  feed = feed
  Key = {stale, feed}
  Intel = {feed}
  Severe = {stale}
  Source = {"event"}
  MaxFaults = 1
INVARIANTS OncePerWindow IncidentAnnounced
PROPERTIES UnresolvedRaised
