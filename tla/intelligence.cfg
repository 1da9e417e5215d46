SPECIFICATION FairSpec
CONSTANTS
  blog = blog
  wire = wire
  story = story
  ask = ask
  Source = {blog, wire}
  Article = {story}
  Feed <- BothCarry
  Hot = {story}
  Request = {ask}
  MaxConcurrent = 1
  MaxFaults = 1
INVARIANTS ArticleKept
PROPERTIES SourcesPolled
