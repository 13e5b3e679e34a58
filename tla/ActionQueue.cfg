CONSTANTS
  Handlers = {h1, h2}
  Saves = {s1}
SPECIFICATION FairSpec
INVARIANT OneByOne
PROPERTIES SaveComesLast HandlersEnd SavesEnd
CHECK_DEADLOCK FALSE
