SPECIFICATION MCSpec
CONSTANTS
  one = one
  two = two
  old = old
  new = new
  chunk = chunk
  left = left
  right = right
  Writers = {one, two}
  Versions = {old, new}
  Chunks = {chunk}
  Entities = {left, right}
  Contents <- TwoContents
  Jobs <- AllJobs
  Inactive = {old}
  Passages = {left, right}
  Artifacts = {"first", "second"}
  Exact = {right}
  Inputs <- ThreeInputs
  Documents <- SixTokens
  Text <- Visible
  NoText <- Nothing
  Configs <- UpToFour
INVARIANTS
  GraphRetries
  ChunksKeepPassages
PROPERTIES
  VectorKeepsContract
  GraphKeepsContract
