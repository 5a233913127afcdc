\* Three agent messages of one block each, over two tool ids: tool starts
\* and results in any order, repeated, or for ids never started.
CONSTANTS
    Ids <- MCIds
    NoId = NoId
    Parents = {"p1"}
    NoParent = NoParent
    Names <- MCNames
    Inputs <- MCInputs
    NoInput = NoInput
    Texts <- MCTexts
    MaxDescLen = 2
    MaxMsgs = 3
    MaxBlocks = 1
    SampleTexts <- MCSampleTexts
SPECIFICATION Spec
\* The processor stops when the agent stops sending messages.
CHECK_DEADLOCK FALSE
INVARIANT TypeOK
INVARIANT ToolEventsPaired
INVARIANT TruncationMeetsSpec
