SPECIFICATION Spec
CONSTANTS
    WireMessages <- MCWireMessages
    MaxMessages = 4
    ToolLists <- MCToolLists
    RawPrompts <- MCRawPrompts
    Lines = {"", "/reset", "x"}
    Answers <- MCAnswers
    MaxTurns = 3
CHECK_DEADLOCK FALSE
INVARIANTS
    PromptReadsBack
    ChatIsDialogue
    StopsAtEos
