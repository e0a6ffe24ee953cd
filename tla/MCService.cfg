CONSTANTS
    Servers = {"a", "b"}
    Keys = {"k", "l"}
    Kinds <- MCKinds
    Starts <- MCStarts
SPECIFICATION FairSpec
INVARIANTS
    EveryEnvelopeVerifies
    CountersBracketTheLog
PROPERTIES
    DecisionsAreNotOvertaken
    AnswersFollowCommits
    EverythingEnds
CHECK_DEADLOCK FALSE
