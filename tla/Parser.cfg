SPECIFICATION Spec
CONSTANTS
    Length = 4
    WordsAt <- MCWordsAt
    Undecodable = Undecodable
INVARIANTS
    NeverMistaken
    ReadUnlessLost
    TargetsResolve
CHECK_DEADLOCK FALSE
