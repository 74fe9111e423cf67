SPECIFICATION FairSpec
CONSTANTS
    Kind = "command"
    Mishaps <- Long
INVARIANT SentOnce
PROPERTIES OnlyYesBlesses ConversationEnds
CHECK_DEADLOCK FALSE
