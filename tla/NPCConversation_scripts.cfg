SPECIFICATION FairSpec
CONSTANTS
    None = None
    Scripts <- AllScripts
    Own <- Nobody
    Misnamed <- Nobody
    Threads <- OneThread
INVARIANTS
    GiftsOnlyWhenAsked
    OpenMeansHeard
PROPERTIES
    EveryConversationEnds
