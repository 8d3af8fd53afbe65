SPECIFICATION FairChatSpec
CONSTANTS
    Nil = Nil
    s1 = s1
    s2 = s2
    c1 = c1
    c2 = c2
    Sends = {s1, s2}
    Chats = {c1, c2}
CONSTRAINTS InOrder FewTroubles
INVARIANTS
    ChatTypeOK
    OneLiveStream
    LockedMeansLive
    RetriedOnce
    FinishedShown
    RepliesStay
PROPERTY ComposerComesBack
CHECK_DEADLOCK FALSE
