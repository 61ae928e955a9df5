SPECIFICATION FairSpec
CONSTANTS
    Channels = {trades, user}
    UserChannels = {user}
    Period = 1
    MaxTime = 2
    MaxExpired = 1
    MaxInbox = 1
CHECK_DEADLOCK FALSE
PROPERTIES
    Resubscribes
