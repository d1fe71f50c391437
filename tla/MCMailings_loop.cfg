SPECIFICATION MailingsSpec
CONSTANTS
    N = 3
    Registered = {2}
    Bad = {1}
    Processes = {w1, w2}
    Campaigns = {c1}
    NoCampaign = NoCampaign
    LAUNCH_BATCH_SIZE = 2
    BROADCAST_BATCH_SIZE = 1
    Attempts = 2
    MaxStalled = 1
    MaxMoves = 0
    MaxTroubles = 0
PROPERTIES
    CampaignEnds
\* An address, a campaign and a user may be through with everything.
CHECK_DEADLOCK FALSE
