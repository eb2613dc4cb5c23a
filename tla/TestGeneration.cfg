SPECIFICATION Spec
CONSTANTS
    Seeds = {s1, s2, s3, s4, s5}
    SAVE_INTERVAL = 2
    MaxKills = 2
INVARIANT LossBounded
PROPERTIES
    RepeatBounded
    CampaignEnds
