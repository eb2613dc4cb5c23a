SPECIFICATION Spec
CONSTANTS
    a = a
    b = b
    c = c
    d = d
    e = e
    Tasks <- TwoTasks
    OverGap <- Skipped
    Specs = {s1, s2}
    SAVE_INTERVAL = 2
    EditsWhileRunning = FALSE
    MaxCrashes = 2
    MaxEdits = 2
INVARIANTS
    CheckpointSound
PROPERTIES
    ProgressKept
    CampaignCompletes
