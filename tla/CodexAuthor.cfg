SPECIFICATION FairSpec
CONSTANTS
 MaxFeedback=1
 MaxSteers=1
 MaxFailures=2
 MaxPauses=1
 MaxTrouble=2
 MaxWire=1
 Refusals=2
INVARIANTS FeedbackReachesAuthor NoEcho WorkKept NoSteerLost
PROPERTY PauseHonoured
CHECK_DEADLOCK FALSE
