SPECIFICATION FairSpec
CONSTANTS Sessions = {1, 2, 3} Instruments = {a} MaxFaults = 0 MaxKills = 1
PROPERTY Resumes
CHECK_DEADLOCK FALSE
