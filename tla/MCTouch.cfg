SPECIFICATION FairSpec
CONSTANTS
    Samples = 2
    Lo = 2
    Hi = 3
    MaxPoints = 2
    Crosses = 1
INVARIANTS
    TypeOK
    NotDeaf
    ReadIsOneReport
PROPERTIES
    ReleaseForgetsSamples
    PenIsFollowed
