SPECIFICATION Spec
CONSTANTS
    Joints <- MCJoints
    Chain <- MCChain
    Base = table
    Tip = hand
    Poses <- MCPoses
    Boxes <- MCBoxes
    Region <- MCRegion
    SelfRegion <- MCSelfRegion
    Scenes <- MCScenes
    Configurations <- MCConfigurations
    Timings <- MCTimings
    Kernels <- MCKernels
    ReviewOf <- MCReviewOf
    Skills <- MCSkills
    Sampling <- MCSampling
    Reviewed <- MCReviewed
    TickTime = 6
    WaitFresh = 1
    DocFresh = 2
    ContactFresh = 1
    MaxTime = 9
    MaxFaults = 1
    j1 = j1  j2 = j2  mount = mount  wall = wall  hidden = hidden
    table = table  link = link  hand = hand
    strict = strict  lax = lax  asking = asking  waiting = waiting  refusing = refusing
    Absent = Absent
INVARIANTS
    ReviewSound
    ArmNearChecked
    ReportsTrue
PROPERTIES
    ClientEnds
CHECK_DEADLOCK FALSE
