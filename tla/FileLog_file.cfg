SPECIFICATION FileSpec
SYMMETRY Symmetry
CONSTANTS
    Procs = {p1, p2}
    Page = 2
    MaxLeaves = 4
INVARIANTS FileConsistent ImportIsACopy
PROPERTIES ProofsHold RootsKept
CHECK_DEADLOCK FALSE
CONSTRAINTS UpToTheFirstMeeting SmallJobs
