CONSTANTS
    LocalFiles <- SomeLocalFiles
    ExplicitFiles <- SomeExplicitFiles
    Defaults <- Packaged
    Absent = Absent
    Nobody = Nobody
SPECIFICATION Spec
INVARIANT AcceptedRunsAreStaffed
INVARIANT ExplicitAgentsServe
CHECK_DEADLOCK FALSE
