CONSTANTS
    None = None
    Projects = {1}
    Tasks = {1}
    Actions = {1, 2}
    Schedules = {1, 2}
    ProjectOf <- OneProject
    TaskOf <- OneTask
    Attachable = {1}
    Resumable = {1}
    Boards <- StartBoards
    Heights = {1, 2, 4, 5}
    MaxFlight = 2
    MaxRequests = 1
    MaxTroubles = 1
SPECIFICATION Spec
INVARIANTS TypeOK CursorSelectable CursorVisible
PROPERTIES MessageKept EventuallyFresh
CHECK_DEADLOCK FALSE
