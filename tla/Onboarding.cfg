SPECIFICATION Spec
CONSTANTS
    Options <- MCOptions
    MaxEvents = 5
INVARIANTS TypeOK
PROPERTIES PeopleDecide SeenEditsKept Settles
