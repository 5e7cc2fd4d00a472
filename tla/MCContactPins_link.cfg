SPECIFICATION Spec
CONSTANTS
    Handlers = {h1, h2}
    Users = {u}
    Visitors = {v, w}
    Chats = {c1, c2}
    Pins = {p1, p2}
    Form = Form
    Admin = Admin
    Blank = Blank
    NoOne = NoOne
    Modes <- Scenarios
SYMMETRY Symmetry
INVARIANTS TypeOK LinkedConfirmed UsedOnce  NothingLost
CHECK_DEADLOCK FALSE
