SPECIFICATION LiveSpec
CONSTANTS
    Pushers = {p1, p2, p3}
    Popper = popper
    Nobody = nobody
    MaxMsg = 2
    MaxPushes = 7
INVARIANTS
    PopsSomething
    HandledInOrder
PROPERTIES
    PushReturns
    PushedIsHandled
    NextPushWakes
