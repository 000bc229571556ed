SPECIFICATION Spec
CONSTANTS
    Payload = {p1, p2, p3}
    Capacity = 3
    NoPayload = NoPayload
INVARIANTS TypeOK TailFollowsCount WindowIsOccupied
PROPERTY RefinesFifo
