SPECIFICATION Spec
CONSTANTS
    Producer = {p1, p2}
    Writer = writer
    None = None
    Capacity = 3
    MaxPush = 6
INVARIANTS Accounting InOrder
PROPERTIES WriterLeaves
CHECK_DEADLOCK FALSE
