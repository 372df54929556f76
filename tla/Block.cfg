SPECIFICATION Spec
CONSTANTS
    Pages = {p1}
    MaxBlock = 11
    MaxKept = 2
    MaxMade = 4
INVARIANTS TypeOK TurtleUsable Recoverable NotReusable Accounted SizeExact
CHECK_DEADLOCK FALSE
