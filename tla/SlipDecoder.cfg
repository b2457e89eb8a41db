SPECIFICATION Spec
CONSTANTS
    Plain = {"a"}
    MaximumLength = 3
    MaxFrame = 4
INVARIANTS TypeOK FrameDelivered NothingElse
