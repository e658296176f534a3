SPECIFICATION MetadataSpec
CONSTANTS
    Names = {n1, n2}
    Types = {"typed", "untyped"}
    MaxLocal = 6
    MaxServer = 2
INVARIANTS
    AttributeIdsKnown
CHECK_DEADLOCK FALSE
