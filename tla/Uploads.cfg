CONSTANTS
    Chunk = 2
    MaxBytes = 5
    Margin = 2
    Sizes <- SizesOf
    Overheads <- OverheadsOf
SPECIFICATION Spec
INVARIANTS MemoryBounded AcceptedIffAcceptable StoredWhole
