SPECIFICATION Spec
CONSTANTS
    DataSlots = {d1, d2}
    ResendSlots = {r1}
    MaxBatch = 2
    MaxRetries = 1
    MaxTracked = 0
    MaxSends = 2
    MaxNotifies = 1
    MaxResends = 1
    MaxReplace = 1
SYMMETRY SlotSymmetry
INVARIANTS TypeOK FramingIntact PipelineOrdered AcceptedKept
