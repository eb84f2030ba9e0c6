SPECIFICATION Spec
CONSTANTS
    Items = {a, b}
    NoItem = NoItem
    Capacity = 4
    MaxItems = 7
INVARIANTS TypeOK NoSlotConflict
PROPERTY FifoSpec
