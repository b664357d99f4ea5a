SPECIFICATION Spec
CONSTANTS
    Capacity = 9
    Lengths = {1, 3, 4}
    MaxItems = 5
INVARIANTS WritesFreeBytes SizeZeroIsEmpty EmptyAccepts
PROPERTIES PipeSpec
\* All items are through.
CHECK_DEADLOCK FALSE
