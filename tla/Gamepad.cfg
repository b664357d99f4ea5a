SPECIFICATION GamepadSpec
CONSTANTS
    NumButtons = 3
INVARIANTS NoGhostPress SeenWasTouched UnsharedIsExact
