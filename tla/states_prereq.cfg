SPECIFICATION Spec

CONSTANTS
    N = 3
    StackLimit = 12
    Slses <- MCSlses

PROPERTIES
    RequireDemandsExecution
