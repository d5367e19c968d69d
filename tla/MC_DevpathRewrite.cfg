CONSTANTS
    Parents <- MCParents
    IfNames <- MCIfNames
    NewNames <- MCNewNames
SPECIFICATION Spec
INVARIANT DevpathNamesInterface
CHECK_DEADLOCK FALSE
