\* A customer and an operator, two attempts each; one SIGTERM and one fault.
SPECIFICATION FairSpec
CONSTANTS
    c1 = c1 o1 = o1
    Customers <- OneCustomer
    Operators <- OneOperator
    MaxTries = 2
    MaxTerms = 1
    MaxFaults = 1
INVARIANTS
    TypeOK
    SuccessIsDurable
    OneSettlement
    DuplicatesNeedDoubt
    ShutdownLosesNothing
PROPERTY
    ComesToRest
\* The clients rest when they have tried often enough.
CHECK_DEADLOCK FALSE
