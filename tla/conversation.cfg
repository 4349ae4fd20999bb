CONSTANTS
    Owners = {"customer"}
    MaxRequests = 2
    MaxEras = 3
SPECIFICATION Spec
CONSTRAINT OneEndOfAPro
INVARIANTS
    TypeOK
    ConsentFirst
    OneRequestTakenIn
PROPERTIES
    NothingOfAFinishedJob
    FreshStart
    AskedBeforeSecond
    ServedAsCustomer
