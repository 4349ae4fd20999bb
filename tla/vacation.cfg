CONSTANTS
    Owners = {"pro"}
    MaxRequests = 1
    MaxEras = 1
SPECIFICATION Spec
PROPERTIES
    ComesBack
