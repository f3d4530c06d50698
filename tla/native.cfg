CONSTANTS
    Byte = 3
    Ints = 3
    Constants <- MCConstants
    Given <- MCGiven
    Assembly <- MCAssembly
    CodeMax = 4
    StackMax = 9
    Reach = 1000
SPECIFICATION Spec
INVARIANT DecodersAgree
PROPERTY ImplementsInterpreter
