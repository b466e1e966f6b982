SPECIFICATION Spec
CONSTANTS
    Bits = 8
    Device = 1
    Addresses = {0, 1}
    Registers = {1}
    Data <- MCData
    Lengths = {1, 2}
    MaxRestarts = 1
INVARIANTS
    BusReleased
    TransferGenuine
