CONSTANTS
    NameLengths = {1, 12, 13, 110, 111, 255, 268, 269, 300, 1103, 1123, 1127}
    Totals = {1, 2, 17, 70000, 1048576}
    Positions = {1, 2, 16, 17, 256, 257, 4096, 4097, 65535, 65536, 65537, 65538, 69999, 70000, 1048576}
SPECIFICATION Spec
INVARIANTS TypeOK RoundTrip AckMatches KeysDistinct
CHECK_DEADLOCK FALSE
