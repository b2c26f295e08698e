\* Every configuration file of up to five of the lines; then three servers and
\* two connections, where the limited servers take one at a time.
CONSTANTS
    Nil = Nil
    Section = Section
    c1 = c1
    c2 = c2
    Texts <- MCTexts
    Parse <- MCParse
    Lines <- MCLines
    MaxLines = 5
    Conns = {c1, c2}
    MaxConns = 1
SPECIFICATION Spec
INVARIANTS ParsedAsWritten TiersLayered SlotsAccounted InFlightDrained
PROPERTIES StopsOnSignal
\* The process ends.
CHECK_DEADLOCK FALSE
