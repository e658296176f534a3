SPECIFICATION TransactionSpec
CONSTANTS
    Connections = {c1, c2}
    Nodes = {1, 2}
    Edges = {3}
    Ends <- MCEnds
    NewValues = {1}
    Setters <- MCSetters
    MaxStored = 2
    MaxVersion = 2
    MaxLost = 1
PROPERTIES
    UpdatesAreSent
