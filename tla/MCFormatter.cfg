SPECIFICATION FairSpec
CONSTANTS
    Letters = {"m", "x"}
    ItemNames = {"m"}
    Others = {" "}
    MaxLength = 6
    Patterns <- MCPatterns
INVARIANTS IndexInv ErrorsFound NothingLost InOrder
PROPERTY InitReturns
