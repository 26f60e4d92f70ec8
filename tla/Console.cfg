CONSTANTS
    Null = Null
    Keep = Keep
    Untyped = Untyped
    MaxWrites = 1
    MaxForeign = 1
SPECIFICATION ConsoleSpec
INVARIANTS OwnWritesShown
PROPERTIES SavedAsShown DialogsCloseForTheirOwn
CHECK_DEADLOCK FALSE
