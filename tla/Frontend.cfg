SPECIFICATION Spec
CONSTANTS
    a1 = a1
    b1 = b1
    Tokens = {a1, b1}
    UserOf <- MCUserOf
    Ranges = {"may", "june"}
    Today = "may"
    MaxChannel = 3
    MaxChanges = 1
INVARIANTS TypeOK SessionSettles ViewIsCurrent OwnChangeShown
