SPECIFICATION Spec
CONSTANTS
    Users = {u1}
    Requests = {r1, r2}
    Addresses = {a, b}
    Passwords = {p, q}
    None = None
    MaxTokens = 3
    TokenTtl <- MCTokenTtl
    MaxTime = 1
    MaxDisturbed = 0
SYMMETRY MCSymmetry
CHECK_DEADLOCK FALSE
INVARIANTS VerifiedIsProven PasswordIsTheLastChosen OldLinksAreDead
