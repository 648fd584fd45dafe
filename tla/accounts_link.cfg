SPECIFICATION Spec
CONSTANTS
    Users = {u1}
    Requests = {r1, r2}
    Addresses = {a, b}
    Passwords = {p, q}
    None = None
    MaxTokens = 2
    TokenTtl <- MCTokenTtl
    MaxTime = 1
    MaxDisturbed = 1
SYMMETRY MCSymmetry
PROPERTY OldAddressNeverVerifies
