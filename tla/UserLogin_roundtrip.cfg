\* A libshv client logs in; the broker reads its login back.
CONSTANTS
    u1 = u1
    u2 = u2
    p1 = p1
    p2 = p2
    Users = {u1, u2}
    Passwords = {p1, p2}
    TypeStrings <- MCTypeStrings
    ClientIds <- MCClientIds
    LoginErrors <- MCLoginErrors
SPECIFICATION Spec
INVARIANT LoginRoundTrip
