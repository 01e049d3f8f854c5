SPECIFICATION Spec
CONSTANTS
    Emails = {e1}
    Passwords = {p1, p2}
    Weak = weak
    Uids = {u1, u2}
    Generated = {k1, k2}
    ClientKeys = {c1, c2}
    ClientIds = {id1, id2}
    Subjects = {s1}
    GoogleKeys = {g1, g2}
    ResetTokens = {t1}
    None = None
    Workers = {w1, w2}
    TokenTTL = 1
    MaxCalls = 5
    MaxTime = 2
SYMMETRY Symmetric
INVARIANTS
    MintedTokensVerify
    OneSubjectPerEmail
    ResetOnce
CHECK_DEADLOCK FALSE
