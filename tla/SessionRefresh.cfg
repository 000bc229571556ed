SPECIFICATION Spec
CONSTANTS
    Request = {r1, r2}
    MaxTokens = 3
    ServerFails = TRUE
    NetworkFails = TRUE
    UserSignsOut = TRUE
INVARIANTS StoredTokenIsUsable
PROPERTY CallsEnd
CHECK_DEADLOCK FALSE
