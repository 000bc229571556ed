SPECIFICATION Spec
CONSTANTS
    Request = {r1, r2}
    MaxTokens = 3
    ServerFails = FALSE
    NetworkFails = FALSE
    UserSignsOut = FALSE
INVARIANT RefreshIsTransparent
CHECK_DEADLOCK FALSE
