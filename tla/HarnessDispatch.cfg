SPECIFICATION Spec
CONSTANTS
    r1 = r1
    r2 = r2
    policy = policy
    custom = custom
    fallback = fallback
    Request = {r1, r2}
    Handler = {policy, custom, fallback}
    MethodOf <- Bindings
    Method <- Requests
    Behaviours <- Harnesses
    Senderless = {r2}
INVARIANTS
    OneSend
    DiagnosticsTrue
    VerdictFits
CHECK_DEADLOCK FALSE
