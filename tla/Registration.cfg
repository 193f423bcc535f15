\* Two requests at a time in each scene.
SPECIFICATION Spec
CONSTANTS
    Ids = {"u1", "u2", "u3"}
    States = {s1, s2}
    Browsers = {"b1", "b2"}
    Requests = {q1, q2}
    Emails = {"e", "f"}
    Providers = {"p", "r"}
    Identities <- MCIdentities
    AutoLink = TRUE
    Scenes <- MCScenes
INVARIANTS AlwaysAWayIn StateOnce SessionBehindAccount OneBootstrap
PROPERTIES BootstrapCompletes
CHECK_DEADLOCK FALSE
