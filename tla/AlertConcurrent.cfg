\* Two dispatches at once, one event on two channels.
SPECIFICATION Spec
CONSTANTS
    s1 = s1
    s2 = s2
    c1 = c1
    c2 = c2
    Subscriptions = {s1}
    Evaluations = {v1}
    Dispatchers = {d1, d2}
    Channels = {c1, c2}
    Webhooks = {c1}
    ChannelsOf <- TwoChannels
    MaxRetryLimit = 0
    Limit = 1
    None = None
INVARIANTS
    TypeOK
    AttemptsCommitTogether
    StaleCountIsBehind
SYMMETRY Symmetry
