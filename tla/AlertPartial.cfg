\* One subscription on two channels, one of them failing.
SPECIFICATION Spec
CONSTANTS
    s1 = s1
    s2 = s2
    c1 = c1
    c2 = c2
    Subscriptions = {s1}
    Evaluations = {v1}
    Dispatchers = {d1}
    Channels = {c1, c2}
    Webhooks = {c1}
    ChannelsOf <- TwoChannels
    MaxRetryLimit = 0
    Limit = 1
    None = None
INVARIANTS
    ScheduledRetryIsReachable
