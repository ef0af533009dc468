\* Fair dispatches of a queue of two, one event at a time.
SPECIFICATION FairSpec
CONSTANTS
    s1 = s1
    s2 = s2
    c1 = c1
    c2 = c2
    Subscriptions = {s1}
    Evaluations = {v1, v2}
    Dispatchers = {d1}
    Channels = {c1}
    Webhooks = {c1}
    ChannelsOf <- OneChannelEach
    MaxRetryLimit = 0
    Limit = 1
    None = None
PROPERTIES
    QueuedIsAttempted
