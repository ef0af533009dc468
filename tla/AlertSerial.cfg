\* Fair dispatches, one at a time and of one event each, of two evaluations; a subscription on two
\* channels and one on none.
SPECIFICATION FairSpec
CONSTANTS
    s1 = s1
    s2 = s2
    c1 = c1
    c2 = c2
    Subscriptions = {s1, s2}
    Evaluations = {v1, v2}
    Dispatchers = {d1}
    Channels = {c1, c2}
    Webhooks = {}
    ChannelsOf <- TwoChannelsOrNone
    MaxRetryLimit = 0
    Limit = 1
    None = None
INVARIANTS
    FailedReachedNobody
PROPERTIES
    QueuedUnlessBlocked
    DeliversAsPromised
