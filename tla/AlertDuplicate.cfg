\* Two dispatches at once select the same event.
SPECIFICATION Spec
CONSTANTS
    s1 = s1
    s2 = s2
    c1 = c1
    c2 = c2
    Subscriptions = {s1}
    Evaluations = {v1}
    Dispatchers = {d1, d2}
    Channels = {c1}
    Webhooks = {c1}
    ChannelsOf <- OneChannelEach
    MaxRetryLimit = 0
    Limit = 1
    None = None
PROPERTIES
    OnlyOpenEventsDispatched
