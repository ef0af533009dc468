\* Two upserts, two batches of one report to two addresses, a webhook, a visit.
SPECIFICATION Spec
CONSTANTS
    Names = {n1}
    Upserts = {u1, u2}
    Batches = {b1, b2}
    Webhooks = {h1, h2}
    Visits = {v1}
    Reports = {r1}
    t1 = t1
    t2 = t2
    mail = mail
    hook = hook
    Channels = {mail, hook}
    Targets = {t1, t2}
    Unanswerable = {}
    Malformed <- NotAUrl
    RetryLimit = 1
    TemplateForms <- MailTemplate
    GroupForms <- HookGroup
    Orders <- HookOrders
    None = None
SYMMETRY Symmetry
CONSTRAINT Busy
INVARIANTS
    TypeOK
    LastWordIsShown
    TrackedWasAccepted
    NotGivenUpEarly
PROPERTIES
    IdsNeverChange
    UnsubscribedIsSkipped
CHECK_DEADLOCK FALSE
