\* Two dispatches at once, two exports, a limit of one export and of two retries.
SPECIFICATION Spec
CONSTANTS
    Exports = {e1, e2}
    Dispatchers = {d1, d2}
    Limit = 1
    RetryLimit = 2
    None = None
SYMMETRY Symmetry
INVARIANTS
    TypeOK
    DeliverableNeverFails
    GivenUpLate
