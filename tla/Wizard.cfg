CONSTANTS
    Updates = {u1, u2}
    Ids = {1, 2, 3}
    Years = {1, 2}
    Prices = {1, 2}
    Stored <- StoredRows
    Limit = 2
    MaxUpdates = 2
SYMMETRY Symmetric
SPECIFICATION Spec
INVARIANTS AnswersComplete OneSearchPerSummary
PROPERTIES ConfirmSound
