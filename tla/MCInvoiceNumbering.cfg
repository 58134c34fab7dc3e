SPECIFICATION Spec
CONSTANTS
    Base = 2
    YearDigits = 2
    MaxLength = 4
    MaxSafe = 5
    MaxPadding = 2
    Months = 2
    Dates <- MCDates
    Offered <- MCFew
    Clients = {c1, c2}
    MaxInvoices = 2
    MaxSeries = 3
SYMMETRY Symmetric
INVARIANTS MinimumIsExact NextNumberIsFree SequencesHaveNoGaps HistoryIsOneChain
CHECK_DEADLOCK FALSE
