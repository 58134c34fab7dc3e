SPECIFICATION CreditSpec
CONSTANTS
    Invoices <- MCInvoices
    PaymentDates = {d1, d2}
INVARIANTS NeverOverCredited FullCreditMatches LedgerTellsPayment
CHECK_DEADLOCK FALSE
