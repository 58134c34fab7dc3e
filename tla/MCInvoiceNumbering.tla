------------------------- MODULE MCInvoiceNumbering -------------------------
(* Binary digits, years of two digits, numbers of at most four: a year      *)
(* based series has three numbers a year and a plain one five.              *)
EXTENDS InvoiceNumbering, TLC

Of(m, start, pad, first) == [mode |-> m, startMonth |-> start, padding |-> pad, first |-> first]

MCDates == {[year |-> 1, month |-> 1], [year |-> 2, month |-> 1]}

\* one of each mode: enough to tell two activations apart
MCFew == {Of("plainSequence", 1, 0, 1), Of("calendarYearSequence", 1, 0, 1),
          Of("fiscalYearSequence", 2, 1, 2)}

Symmetric == Permutations(Clients)
=============================================================================
