--------------------------- MODULE MCInvoiceCredit ---------------------------
(* Small invoices whose lines do not divide evenly: cheap lines of a few     *)
(* hundredths, a fixed discount, Finnish VAT rates.                          *)
EXTENDS InvoiceCredit

Of(qty, base, discount, rate) == [qty |-> qty, base |-> base, discount |-> discount, rate |-> rate]

OneRate == <<Of(3, 4, 1, 2550), Of(1, 3, 0, 2550)>>
TwoRates == <<Of(3, 6, 2, 2550), Of(1, 4, 0, 1350)>>
Untaxed == <<Of(3, 5, 1, 0), Of(1, 2, 0, 0)>>
OneLine == <<Of(5, 7, 0, 2550)>>

Ask(lines) == [lines |-> lines, manual |-> <<>>]
AskFree(lines, rate, amount) == [lines |-> lines, manual |-> <<[rate |-> rate, amount |-> amount]>>]

\* a unit, two units, the other line, and a free line alone or with a unit
Mixed(free) == {Ask(<<1, 0>>), Ask(<<2, 0>>), Ask(<<0, 1>>), free}

MixedOneRate == Mixed(AskFree(<<1, 0>>, 2550, 2))
MixedTwoRates == Mixed(AskFree(<<0, 0>>, 1350, 3))
MixedUntaxed == Mixed(AskFree(<<0, 0>>, 0, 2))
Units == {Ask(<<1>>), Ask(<<2>>)}

Invoice(lines, mode, offered, credited, events) ==
  [lines |-> lines, mode |-> mode, offered |-> offered,
   maxCredits |-> credited, maxEvents |-> events]

MCInvoices ==
  {Invoice(OneRate, "net", MixedOneRate, 3, 0),
   Invoice(TwoRates, "gross", MixedTwoRates, 3, 0),
   Invoice(Untaxed, "reverse", MixedUntaxed, 3, 0),
   Invoice(OneLine, "net", Units, 2, 3)}
=============================================================================
