---------------------------- MODULE InvoiceCredit ----------------------------
(***************************************************************************)
(* Credits and payments of one sent invoice.  The content of a credit is   *)
(* calculated from the lines of the invoice and from the credits that are  *)
(* not cancelled (calculateCreditInvoice.ts, calculateCreditInvoice-       *)
(* Draft.ts, calculateReverseChargeCreditInvoiceDraft.ts); drafts are kept *)
(* by sqliteInvoiceCreditDraftRepository.ts, approved by sqliteInvoice-    *)
(* CreditApprovalRepository.ts, cancelled by sqliteInvoiceCorrection-      *)
(* Repository.ts, and sqliteInvoicePaymentRepository.ts marks the invoice  *)
(* paid.                                                                   *)
(*                                                                         *)
(* Amounts are whole cents and rates basis points, as in the code.  The    *)
(* amount a line is entered with (net, or gross with VAT included) is its  *)
(* "input" and the one calculated from it (the VAT, or the net amount) its *)
(* "derived" amount; with reverse charge there is no VAT.  Creating a      *)
(* draft reads the credits first and writes in a later turn of the event   *)
(* loop; every other operation is one transaction.                         *)
(***************************************************************************)
EXTENDS Integers, Sequences, FiniteSets, Functions

CONSTANTS Invoices,    \* the invoices looked at, each a record of
                       \*   lines: [qty, base, discount, rate] each
                       \*   mode: "net", "gross" or "reverse"
                       \*   offered: requests a user may enter: [lines, manual]
                       \*   maxCredits, maxEvents: bounds on the credits ever
                       \*     approved and on the payment events
          PaymentDates

ASSUME CreditAssumption ==
  \A v \in Invoices :
    /\ v.mode \in {"net", "gross", "reverse"}
    /\ v.lines \in Seq([qty : Nat \ {0}, base : Nat, discount : Nat, rate : Nat])
    /\ \A l \in DOMAIN v.lines :
         /\ v.lines[l].discount <= v.lines[l].base
         /\ v.mode = "reverse" => v.lines[l].rate = 0
    /\ \A q \in v.offered :
         /\ DOMAIN q.lines = DOMAIN v.lines
         /\ \A l \in DOMAIN v.lines : q.lines[l] \in 0..v.lines[l].qty
         /\ q.manual \in Seq([rate : Nat, amount : Nat])
    /\ v.maxCredits \in Nat /\ v.maxEvents \in Nat

VARIABLES invoice,     \* the sent invoice: it never changes
          credits,     \* approved credits, in order: their lines and status
          draft,       \* the active credit draft: the requested lines
          pending,     \* a creation that has read the credits and not yet written
          payment,     \* payment_state, paid_on and paid_amount_cents
          ledger       \* invoice_payment_events

creditVars == <<invoice, credits, draft, pending, payment, ledger>>

Lines == invoice.lines
Mode == invoice.mode
Scale == 10000
Input(l) == Lines[l].base - Lines[l].discount
Rates == {Lines[l].rate : l \in DOMAIN Lines}

NoRequest == [kind |-> "none"]
NoDraft == [kind |-> "none"]
Unpaid == [state |-> "unpaid"]

-----------------------------------------------------------------------------
(* Arithmetic of the credits that count.                                   *)

RoundHalfUp(n, d) == (n + d \div 2) \div d

DerivedOf(rate, input) ==
  CASE Mode = "net" -> RoundHalfUp(input * rate, Scale)
    [] Mode = "gross" -> RoundHalfUp(input * Scale, Scale + rate)
    [] OTHER -> 0

Gross(input, derived) == IF Mode = "net" THEN input + derived ELSE input

Status(c) == credits[c].status

Counts(c) == Status(c) # "cancelled"

\* the lines listPreviousCreditLineAllocations reads, as pairs of indexes
Live == UNION {{<<c, i>> : i \in DOMAIN credits[c].lines} : c \in {c \in DOMAIN credits : Counts(c)}}

At(x) == credits[x[1]].lines[x[2]]

OfLine(l) == {x \in Live : At(x).line = l}
OfRate(r) == {x \in Live : At(x).rate = r}
OfSources(r) == {x \in OfRate(r) : At(x).line # 0}

Quantity(S) == SumFunction([x \in S |-> At(x).qty])
BaseSum(S) == SumFunction([x \in S |-> At(x).base])
InputSum(S) == SumFunction([x \in S |-> At(x).input])
DerivedSum(S) == SumFunction([x \in S |-> At(x).derived])

LinesAt(r) == {l \in DOMAIN Lines : Lines[l].rate = r}
Capacity(r) == SumFunction([l \in LinesAt(r) |-> Input(l)])

GrossTotal == SumFunction([r \in Rates |-> Gross(Capacity(r), DerivedOf(r, Capacity(r)))])
CreditedGross == SumFunction([r \in Rates |-> Gross(InputSum(OfRate(r)), DerivedSum(OfRate(r)))])

-----------------------------------------------------------------------------
(* The lines of a credit.                                                  *)

Creditable(l) == Input(l) > 0

\* what this credit adds to the share rounded for everything credited so far
Allocate(amount, l, qty, previous) ==
  RoundHalfUp(amount * (Quantity(OfLine(l)) + qty), Lines[l].qty) - previous

SourceLine(l, qty) ==
  [line |-> l, rate |-> Lines[l].rate, qty |-> qty,
   base |-> Allocate(Lines[l].base, l, qty, BaseSum(OfLine(l))),
   input |-> Allocate(Input(l), l, qty, InputSum(OfLine(l)))]

FreeLine(m) == [line |-> 0, rate |-> m.rate, qty |-> 1, base |-> m.amount, input |-> m.amount]

\* a credited line is at the place of its line in the invoice, the free lines after them
Places(q) == {l \in DOMAIN Lines : q.lines[l] > 0}
             \cup {Len(Lines) + m : m \in DOMAIN q.manual}

\* before VAT
Parts(q) == [i \in Places(q) |-> IF i \in DOMAIN Lines THEN SourceLine(i, q.lines[i])
                                 ELSE FreeLine(q.manual[i - Len(Lines)])]

InGroup(parts, r) == {i \in DOMAIN parts : parts[i].rate = r}
Weight(parts, S) == SumFunction([i \in S |-> parts[i].input])

(* Mutant: the amount follows from this credit alone *)
GroupAmountAlone(parts, S, r, before) == DerivedOf(r, Weight(parts, S))

GroupAmount(parts, S, r, before) ==
  DerivedOf(r, InputSum(before) + Weight(parts, S)) - DerivedSum(before)

\* a line's VAT and net amounts must not turn out negative
Distributable(amount, weight) == amount >= 0 /\ (Mode = "gross" => amount <= weight)

\* calculateCreditInvoice looks at the lines of the invoice alone
SourcesAllocatable(parts, r) ==
  LET S == {i \in InGroup(parts, r) : parts[i].line # 0}
      amount == GroupAmount(parts, S, r, OfSources(r))
  IN  S # {} => /\ Distributable(amount, Weight(parts, S))
                /\ Weight(parts, S) = 0 => amount = 0

\* reconcileCurrentVat takes the free lines in
Reconcilable(parts, r) ==
  LET S == InGroup(parts, r)
  IN  S # {} /\ Mode # "reverse" =>
         /\ Weight(parts, S) # 0
         /\ Distributable(GroupAmount(parts, S, r, OfRate(r)), Weight(parts, S))

Within(r, input, derived) ==
  LET cap == Capacity(r)
  IN  /\ input <= cap /\ derived <= DerivedOf(r, cap)
      /\ Mode = "gross" => input - derived <= cap - DerivedOf(r, cap)

WithinCapacity(parts, r) ==
  LET S == InGroup(parts, r)
  IN  Within(r, InputSum(OfRate(r)) + Weight(parts, S),
                DerivedSum(OfRate(r)) + GroupAmount(parts, S, r, OfRate(r)))

(* Mutant: the quantity of this credit alone is held against the line *)
QuantityOfRequest(q, l) == q.lines[l] <= Lines[l].qty

QuantityLeft(q, l) == Quantity(OfLine(l)) + q.lines[l] <= Lines[l].qty

Calculable(q) ==
  LET parts == Parts(q)
  IN  /\ Places(q) # {}
      /\ \A l \in DOMAIN Lines : q.lines[l] > 0 =>
           QuantityLeft(q, l) /\ (Mode = "reverse" \/ Creditable(l))
      /\ \A i \in DOMAIN parts : 0 <= parts[i].input /\ parts[i].input <= parts[i].base
      /\ \A i \in DOMAIN q.manual :
           q.manual[i].rate \in Rates /\ (Mode = "reverse" \/ q.manual[i].amount > 0)
      /\ \A r \in Rates : /\ SourcesAllocatable(parts, r)
                          /\ Reconcilable(parts, r)
                          /\ WithinCapacity(parts, r)

\* distributeAmount: the group's amount by the weights summed up to the line
Share(parts, i) ==
  LET S == InGroup(parts, parts[i].rate)
      amount == GroupAmount(parts, S, parts[i].rate, OfRate(parts[i].rate))
      upTo(T) == RoundHalfUp(amount * Weight(parts, T), Weight(parts, S))
  IN  IF Mode = "reverse" THEN 0
      ELSE upTo({j \in S : j <= i}) - upTo({j \in S : j < i})

Calculated(q) ==
  LET parts == Parts(q)
  IN  [i \in DOMAIN parts |->
         [line |-> parts[i].line, rate |-> parts[i].rate, qty |-> parts[i].qty,
          base |-> parts[i].base, input |-> parts[i].input, derived |-> Share(parts, i)]]

-----------------------------------------------------------------------------
(* Drafts.                                                                 *)

Remaining == [l \in DOMAIN Lines |->
                IF Creditable(l) THEN Lines[l].qty - Quantity(OfLine(l)) ELSE 0]

Nothing == [lines |-> [l \in DOMAIN Lines |-> 0], manual |-> <<>>]

\* everything left, unless a free line counts; then the user starts from nothing
InitialRequest ==
  IF OfLine(0) # {} THEN Nothing
  ELSE [lines |-> Remaining, manual |-> <<>>]

CanCreateDraft ==
  /\ CreditedGross < GrossTotal
  /\ InitialRequest = Nothing \/ Calculable(InitialRequest)

CreateDraft ==
  /\ pending = NoRequest
  /\ CanCreateDraft
  /\ pending' = [kind |-> "create", request |-> InitialRequest]
  /\ UNCHANGED <<invoice, credits, draft, payment, ledger>>

\* the transaction answers with the draft that is there already
SaveDraft ==
  /\ pending # NoRequest
  /\ pending' = NoRequest
  /\ draft' = IF draft = NoDraft THEN [kind |-> "draft", request |-> pending.request] ELSE draft
  /\ UNCHANGED <<invoice, credits, payment, ledger>>

\* its read and its write are one step: the approval trusts neither
UpdateDraft(q) ==
  /\ draft # NoDraft
  /\ Calculable(q)
  /\ draft' = [kind |-> "draft", request |-> q]
  /\ UNCHANGED <<invoice, credits, pending, payment, ledger>>

DeleteDraft ==
  /\ draft # NoDraft
  /\ draft' = NoDraft
  /\ UNCHANGED <<invoice, credits, pending, payment, ledger>>

\* the amounts are calculated again, from the credits that count now
ApproveCreditDraft ==
  /\ draft # NoDraft /\ Len(credits) < invoice.maxCredits
  /\ Calculable(draft.request)
  /\ credits' = Append(credits, [lines |-> Calculated(draft.request), status |-> "approved"])
  /\ draft' = NoDraft
  /\ UNCHANGED <<invoice, pending, payment, ledger>>

SetCreditStatus(c, to) ==
  /\ Status(c) = "approved"
  /\ credits' = [credits EXCEPT ![c].status = to]
  /\ UNCHANGED <<invoice, draft, pending, payment, ledger>>

MarkCreditSent(c) == SetCreditStatus(c, "sent")
CancelCredit(c) == SetCreditStatus(c, "cancelled")

-----------------------------------------------------------------------------
(* Payment.                                                                *)

(* Mutant: marking a paid invoice again changes its date *)
MarkPaidAgain(d) ==
  /\ Len(ledger) < invoice.maxEvents
  /\ GrossTotal - CreditedGross > 0
  /\ payment' = [state |-> "paid", on |-> d, amount |-> GrossTotal - CreditedGross]
  /\ ledger' = Append(ledger, [action |-> "marked", on |-> d, amount |-> payment'.amount])
  /\ UNCHANGED <<invoice, credits, draft, pending>>

MarkPaid(d) ==
  /\ payment = Unpaid /\ Len(ledger) < invoice.maxEvents
  /\ GrossTotal - CreditedGross > 0
  /\ payment' = [state |-> "paid", on |-> d, amount |-> GrossTotal - CreditedGross]
  /\ ledger' = Append(ledger, [action |-> "marked", on |-> d, amount |-> payment'.amount])
  /\ UNCHANGED <<invoice, credits, draft, pending>>

RevertPaid ==
  /\ payment # Unpaid /\ Len(ledger) < invoice.maxEvents
  /\ ledger' = Append(ledger, [action |-> "reverted", on |-> payment.on, amount |-> payment.amount])
  /\ payment' = Unpaid
  /\ UNCHANGED <<invoice, credits, draft, pending>>

CreditInit ==
  /\ invoice \in Invoices
  /\ credits = <<>> /\ draft = NoDraft /\ pending = NoRequest
  /\ payment = Unpaid /\ ledger = <<>>

CreditNext ==
  \/ CreateDraft \/ SaveDraft \/ DeleteDraft \/ ApproveCreditDraft
  \/ \E q \in invoice.offered : UpdateDraft(q)
  \/ \E c \in DOMAIN credits : MarkCreditSent(c) \/ CancelCredit(c)
  \/ \E d \in PaymentDates : MarkPaid(d)
  \/ RevertPaid

CreditSpec == CreditInit /\ [][CreditNext]_creditVars

-----------------------------------------------------------------------------
(* Properties.                                                             *)

(* Stored lines, drafts and payments have the shapes the schema's checks ask for:
   no negative cents, positive quantities, a date and a positive amount exactly
   when the invoice is marked paid. *)
CreditTypeOK ==
  /\ \A c \in DOMAIN credits :
       /\ Status(c) \in {"approved", "sent", "cancelled"}
       /\ DOMAIN credits[c].lines # {}
       /\ \A i \in DOMAIN credits[c].lines :
            LET x == credits[c].lines[i]
            IN  /\ x.line \in {0} \cup DOMAIN Lines /\ x.rate \in Rates /\ x.qty > 0
                /\ 0 <= x.input /\ x.input <= x.base /\ 0 <= x.derived
                /\ Mode = "gross" => x.derived <= x.input
  /\ \A q \in {draft, pending} : q.kind # "none" =>
       \A l \in DOMAIN Lines : q.request.lines[l] \in 0..Lines[l].qty
  /\ payment = Unpaid \/ (payment.on \in PaymentDates /\ payment.amount > 0)

(* The credits that are not cancelled never exceed the invoice: not the quantity
   or the amounts of a line, nor the net, VAT and gross total of a VAT rate, in
   whatever order drafts were read, credits approved and cancelled and free lines
   mixed in.  The calculation asserts this of stored credits every time it reads
   them. *)
NeverOverCredited ==
  /\ \A l \in DOMAIN Lines :
       /\ Quantity(OfLine(l)) <= Lines[l].qty
       /\ BaseSum(OfLine(l)) <= Lines[l].base
       /\ InputSum(OfLine(l)) <= Input(l)
  /\ \A r \in Rates : Within(r, InputSum(OfRate(r)), DerivedSum(OfRate(r)))

(* When the credits that count cover every quantity, their amounts add up to the
   invoice's to the cent for each VAT rate, however the quantities were split
   over the credits and whatever was cancelled in between. *)
FullCreditMatches ==
  (\A l \in DOMAIN Lines : Creditable(l) => Quantity(OfLine(l)) = Lines[l].qty)
    => \A r \in Rates : /\ InputSum(OfRate(r)) = Capacity(r)
                        /\ DerivedSum(OfRate(r)) = DerivedOf(r, Capacity(r))

(* What is stored keeps its shape, and the payment events tell the payment: they
   alternate, a reversal repeats the date and amount it takes
   back, and the invoice's payment is what the last event left: credits approved
   or cancelled later change neither. *)
LedgerTellsPayment ==
  /\ CreditTypeOK
  /\ \A e \in DOMAIN ledger :
       /\ ledger[e].action = IF e % 2 = 1 THEN "marked" ELSE "reverted"
       /\ e % 2 = 0 => /\ ledger[e].on = ledger[e - 1].on
                       /\ ledger[e].amount = ledger[e - 1].amount
  /\ payment = IF Len(ledger) % 2 = 0 THEN Unpaid
               ELSE LET last == ledger[Len(ledger)]
                    IN  [state |-> "paid", on |-> last.on, amount |-> last.amount]
=============================================================================
