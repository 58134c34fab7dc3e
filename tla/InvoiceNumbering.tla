-------------------------- MODULE InvoiceNumbering --------------------------
(***************************************************************************)
(* Invoice numbers of one company: the settings of a numbering series      *)
(* (sqliteInvoiceNumberingRepository.ts), the switch to a new series       *)
(* (activateInvoiceNumberingSeries.ts, sqliteInvoiceNumberingSeries-       *)
(* Repository.ts) and the approvals that take numbers from the active      *)
(* series (sqliteInvoiceApprovalRepository.ts, sqliteInvoiceCredit-        *)
(* ApprovalRepository.ts).                                                 *)
(*                                                                         *)
(* A string of digits is the pair of its length and its value, so leading  *)
(* zeros count and concatenation and slicing are arithmetic.  The base,    *)
(* the width of a year and the longest number are constants: the code has  *)
(* 10, 4 and 19.  An approval is one immediate transaction; an update of   *)
(* the settings and an activation read the database first and write it in  *)
(* a later turn of the event loop, so each is two actions.                 *)
(***************************************************************************)
EXTENDS Integers, Sequences, FiniteSets, FiniteSetsExt

CONSTANTS Base,         \* digits are 0..Base-1
          YearDigits,   \* digits of a year
          MaxLength,    \* digits a reference number's base may have
          MaxSafe,      \* Number.MAX_SAFE_INTEGER
          MaxPadding,   \* maxSequencePadding
          Months,       \* months of a year
          Dates,        \* invoice dates, as year and month
          Offered,      \* settings a user may ask for
          Clients,      \* concurrent requests
          MaxInvoices,  \* bound: invoices
          MaxSeries     \* bound: series

\* Base ^ k
Power[k \in Nat] == IF k = 0 THEN 1 ELSE Base * Power[k - 1]

MaxYear == Power[YearDigits] - 1
Modes == {"plainSequence", "calendarYearSequence", "fiscalYearSequence"}
Settings == [mode : Modes, startMonth : 1..Months,
             padding : 0..MaxPadding, first : 1..MaxSafe]

ASSUME NumberingAssumption ==
    /\ Base \in Nat \ {0, 1} /\ YearDigits \in Nat \ {0}
    /\ MaxLength \in Nat /\ MaxLength > YearDigits
    /\ MaxSafe \in Nat /\ MaxSafe >= Power[MaxLength - YearDigits]
    /\ MaxSafe < Power[MaxLength]
    /\ MaxPadding \in 0..(MaxLength - YearDigits)
    /\ Months \in Nat \ {0}
    /\ Dates \subseteq [year : 1..MaxYear, month : 1..Months]
    /\ Offered \subseteq Settings
    /\ MaxInvoices \in Nat /\ MaxSeries \in Nat \ {0}

VARIABLES settings,     \* invoice_numbering_settings: series key -> settings
          sequences,    \* invoice_number_sequences: (series, scope) -> last number
          active,       \* invoice_numbering_active_series
          events,       \* invoice_numbering_series_events
          invoices,
          request       \* per client, the request between its read and its write

vars == <<settings, sequences, active, events, invoices, request>>

Default == 1            \* defaultInvoiceNumberSeriesKey; a new key is the next one
Idle == [kind |-> "idle"]
NoSeries == [key |-> 0, revision |-> 0]

-----------------------------------------------------------------------------
(* The format of a number.                                                 *)

Digits(n) == CHOOSE k \in 1..(n + 1) : Power[k] > n /\ (k = 1 \/ Power[k - 1] <= n)

FiscalYear(s, d) == IF d.month >= s.startMonth THEN d.year ELSE d.year - 1

Year(s, d) == IF s.mode = "calendarYearSequence" THEN d.year ELSE FiscalYear(s, d)

Scope(s, d) ==
  IF s.mode = "plainSequence" THEN <<"plain">> ELSE <<s.mode, Year(s, d)>>

FormatSequence(n, padding) == <<Max({Digits(n), padding}), n>>

Concat(a, b) == <<a[1] + b[1], a[2] * Power[b[1]] + b[2]>>

FormatNumber(s, d, n) ==
  LET part == FormatSequence(n, s.padding)
  IN  IF s.mode = "plainSequence" THEN part
      ELSE Concat(<<YearDigits, Year(s, d)>>, part)

-----------------------------------------------------------------------------
(* The least first number a new series may start from.                     *)

MaximumSequence(s) ==
  IF s.mode = "plainSequence" THEN MaxSafe ELSE Power[MaxLength - YearDigits] - 1

(* Mutant: year zero is never a fiscal year *)
MinimumPrefixOne(s) == 1

MinimumPrefix(s) ==
  IF s.mode = "fiscalYearSequence" /\ s.startMonth > 1 THEN 0 ELSE 1

Prefix(number) == number[2] \div Power[number[1] - YearDigits]
Rest(number) == <<number[1] - YearDigits, number[2] % Power[number[1] - YearDigits]>>

\* the sequence numbers a series with settings s would format as this text
Produced(text, s) ==
  IF /\ text[2] \in 1..MaximumSequence(s)
     /\ FormatSequence(text[2], s.padding) = text
  THEN {text[2]} ELSE {}

Collisions(number, s) ==
  IF s.mode = "plainSequence" THEN Produced(number, s)
  ELSE IF number[1] > YearDigits /\ Prefix(number) >= MinimumPrefix(s)
       THEN Produced(Rest(number), s) ELSE {}

Numbers == {invoices[i].number : i \in DOMAIN invoices}

\* 0 where the code answers that the series has no capacity left
MinimumSafe(existing, s) ==
  LET largest == Max({0} \cup UNION {Collisions(n, s) : n \in existing})
  IN  IF largest >= MaximumSequence(s) THEN 0 ELSE largest + 1

Readable(existing) == \A n \in existing : n[1] <= MaxLength

(* Mutant: the first number is only held against the capacity of the series *)
SafeFirstByCapacity(s) == s.first \in 1..MaximumSequence(s)

SafeFirst(s) ==
  /\ MinimumSafe(Numbers, s) # 0
  /\ s.first \in MinimumSafe(Numbers, s)..MaximumSequence(s)

-----------------------------------------------------------------------------
(* Settings of the default series.                                         *)

HasUsedNumbering(k) == \E x \in DOMAIN sequences : x[1] = k

\* the trigger invoice_numbering_settings_immutable_update
Immutable(k) ==
  \/ HasUsedNumbering(k)
  \/ \E i \in DOMAIN invoices : invoices[i].series = k
  \/ \E e \in DOMAIN events : k \in {events[e].previous, events[e].next}

UpdateSettings(c, s) ==
  /\ request[c] = Idle
  /\ settings # <<>> /\ HasUsedNumbering(Default) => settings[Default] = s
  /\ request' = [request EXCEPT ![c] = [kind |-> "update", settings |-> s]]
  /\ UNCHANGED <<settings, sequences, active, events, invoices>>

SaveSettings(c) ==
  /\ request[c].kind = "update"
  /\ request' = [request EXCEPT ![c] = Idle]
  /\ IF settings = <<>>
     THEN /\ settings' = <<request[c].settings>>
          /\ active' = [key |-> Default, revision |-> 1]
     ELSE /\ settings' = IF Immutable(Default) THEN settings
                         ELSE [settings EXCEPT ![Default] = request[c].settings]
          /\ UNCHANGED active
  /\ UNCHANGED <<sequences, events, invoices>>

-----------------------------------------------------------------------------
(* The switch to a new series.                                             *)

\* the revision the user confirmed is the one the overview still has
ActivateSeries(c, s) ==
  /\ request[c] = Idle /\ settings # <<>>
  /\ request' = [request EXCEPT ![c] = [kind |-> "activate", settings |-> s, expected |-> active]]
  /\ UNCHANGED <<settings, sequences, active, events, invoices>>

(* Mutant: the expected revision is not compared again in the transaction *)
UncheckedRevision(c) == TRUE

Unchanged(c) == active = request[c].expected

Activate(c) ==
  /\ request[c].kind = "activate"
  /\ request' = [request EXCEPT ![c] = Idle]
  /\ IF Unchanged(c) /\ Readable(Numbers) /\ SafeFirst(request[c].settings)
     THEN /\ Len(settings) < MaxSeries
          /\ settings' = Append(settings, request[c].settings)
          /\ active' = [key |-> Len(settings) + 1, revision |-> request[c].expected.revision + 1]
          /\ events' = Append(events, [previous |-> request[c].expected.key,
                                       next |-> Len(settings) + 1])
     ELSE UNCHANGED <<settings, active, events>>
  /\ UNCHANGED <<sequences, invoices>>

-----------------------------------------------------------------------------
(* Approvals.                                                              *)

Current == settings[active.key]
Slot(d) == <<active.key, Scope(Current, d)>>

NextSequence(d) ==
  IF Slot(d) \in DOMAIN sequences THEN sequences[Slot(d)] + 1 ELSE Current.first

NextNumber(d) == FormatNumber(Current, d, NextSequence(d))

\* one row of invoices, and the row of its sequence moved with it
Take(d, kind) ==
  /\ invoices' = Append(invoices,
       [kind |-> kind, series |-> active.key, scope |-> Scope(Current, d),
        sequence |-> NextSequence(d), number |-> NextNumber(d), status |-> "approved"])
  /\ sequences' = [x \in DOMAIN sequences \cup {Slot(d)} |->
                     IF x = Slot(d) THEN NextSequence(d) ELSE sequences[x]]

\* the conditions both approvals share; the last is UNIQUE (company_id, invoice_number)
Numberable(d) ==
  /\ Len(invoices) < MaxInvoices
  /\ settings # <<>>
  /\ NextSequence(d) <= MaxSafe
  /\ NextNumber(d) \notin Numbers

ApproveDraft(d) ==
  /\ Numberable(d)
  /\ NextNumber(d)[1] <= MaxLength  \* createFinnishDomesticReferenceNumber
  /\ Take(d, "standard")
  /\ UNCHANGED <<settings, active, events, request>>

\* a credit has no reference number, so nothing looks at the length of its number
ApproveCredit(d) ==
  /\ \E i \in DOMAIN invoices : invoices[i].kind = "standard" /\ invoices[i].status = "sent"
  /\ Numberable(d)
  /\ Take(d, "credit")
  /\ UNCHANGED <<settings, active, events, request>>

SetStatus(i, from, to) ==
  /\ invoices[i].status = from
  /\ invoices' = [invoices EXCEPT ![i].status = to]
  /\ UNCHANGED <<settings, sequences, active, events, request>>

MarkSent(i) == SetStatus(i, "approved", "sent")
Cancel(i) == SetStatus(i, "approved", "cancelled")
Reopen(i) == invoices[i].kind = "standard" /\ SetStatus(i, "approved", "reopened_for_edit")

(* Mutant: a reopened draft that is approved again takes a new number *)
ReapproveRenumbered(i) ==
  /\ invoices[i].status = "reopened_for_edit"
  /\ settings # <<>>
  /\ \E d \in Dates :
       /\ NextSequence(d) <= MaxSafe
       /\ invoices' = [invoices EXCEPT ![i] =
            [kind |-> "standard", series |-> active.key, scope |-> Scope(Current, d),
             sequence |-> NextSequence(d), number |-> NextNumber(d), status |-> "approved"]]
       /\ sequences' = [x \in DOMAIN sequences \cup {Slot(d)} |->
                          IF x = Slot(d) THEN NextSequence(d) ELSE sequences[x]]
  /\ UNCHANGED <<settings, active, events, request>>

\* the draft may have another date by now; the invoice keeps its number
Reapprove(i) == SetStatus(i, "reopened_for_edit", "approved")

Init ==
  /\ settings = <<>> /\ sequences = <<>> /\ active = NoSeries
  /\ events = <<>> /\ invoices = <<>>
  /\ request = [c \in Clients |-> Idle]

Next ==
  \/ \E c \in Clients :
       \/ \E s \in Offered : UpdateSettings(c, s) \/ ActivateSeries(c, s)
       \/ SaveSettings(c) \/ Activate(c)
  \/ \E d \in Dates : ApproveDraft(d) \/ ApproveCredit(d)
  \/ \E i \in DOMAIN invoices : MarkSent(i) \/ Cancel(i) \/ Reopen(i) \/ Reapprove(i)

Spec == Init /\ [][Next]_vars

-----------------------------------------------------------------------------
(* Properties.                                                             *)

Requests == {Idle} \cup [kind : {"update"}, settings : Offered]
            \cup [kind : {"activate"}, settings : Offered,
                  expected : [key : 1..MaxSeries, revision : 1..MaxSeries]]

(* Every series has settings within the ranges validateInvoiceNumberingSettings
   and the schema allow, the active pointer names one of them as its foreign key
   requires, and every sequence row holds a sequence number of a known series. *)
TypeOK ==
  /\ settings \in Seq(Offered) /\ Len(settings) <= MaxSeries
  /\ active \in {NoSeries} \cup [key : 1..Len(settings), revision : 1..MaxSeries]
  /\ active = NoSeries <=> settings = <<>>
  /\ \A x \in DOMAIN sequences : x[1] \in DOMAIN settings /\ sequences[x] \in 1..MaxSafe
  /\ \A e \in DOMAIN events : {events[e].previous, events[e].next} \subseteq DOMAIN settings
  /\ request \in [Clients -> Requests]

(* The number the next approval would take is never in use, whatever the date of
   the draft and whatever series were used before, so the constraint
   UNIQUE (company_id, invoice_number) never refuses an approval: what the check
   of the first number at activation is for. *)
NextNumberIsFree ==
  settings # <<>> => \A d \in Dates :
     NextSequence(d) <= MaximumSequence(Current) => NextNumber(d) \notin Numbers

(* The first number calculateMinimumSafeInvoiceSequenceNumber answers is exactly
   the least one from which the new series never meets an existing number, for
   any supported year and month; it answers exhausted exactly when there is none. *)
MinimumIsExact ==
  \A s \in Offered :
    LET dates == [year : 1..MaxYear, month : 1..Months]
        met == {n \in 1..MaximumSequence(s) : \E d \in dates : FormatNumber(s, d, n) \in Numbers}
        firsts == {n \in 1..MaximumSequence(s) : \A m \in met : m < n}
    IN  MinimumSafe(Numbers, s) = IF firsts = {} THEN 0 ELSE Min(firsts)

(* In every series and scope the numbers taken run from the series' first number
   to the last one recorded without a gap, and each belongs to one invoice:
   cancelling, reopening, approving again and switching series and back and forth
   between years neither lose nor spend a number. *)
SequencesHaveNoGaps ==
  LET of(x) == {i \in DOMAIN invoices : <<invoices[i].series, invoices[i].scope>> = x}
  IN  /\ \A i \in DOMAIN invoices : <<invoices[i].series, invoices[i].scope>> \in DOMAIN sequences
      /\ \A x \in DOMAIN sequences :
           /\ {invoices[i].sequence : i \in of(x)} = settings[x[1]].first..sequences[x]
           /\ Cardinality(of(x)) = sequences[x] - settings[x[1]].first + 1

(* The events of the series are one chain from the default series to the active
   one, one event for each revision, however activations overlap: no series is
   replaced twice and none is made active without a trace. *)
HistoryIsOneChain ==
  /\ TypeOK
  /\ settings # <<>> =>
       /\ active.revision = Len(events) + 1
       /\ active.key = IF events = <<>> THEN Default ELSE events[Len(events)].next
       /\ \A e \in DOMAIN events :
            events[e].previous = IF e = 1 THEN Default ELSE events[e - 1].next
       /\ {events[e].next : e \in DOMAIN events} = DOMAIN settings \ {Default}
=============================================================================
