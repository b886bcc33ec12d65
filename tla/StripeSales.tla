----------------------------- MODULE StripeSales -----------------------------
(***************************************************************************)
(* Sales reported by Stripe and the commissions on them:                   *)
(* src/src/lib/stripe-attribution.ts, src/src/lib/commissions.ts.          *)
(*                                                                         *)
(* Stripe delivers events at least once and in any order.  One receipt per *)
(* event and one per sale key make a sale count once; refunds carry the    *)
(* cumulative amount and are applied as differences.  A refund shrinks or  *)
(* claws back the commission while its owner approves, pays or reverses it.*)
(***************************************************************************)
EXTENDS Integers, Sequences, FiniteSets, FiniteSetsExt

CONSTANTS
    Purchases,      \* payments and subscriptions bought
    Renewals,       \* invoices of a subscription after its first
    Amount,         \* of each, in cents
    Refunds,        \* charge.refunded events
    RefundOf, Total,\* the purchase and its cumulative amount_refunded
    Tokened,        \* sale events whose token leads to a link of the account
    InOrder,        \* Stripe sends a refund only once its sale is recorded
    Requests,       \* webhook requests that may be under way at once
    ValueCap,       \* MAX_SALE_VALUE_CENTS
    RewardPercent,  \* of the sale value, 0 for no reward configuration
    Quota,          \* conversions the workspace may record
    MaxEdits,       \* bound: settings switched, quotas raised
    MaxFaults       \* bound: requests that die

(***************************************************************************)
(* A purchase p is reported by a checkout session <<"checkout", p>> and by *)
(* its first invoice <<"invoice", p>>; the pairs are also the sale keys.   *)
(* A renewal is reported by its own invoice.  One customer buys it all.    *)
(***************************************************************************)
Checkouts == {<<"checkout", p>> : p \in Purchases}
Invoices  == {<<"invoice", p>> : p \in Purchases \cup Renewals}
Sales     == Checkouts \cup Invoices
Events    == Sales \cup Refunds

NoSale == [state |-> "absent", refunded |-> 0]
NoCommission == [status |-> "absent", original |-> 0, amount |-> 0, clawback |-> 0]

VARIABLES
    receipt,        \* per event: outcome of its stripe_event_receipts row
    sale,           \* per sale key: its receipt row and refundedCents
    value,          \* per sale key: valueCents of its conversion
    daily,          \* conversion_daily: conversions and their value
    usage, quota,   \* conversions reserved, conversions allowed
    customer,       \* the customer has a StripeCustomerAttribution
    recurring, goal,\* trackRecurring, goal.enabled
    commission,     \* per sale key
    call,           \* per request: its event and progress
    locked,         \* sale keys an open refund transaction has updated
    acked,          \* events answered with a 2xx
    edits, faults,
    payouts         \* history: per sale key, the amounts paid

receiptVars == <<receipt, sale, value, daily, usage, customer>>
settingVars == <<quota, recurring, goal, edits>>
vars == <<receiptVars, settingVars, commission, call, locked, acked, faults, payouts>>

NoEvent == <<"none", "none">>
Idle == [step |-> "idle", event |-> NoEvent, recurring |-> TRUE, outcome |-> "none",
         sale |-> NoEvent, refunded |-> 0, row |-> NoCommission]

Init ==
    /\ receipt = [e \in Events |-> "none"]
    /\ sale = [s \in Sales |-> NoSale]
    /\ value = [s \in Sales |-> 0]
    /\ daily = [conversions |-> 0, valueCents |-> 0]
    /\ usage = 0 /\ quota = Quota
    /\ customer = FALSE /\ recurring = TRUE /\ goal = TRUE
    /\ commission = [s \in Sales |-> NoCommission]
    /\ call = [r \in Requests |-> Idle]
    /\ locked = {} /\ acked = {}
    /\ edits = 0 /\ faults = 0
    /\ payouts = [s \in Sales |-> <<>>]

At(r, step) == call[r].step = step
To(r, step) == call' = [call EXCEPT ![r].step = step]
Note(r, outcome) == call' = [call EXCEPT ![r].step = "receipt", ![r].outcome = outcome]
Finish(r) == call' = [call EXCEPT ![r] = Idle] /\ acked' = acked \cup {call[r].event}

(***************************************************************************)
(* The webhook route and the first queries of processStripeEvent.          *)
(***************************************************************************)
Recorded(p) == \E s \in Sales : s[2] = p /\ sale[s].state = "recorded"
Sent(e) == e \in Refunds /\ InOrder => Recorded(RefundOf[e])

Receive(r, e) ==
    /\ At(r, "idle") /\ Sent(e)
    /\ call' = [call EXCEPT ![r] = [Idle EXCEPT !.step = "seen", !.event = e, !.recurring = recurring]]
    /\ UNCHANGED <<receiptVars, settingVars, commission, locked, acked, faults, payouts>>

Seen(r) ==
    LET e == call[r].event IN
    /\ At(r, "seen")
    /\ \/ receipt[e] # "none" /\ Finish(r)
       \/ /\ receipt[e] = "none" /\ UNCHANGED acked
          /\ \/ e \in Refunds /\ To(r, "refund")
             \/ e \in Invoices /\ ~call[r].recurring /\ Note(r, "recurring_disabled")
             \/ e \in Sales /\ (e \in Checkouts \/ call[r].recurring) /\ To(r, "covered")
    /\ UNCHANGED <<receiptVars, settingVars, commission, locked, faults, payouts>>

\* writeReceipt; an event that has a receipt keeps it.
WriteReceipt(r) ==
    LET e == call[r].event IN
    /\ At(r, "receipt")
    /\ receipt' = IF receipt[e] = "none" THEN [receipt EXCEPT ![e] = call[r].outcome] ELSE receipt
    /\ Finish(r)
    /\ UNCHANGED <<sale, value, daily, usage, customer, settingVars, commission, locked, faults, payouts>>

(***************************************************************************)
(* Sales.                                                                  *)
(***************************************************************************)
SaleValue(s) == Min({Amount[s[2]], ValueCap})

Covered(r) ==
    LET s == call[r].event IN
    /\ At(r, "covered")
    /\ \/ sale[s] # NoSale /\ Note(r, IF s \in Invoices THEN "covered_by_checkout" ELSE "duplicate")
       \/ sale[s] = NoSale /\ SaleValue(s) = 0 /\ Note(r, "zero_amount")
       \/ sale[s] = NoSale /\ SaleValue(s) > 0 /\ To(r, "attribute")
    /\ UNCHANGED <<receiptVars, settingVars, commission, locked, acked, faults, payouts>>

\* An explicit token, or the click that first acquired the customer.
Attribute(r) ==
    /\ At(r, "attribute")
    /\ IF call[r].event \in Tokened \/ customer THEN To(r, "record") ELSE Note(r, "no_attribution")
    /\ UNCHANGED <<receiptVars, settingVars, commission, locked, acked, faults, payouts>>

KeysAlone(s) == {s}
KeysOf(s) == {s} \cup (IF s \in Checkouts THEN {<<"invoice", s[2]>>} ELSE {})

\* A key that exists already: P2002 rolls everything back.
Collides(s) == receipt[s] # "none" \/ \E k \in KeysOf(s) : sale[k] # NoSale

Reward(cents) == (cents * RewardPercent) \div 100

RefusedForNow(r) == call' = [call EXCEPT ![r] = Idle]

\* The transaction of a sale.
Record(r) ==
    LET s == call[r].event IN
    /\ At(r, "record")
    /\ \/ /\ Collides(s)
          /\ Finish(r) /\ UNCHANGED <<receiptVars, commission>>
       \/ /\ ~Collides(s) /\ usage >= quota
          /\ RefusedForNow(r)
          /\ UNCHANGED <<receiptVars, commission, acked>>
       \/ /\ ~Collides(s) /\ usage < quota /\ ~goal
          /\ Note(r, "goal_disabled") /\ UNCHANGED <<receiptVars, commission, acked>>
       \/ /\ ~Collides(s) /\ usage < quota /\ goal
          /\ sale' = [k \in Sales |->
                IF k = s THEN [state |-> "recorded", refunded |-> 0]
                ELSE IF k \in KeysOf(s) THEN [state |-> "covered", refunded |-> 0] ELSE sale[k]]
          /\ receipt' = [receipt EXCEPT ![s] = "recorded"]
          /\ value' = [value EXCEPT ![s] = SaleValue(s)]
          /\ daily' = [conversions |-> daily.conversions + 1,
                       valueCents |-> daily.valueCents + SaleValue(s)]
          /\ usage' = usage + 1
          /\ customer' = (customer \/ (s \in Tokened /\ call[r].recurring))
          /\ commission' = IF Reward(SaleValue(s)) = 0 THEN commission ELSE
                [commission EXCEPT ![s] = [status |-> "pending", original |-> Reward(SaleValue(s)),
                                           amount |-> Reward(SaleValue(s)), clawback |-> 0]]
          /\ Finish(r)
    /\ UNCHANGED <<settingVars, locked, faults, payouts>>

(***************************************************************************)
(* Refunds.                                                                *)
(***************************************************************************)
\* The sale of the payment intent: of a checkout, or of an invoice that came
\* first and recorded the purchase.
SalesOf(e) == {s \in Sales : s[2] = RefundOf[e] /\ sale[s].state = "recorded"}

FindSale(r) ==
    LET e == call[r].event IN
    /\ At(r, "refund")
    /\ \/ SalesOf(e) = {} /\ Note(r, "no_attribution")
       \/ \E s \in SalesOf(e) :
            call' = [call EXCEPT ![r].step = "claim", ![r].sale = s, ![r].refunded = sale[s].refunded]
    /\ UNCHANGED <<receiptVars, settingVars, commission, locked, acked, faults, payouts>>

\* The conditional update on refundedCents, which holds the row, and the reads
\* that follow it in the transaction.
IsNew(r) == sale[call[r].sale].refunded = call[r].refunded

ClaimRefund(r) ==
    LET e == call[r].event  s == call[r].sale IN
    /\ At(r, "claim")
    /\ \/ /\ Total[e] <= call[r].refunded /\ Note(r, "duplicate") /\ UNCHANGED locked
       \/ /\ Total[e] > call[r].refunded /\ s \notin locked
          /\ IF IsNew(r) /\ receipt[e] = "none"
             THEN /\ call' = [call EXCEPT ![r].step = "apply", ![r].row = commission[s]]
                  /\ locked' = locked \cup {s}
             ELSE Note(r, "duplicate") /\ UNCHANGED locked
    /\ UNCHANGED <<receiptVars, settingVars, commission, acked, faults, payouts>>

\* commissionAfterRefund
Owed(original, saleValue, refunded) ==
    (original * (saleValue - Min({saleValue, refunded}))) \div saleValue

RefundedDelta(r) == Total[call[r].event] - call[r].refunded
RefundedCents(r) == Total[call[r].event]

Reversed(r) == Min({value[call[r].sale], Total[call[r].event] - call[r].refunded})

\* applyRefundToCommission, from the row as it was read.
AfterRefund(row, saleValue, refunded) ==
    LET owed == Owed(row.original, saleValue, refunded) IN
    CASE row.status = "paid" -> [row EXCEPT !.clawback = row.original - owed]
      [] row.status \in {"reversed", "absent"} -> row
      [] OTHER -> [row EXCEPT !.amount = owed, !.status = IF owed = 0 THEN "reversed" ELSE @]

\* The row is updated by its id, whatever has become of it since it was read.
Written(row, was, now) ==
    CASE was.status \in {"reversed", "absent"} -> row
      [] was.status = "paid" -> [row EXCEPT !.clawback = now.clawback]
      [] OTHER -> [row EXCEPT !.amount = now.amount, !.status = now.status]

ApplyRefund(r) ==
    LET e == call[r].event  s == call[r].sale IN
    /\ At(r, "apply")
    /\ receipt' = [receipt EXCEPT ![e] = "refunded"]
    /\ sale' = [sale EXCEPT ![s].refunded = RefundedCents(r)]
    /\ value' = [value EXCEPT ![s] = @ - Reversed(r)]
    /\ daily' = [daily EXCEPT !.valueCents = @ - Reversed(r)]
    /\ commission' = [commission EXCEPT ![s] =
            Written(@, call[r].row, AfterRefund(call[r].row, SaleValue(s), RefundedCents(r)))]
    /\ locked' = locked \ {s}
    /\ Finish(r)
    /\ UNCHANGED <<usage, customer, settingVars, faults, payouts>>

(***************************************************************************)
(* transitionCommissions.                                                  *)
(***************************************************************************)
Move(s, from, to) ==
    /\ commission[s].status \in from
    /\ commission' = [commission EXCEPT ![s].status = to]
    /\ UNCHANGED <<receiptVars, settingVars, call, locked, acked, faults>>

Approve(s) == Move(s, {"pending"}, "approved") /\ UNCHANGED payouts
Pay(s) ==
    /\ Move(s, {"approved"}, "paid")
    /\ payouts' = [payouts EXCEPT ![s] = Append(@, commission[s].amount)]
Reverse(s) == Move(s, {"pending", "approved"}, "reversed") /\ UNCHANGED payouts

(***************************************************************************)
(* The owner's settings, quotas and deaths.                                *)
(***************************************************************************)
Switch ==
    /\ edits < MaxEdits /\ edits' = edits + 1
    /\ \/ recurring' = ~recurring /\ UNCHANGED goal
       \/ goal' = ~goal /\ UNCHANGED recurring
    /\ UNCHANGED <<receiptVars, quota, commission, call, locked, acked, faults, payouts>>

\* A new month, or a larger plan.
QuotaFrees ==
    /\ usage >= quota /\ quota' = Cardinality(Sales)
    /\ quota < quota'
    /\ UNCHANGED <<receiptVars, recurring, goal, edits, commission, call, locked, acked, faults, payouts>>

\* An open transaction is rolled back and Stripe sees no answer.
Die(r) ==
    /\ ~At(r, "idle")
    /\ faults < MaxFaults /\ faults' = faults + 1
    /\ call' = [call EXCEPT ![r] = Idle]
    /\ locked' = IF At(r, "apply") THEN locked \ {call[r].sale} ELSE locked
    /\ UNCHANGED <<receiptVars, settingVars, commission, acked, payouts>>

Handle(r) ==
    \/ Seen(r) \/ WriteReceipt(r) \/ Covered(r) \/ Attribute(r) \/ Record(r)
    \/ FindSale(r) \/ ClaimRefund(r) \/ ApplyRefund(r)

Next ==
    \/ \E r \in Requests : Handle(r) \/ Die(r) \/ \E e \in Events : Receive(r, e)
    \/ \E s \in Sales : Approve(s) \/ Pay(s) \/ Reverse(s)
    \/ Switch \/ QuotaFrees

Spec == Init /\ [][Next]_vars

(***************************************************************************)
(* Properties.                                                             *)
(***************************************************************************)
Outcomes == {"none", "recorded", "duplicate", "zero_amount", "no_attribution", "covered_by_checkout",
             "recurring_disabled", "goal_disabled", "refunded", "quota_exceeded"}
Statuses == {"absent", "pending", "approved", "paid", "reversed"}
Commissions == [status : Statuses, original : Nat, amount : Nat, clawback : Nat]

\* The variables stay in their types: no value, total or commission turns
\* negative, and a locked sale is locked by exactly one open refund.
TypeOK ==
    /\ receipt \in [Events -> Outcomes]
    /\ sale \in [Sales -> [state : {"absent", "recorded", "covered"}, refunded : Nat]]
    /\ value \in [Sales -> Nat] /\ daily \in [conversions : Nat, valueCents : Nat]
    /\ usage \in 0..quota /\ quota \in Nat
    /\ {customer, recurring, goal} \subseteq BOOLEAN
    /\ commission \in [Sales -> Commissions]
    /\ \A r \in Requests : call[r].outcome \in Outcomes /\ call[r].row \in Commissions
    /\ locked \subseteq Sales /\ acked \subseteq Events
    /\ \A s \in locked : Cardinality({r \in Requests : At(r, "apply") /\ call[r].sale = s}) = 1
    /\ edits \in 0..MaxEdits /\ faults \in 0..MaxFaults

\* stripe-attribution.ts:229 "a retried or duplicated delivery can never count a
\* sale twice": a purchase has one conversion, whether its checkout or its first
\* invoice reported it, and the daily count and the reserved usage agree.
SaleCountedOnce ==
    /\ TypeOK
    /\ \A p \in Purchases : Cardinality({s \in Sales : s[2] = p /\ sale[s].state = "recorded"}) <= 1
    /\ daily.conversions = Cardinality({s \in Sales : sale[s].state = "recorded"})
    /\ usage = daily.conversions

\* A sum, as the size of a set with an element for every cent.
Cents(f) == UNION {{s} \X (1..f[s]) : s \in DOMAIN f}

\* stripe-attribution.ts:416 "converge on the right net value": a conversion is
\* worth its sale less what was refunded, and the day's revenue is the sum.
NetRevenue ==
    /\ \A s \in Sales : sale[s].state = "recorded" =>
        value[s] = SaleValue(s) - Min({SaleValue(s), sale[s].refunded})
    /\ daily.valueCents = Cardinality(Cents(value))

\* commissions.ts:98 "Unpaid commissions just shrink": an unpaid commission is
\* what is owed for the refunds so far, whatever its owner does meanwhile.
UnpaidFollowsRefunds == \A s \in Sales : commission[s].status \in {"pending", "approved"} =>
    commission[s].amount = Owed(commission[s].original, SaleValue(s), sale[s].refunded)

\* stripe-attribution.ts:433 refunds are cumulative: once a refund has been
\* applied, no event that is older, repeated or concurrent takes it back.
AppliedRefundsStay == \A e \in Refunds : receipt[e] = "refunded" =>
    \E s \in SalesOf(e) : sale[s].refunded >= Total[e]

\* The three together: the conversion, the day's revenue and an unpaid commission
\* are net of every refund answered with "refunded", in whatever order they came.
NetOfRefunds == NetRevenue /\ UnpaidFollowsRefunds /\ AppliedRefundsStay

\* stripe-attribution.ts:415 "partial refunds, repeated refunds and redelivered
\* events all converge": an answered refund of a recorded sale is part of what
\* the sale has given back.
RefundsConverge == \A e \in acked \cap Refunds : \A s \in SalesOf(e) : sale[s].refunded >= Total[e]

(***************************************************************************)
(* Stronger claims, which the code does not keep.  No run checks them; the  *)
(* README names, for each, the constants under which TLC refutes it.       *)
(***************************************************************************)
\* commissions.ts:180 "racing admins or a repeated click change nothing twice":
\* no commission is paid out twice.
PaidOnce == \A s \in Sales : Len(payouts[s]) <= 1

\* commissions.ts:98 "paid ones keep their amount and record a clawback so the
\* next payout nets it off": what is left of a paid commission is what is owed.
NetPayable == \A s \in Sales : commission[s].status = "paid" =>
    commission[s].amount - commission[s].clawback
        = Owed(commission[s].original, SaleValue(s), sale[s].refunded)
================================================================================
