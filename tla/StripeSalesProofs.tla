--------------------------- MODULE StripeSalesProofs ---------------------------
(***************************************************************************)
(* Proofs about StripeSales for any purchases, renewals, refunds and       *)
(* requests, any amounts, caps, rewards and quotas, and any number of      *)
(* switches and deaths.                                                    *)
(***************************************************************************)
EXTENDS StripeSales, FiniteSetTheorems, TLAPS

\* What is sold and refunded: events have names of their own, and amounts are in
\* whole cents.
Setting ==
    /\ IsFiniteSet(Purchases) /\ IsFiniteSet(Renewals) /\ Refunds \cap Sales = {}
    /\ Amount \in [Purchases \cup Renewals -> Nat] /\ Total \in [Refunds -> Nat]
    /\ ValueCap \in Nat /\ RewardPercent \in Nat
    /\ Quota \in Nat /\ MaxEdits \in Nat /\ MaxFaults \in Nat

(***************************************************************************)
(* The invariant.                                                          *)
(***************************************************************************)
Steps == {"idle", "seen", "receipt", "covered", "attribute", "record", "refund", "claim", "apply"}
SaleRows == [state : {"absent", "recorded", "covered"}, refunded : Nat]
Calls == [step : Steps, event : Events \cup {NoEvent}, recurring : BOOLEAN, outcome : Outcomes,
          sale : Sales \cup {NoEvent}, refunded : Nat, row : Commissions]

Rows ==
    /\ receipt \in [Events -> Outcomes] /\ sale \in [Sales -> SaleRows]
    /\ value \in [Sales -> Nat] /\ daily \in [conversions : Nat, valueCents : Nat]
    /\ usage \in Nat /\ commission \in [Sales -> Commissions]
Controls ==
    /\ quota \in Nat /\ usage <= quota
    /\ customer \in BOOLEAN /\ recurring \in BOOLEAN /\ goal \in BOOLEAN
    /\ acked \subseteq Events /\ edits \in 0..MaxEdits /\ faults \in 0..MaxFaults
Shape == Rows /\ Controls /\ locked \subseteq Sales /\ call \in [Requests -> Calls]

IsRecorded(s) == sale[s].state = "recorded"
AllRecorded == {s \in Sales : IsRecorded(s)}

\* What was read of a commission and may still be written over: only an unpaid one
\* can have moved since.
Since(was, row) ==
    /\ row.original = was.original
    /\ was.status \in {"absent", "paid", "reversed"} => row.status = was.status

\* What each request knows at its next step.
CallOK(r) ==
    LET j == call[r] IN
    /\ j.step # "idle" => j.event \in Events
    /\ j.step = "receipt" => j.outcome # "refunded"
    /\ j.step \in {"covered", "attribute", "record"} => j.event \in Sales
    /\ j.step \in {"attribute", "record"} => SaleValue(j.event) > 0
    /\ j.step \in {"refund", "claim", "apply"} => j.event \in Refunds
    /\ j.step \in {"claim", "apply"} => j.sale \in SalesOf(j.event)
    /\ j.step = "apply" =>
        /\ j.sale \in locked /\ j.refunded = sale[j.sale].refunded /\ j.refunded < Total[j.event]
        /\ Since(j.row, commission[j.sale])

Holders(s) == {r \in Requests : At(r, "apply") /\ call[r].sale = s}
LockedByOne == \A s \in locked : \E r \in Requests : Holders(s) = {r}

\* A checkout that is recorded has covered the first invoice of its purchase.
InvoiceCovered == \A p \in Purchases :
    IsRecorded(<<"checkout", p>>) => sale[<<"invoice", p>>].state = "covered"

\* Only what is recorded has a value, and a commission.
Valued == \A s \in Sales :
    /\ IsRecorded(s) => SaleValue(s) > 0
    /\ ~IsRecorded(s) => value[s] = 0 /\ commission[s].status = "absent"

Counted == daily.conversions = Cardinality(AllRecorded) /\ usage = daily.conversions

Inv == /\ Shape /\ (\A r \in Requests : CallOK(r)) /\ LockedByOne
       /\ InvoiceCovered /\ Valued /\ Counted
       /\ NetRevenue /\ UnpaidFollowsRefunds /\ AppliedRefundsStay

(***************************************************************************)
(* Numbers.                                                                *)
(***************************************************************************)
LEMMA MinOfTwo ==
    ASSUME NEW a \in Int, NEW b \in Int
    PROVE  Min({a, b}) = IF a <= b THEN a ELSE b
<1> DEFINE m == IF a <= b THEN a ELSE b
<1>1. m \in {a, b} /\ \A y \in {a, b} : m <= y
  OBVIOUS
<1>2. \A x \in {a, b} : (\A y \in {a, b} : x <= y) => x = m
  OBVIOUS
<1>3. Min({a, b}) \in {a, b} /\ \A y \in {a, b} : Min({a, b}) <= y
  <2> HIDE DEF m
  <2> QED BY <1>1 DEF Min
<1> HIDE DEF m
<1>4. Min({a, b}) = m
  BY <1>2, <1>3
<1> QED BY <1>4 DEF m

LEMMA Quotient ==
    ASSUME NEW a \in Nat, NEW b \in Nat \ {0}
    PROVE  a \div b \in Nat /\ b * (a \div b) <= a
OBVIOUS

LEMMA SaleValueType ==
    ASSUME Setting, NEW s \in Sales
    PROVE  SaleValue(s) \in Nat
<1>1. s[2] \in Purchases \cup Renewals
  BY DEF Sales, Checkouts, Invoices
<1>2. Amount[s[2]] \in Int /\ ValueCap \in Int /\ Amount[s[2]] >= 0 /\ ValueCap >= 0
  BY <1>1 DEF Setting
<1>3. SaleValue(s) = IF Amount[s[2]] <= ValueCap THEN Amount[s[2]] ELSE ValueCap
  BY <1>2, MinOfTwo DEF SaleValue
<1> QED BY <1>2, <1>3

\* What is left of a commission after a refund is never more than it was.
LEMMA OwedBounds ==
    ASSUME NEW o \in Nat, NEW v \in Nat \ {0}, NEW r \in Nat
    PROVE  Owed(o, v, r) \in Nat /\ Owed(o, v, r) <= o
<1> DEFINE m == Min({v, r})
           k == v - m
<1>1. m = IF v <= r THEN v ELSE r
  BY MinOfTwo
<1>2. k \in Nat /\ k <= v
  BY <1>1
<1>3. Owed(o, v, r) = (o * k) \div v
  BY DEF Owed
<1> HIDE DEF m, k
<1>4. o * k \in Nat /\ o * k <= o * v
  BY <1>2
<1> DEFINE q == (o * k) \div v
<1>5. q \in Nat /\ v * q <= o * k
  BY <1>4, Quotient
<1> HIDE DEF q
<1>6. q <= o
  <2> SUFFICES ASSUME q > o PROVE FALSE
    BY <1>5
  <2>1. q >= o + 1
    BY <1>5
  <2>2. v * q >= v * (o + 1)
    BY <1>5, <2>1
  <2>3. v * (o + 1) = o * v + v
    OBVIOUS
  <2>4. v * q \in Nat /\ o * v \in Nat
    BY <1>5
  <2> QED BY <1>4, <1>5, <2>2, <2>3, <2>4
<1> QED BY <1>3, <1>5, <1>6 DEF q

LEMMA OwedInFull ==
    ASSUME NEW o \in Nat, NEW v \in Nat \ {0}
    PROVE  Owed(o, v, 0) = o
<1>1. Min({v, 0}) = 0
  <2>1. v \in Int /\ 0 \in Int /\ v > 0
    OBVIOUS
  <2> QED BY <2>1, MinOfTwo
<1>2. Owed(o, v, 0) = (o * v) \div v
  BY <1>1 DEF Owed
<1>3. (o * v) \div v = o
  OBVIOUS
<1> QED BY <1>2, <1>3

(***************************************************************************)
(* Counts and sums.                                                        *)
(***************************************************************************)
LEMMA SalesFinite == Setting => IsFiniteSet(Sales)
<1> SUFFICES ASSUME Setting
             PROVE  IsFiniteSet(Sales)
  OBVIOUS
<1> DEFINE Kinds == {"checkout", "invoice"}
           Bought == Purchases \cup Renewals
<1>1. IsFiniteSet(Kinds)
  <2>1. Kinds = {"checkout"} \cup {"invoice"}
    OBVIOUS
  <2>2. IsFiniteSet({"checkout"}) /\ IsFiniteSet({"invoice"})
    BY FS_Singleton
  <2> HIDE DEF Kinds
  <2> QED BY <2>1, <2>2, FS_Union
<1>2. IsFiniteSet(Bought)
  BY FS_Union DEF Setting
<1> HIDE DEF Kinds, Bought
<1>3. IsFiniteSet(Kinds \X Bought)
  BY <1>1, <1>2, FS_Product
<1>4. Sales \subseteq Kinds \X Bought
  BY DEF Sales, Checkouts, Invoices, Kinds, Bought
<1> QED BY <1>3, <1>4, FS_Subset

LEMMA ColumnSize ==
    ASSUME NEW x, NEW n \in Nat
    PROVE  IsFiniteSet({x} \X (1..n)) /\ Cardinality({x} \X (1..n)) = n
<1>1. IsFiniteSet(1..n) /\ Cardinality(1..n) = n
  BY FS_Interval
<1>2. IsFiniteSet({x}) /\ Cardinality({x}) = 1
  BY FS_Singleton
<1> DEFINE A == {x}
           B == 1..n
<1>3. IsFiniteSet(A) /\ Cardinality(A) = 1 /\ IsFiniteSet(B) /\ Cardinality(B) = n
  BY <1>1, <1>2
<1> HIDE DEF A, B
<1>4. IsFiniteSet(A \X B) /\ Cardinality(A \X B) = Cardinality(A) * Cardinality(B)
  BY <1>3, FS_Product
<1>5. IsFiniteSet(A \X B) /\ Cardinality(A \X B) = n
  BY <1>3, <1>4
<1> QED BY <1>5 DEF A, B

\* One of the values changes.
LEMMA CentsMove ==
    ASSUME NEW S, IsFiniteSet(S), NEW f \in [S -> Nat], NEW g \in [S -> Nat], NEW x \in S,
           \A y \in S \ {x} : g[y] = f[y]
    PROVE  /\ Cardinality(Cents(f)) \in Nat /\ f[x] <= Cardinality(Cents(f))
           /\ Cardinality(Cents(g)) = Cardinality(Cents(f)) - f[x] + g[x]
<1> DEFINE Columns == {{y} \X (1..f[y]) : y \in S \ {x}}
           Rest == UNION Columns
<1>1. IsFiniteSet(Rest) /\ Cardinality(Rest) \in Nat
  <2>1. IsFiniteSet(S \ {x})
    BY FS_RemoveElement
  <2> DEFINE column == [y \in S \ {x} |-> {y} \X (1..f[y])]
  <2>5. column \in Surjection(S \ {x}, Columns)
    BY DEF Surjection
  <2>2. IsFiniteSet(Columns)
    <3> HIDE DEF Columns, column
    <3> QED BY <2>1, <2>5, FS_Surjection
  <2>3. \A T \in Columns : IsFiniteSet(T)
    <3> SUFFICES ASSUME NEW y \in S \ {x}
                 PROVE  IsFiniteSet({y} \X (1..f[y]))
      OBVIOUS
    <3>1. f[y] \in Nat
      OBVIOUS
    <3> QED BY <3>1, ColumnSize
  <2> HIDE DEF Columns
  <2> QED BY <2>2, <2>3, FS_UNION, FS_CardinalityType
<1>2. ASSUME NEW h \in [S -> Nat], \A y \in S \ {x} : h[y] = f[y]
      PROVE  Cardinality(Cents(h)) = Cardinality(Rest) + h[x]
  <2> DEFINE mine == {x} \X (1..h[x])
  <2>1. IsFiniteSet(mine) /\ Cardinality(mine) = h[x] /\ h[x] \in Nat
    <3>1. h[x] \in Nat
      OBVIOUS
    <3> QED BY <3>1, ColumnSize
  <2>2. \A u : u \in Cents(h) <=> \E y \in S : u \in {y} \X (1..h[y])
    BY DEF Cents
  <2>3. \A u : u \in Rest <=> \E y \in S \ {x} : u \in {y} \X (1..h[y])
    BY <1>2
  <2>4. Cents(h) = mine \cup Rest
    <3>1. \A u : u \in Cents(h) <=> u \in mine \/ u \in Rest
      BY <2>2, <2>3
    <3> QED BY <3>1
  <2>5. mine \cap Rest = {}
    BY <2>3
  <2> HIDE DEF mine, Rest
  <2>6. Cardinality(mine \cap Rest) = 0
    BY <2>5, FS_EmptySet
  <2>7. Cardinality(Cents(h)) = Cardinality(mine) + Cardinality(Rest) - Cardinality(mine \cap Rest)
    BY <1>1, <2>1, <2>4, FS_Union
  <2> QED BY <1>1, <2>1, <2>6, <2>7
<1>3. f[x] \in Nat /\ g[x] \in Nat
  OBVIOUS
<1> HIDE DEF Rest
<1>4. Cardinality(Cents(f)) = Cardinality(Rest) + f[x] /\ Cardinality(Cents(g)) = Cardinality(Rest) + g[x]
  BY <1>2
<1> QED BY <1>1, <1>3, <1>4

\* An invariant's types are those of the specification.
LEMMA InvTypeOK == Inv => TypeOK
<1> SUFFICES ASSUME Inv
             PROVE  TypeOK
  OBVIOUS
<1>1. \A s \in locked : Cardinality({r \in Requests : At(r, "apply") /\ call[r].sale = s}) = 1
  <2> SUFFICES ASSUME NEW s \in locked
               PROVE  Cardinality(Holders(s)) = 1
    BY DEF Holders
  <2>1. PICK r \in Requests : Holders(s) = {r}
    BY DEF Inv, LockedByOne
  <2> QED BY <2>1, FS_Singleton
<1>2. \A r \in Requests : call[r].outcome \in Outcomes /\ call[r].row \in Commissions
  BY DEF Inv, Shape, Calls
<1>3. usage \in 0..quota /\ quota \in Nat /\ {customer, recurring, goal} \subseteq BOOLEAN
  BY DEF Inv, Shape, Rows, Controls
<1> QED BY <1>1, <1>2, <1>3 DEF Inv, Shape, Rows, Controls, TypeOK, SaleRows

LEMMA InvSales ==
    ASSUME Setting, Inv
    PROVE  SaleCountedOnce /\ NetOfRefunds
<1>1. ASSUME NEW p \in Purchases
      PROVE  Cardinality({s \in Sales : s[2] = p /\ sale[s].state = "recorded"}) <= 1
  <2> DEFINE Of == {s \in Sales : s[2] = p /\ sale[s].state = "recorded"}
  <2>1. Of \subseteq {<<"checkout", p>>, <<"invoice", p>>}
    BY DEF Sales, Checkouts, Invoices
  <2>2. ~(<<"checkout", p>> \in Of /\ <<"invoice", p>> \in Of)
    BY DEF Inv, InvoiceCovered, IsRecorded
  <2>3. Of = {} \/ \E s : Of = {s}
    <3> HIDE DEF Of
    <3> QED BY <2>1, <2>2
  <2> HIDE DEF Of
  <2>4. Cardinality(Of) = 0 \/ Cardinality(Of) = 1
    BY <2>3, FS_EmptySet, FS_Singleton
  <2> QED BY <2>4 DEF Of
<1>2. daily.conversions = Cardinality({s \in Sales : sale[s].state = "recorded"}) /\ usage = daily.conversions
  BY DEF Inv, Counted, AllRecorded, IsRecorded
<1> QED BY <1>1, <1>2, InvTypeOK DEF SaleCountedOnce, NetOfRefunds, Inv

(***************************************************************************)
(* Frames.                                                                 *)
(***************************************************************************)
Books == InvoiceCovered /\ Valued /\ Counted /\ NetRevenue /\ UnpaidFollowsRefunds /\ AppliedRefundsStay

\* The books are kept in six variables.
LEMMA BooksRest ==
    ASSUME Books, UNCHANGED <<receipt, sale, value, daily, usage, commission>>
    PROVE  Books'
<1>1. InvoiceCovered' /\ Valued' /\ Counted'
  BY DEF Books, InvoiceCovered, Valued, Counted, AllRecorded, IsRecorded
<1>2. NetRevenue'
  BY DEF Books, NetRevenue, Cents
<1>3. UnpaidFollowsRefunds' /\ AppliedRefundsStay'
  BY DEF Books, UnpaidFollowsRefunds, AppliedRefundsStay, SalesOf
<1> QED BY <1>1, <1>2, <1>3 DEF Books

\* What a request knows stays true while the sales stay recorded and nothing
\* touches the row it holds.
LEMMA StaysOK ==
    ASSUME Shape, NEW q \in Requests, CallOK(q), call'[q] = call[q],
           \A s \in Sales : IsRecorded(s) => IsRecorded(s)',
           At(q, "apply") => /\ call[q].sale \in locked'
                             /\ sale'[call[q].sale].refunded = sale[call[q].sale].refunded
                             /\ Since(call[q].row, commission'[call[q].sale])
    PROVE  CallOK(q)'
<1>1. call[q].step = "apply" => At(q, "apply")
  BY DEF At
<1>2. call[q].step \in {"claim", "apply"} => call[q].sale \in SalesOf(call[q].event)'
  BY DEF CallOK, SalesOf, IsRecorded
<1> QED BY <1>1, <1>2 DEF CallOK, Since, SaleValue

\* A step of one request that does not end holding a row, nor began so.
LEMMA CallMoves ==
    ASSUME Shape, LockedByOne, NEW r \in Requests, ~At(r, "apply"),
           call' = [call EXCEPT ![r] = call'[r]], call'[r].step # "apply", UNCHANGED locked
    PROVE  LockedByOne'
<1>1. \A q \in Requests \ {r} : call'[q] = call[q]
  BY DEF Shape
<1>2. ASSUME NEW s PROVE Holders(s)' = Holders(s)
  BY <1>1 DEF Holders, At
<1> QED BY <1>2 DEF LockedByOne

\* A request that lets go of the row it holds leaves the other rows to the others.
LEMMA LetsGo ==
    ASSUME Shape, \A q \in Requests : CallOK(q), LockedByOne, NEW r \in Requests, At(r, "apply"),
           call' = [call EXCEPT ![r] = call'[r]], call'[r].step # "apply",
           locked' = locked \ {call[r].sale}
    PROVE  /\ LockedByOne' /\ call[r].sale \in locked
           /\ \A q \in Requests \ {r} : At(q, "apply") =>
                call[q].sale # call[r].sale /\ call[q].sale \in locked'
<1>1. \A q \in Requests \ {r} : call'[q] = call[q]
  BY DEF Shape
<1>2. \A q \in Requests : At(q, "apply") => call[q].sale \in locked /\ q \in Holders(call[q].sale)
  BY DEF CallOK, At, Holders
<1>3. \A q \in Requests \ {r} : At(q, "apply") => call[q].sale # call[r].sale
  BY <1>2 DEF LockedByOne
<1>4. ASSUME NEW s \in locked', NEW q PROVE q \in Holders(s)' <=> q \in Holders(s)
  BY <1>1, <1>2 DEF Holders, At
<1>5. \A s \in locked' : Holders(s)' = Holders(s)
  BY <1>4
<1>6. LockedByOne'
  BY <1>5 DEF LockedByOne
<1> QED BY <1>2, <1>3, <1>6

\* A step that changes only what one request knows and the owner's settings.
LEMMA CallKeeps ==
    ASSUME Inv, NEW r \in Requests, call' = [call EXCEPT ![r] = call'[r]],
           call'[r] \in Calls, CallOK(r)', ~At(r, "apply"), call'[r].step # "apply",
           UNCHANGED <<receipt, sale, value, daily, usage, commission, locked>>, Controls'
    PROVE  Inv'
<1>1. \A q \in Requests \ {r} : call'[q] = call[q]
  BY DEF Inv, Shape
<1>2. Shape'
  BY <1>1 DEF Inv, Shape, Rows
<1>3. ASSUME NEW q \in Requests \ {r} PROVE CallOK(q)'
  <2>1. call'[q] = call[q] /\ CallOK(q) /\ Shape
    BY <1>1 DEF Inv
  <2>2. At(q, "apply") => call[q].sale \in locked /\ Since(call[q].row, commission[call[q].sale])
    BY <2>1 DEF CallOK, At
  <2>3. \A s \in Sales : IsRecorded(s) => IsRecorded(s)'
    BY DEF IsRecorded
  <2> QED BY <2>1, <2>2, <2>3, StaysOK
<1>4. LockedByOne'
  BY CallMoves DEF Inv
<1>5. Books'
  BY BooksRest DEF Inv, Books
<1> QED BY <1>2, <1>3, <1>4, <1>5 DEF Inv, Books

(***************************************************************************)
(* Steps that only read, and answers.                                      *)
(***************************************************************************)
LEMMA NothingHeld ==
    /\ Idle \in Calls /\ Idle.step = "idle" /\ NoCommission \in Commissions
    /\ \A e \in Events : [Idle EXCEPT !.step = "seen", !.event = e, !.recurring = recurring].event = e
BY DEF Idle, Calls, Steps, Outcomes, Commissions, Statuses, NoCommission

\* A request that has finished knows nothing.
LEMMA IdleOK ==
    ASSUME NEW r \in Requests, call'[r] = Idle
    PROVE  call'[r] \in Calls /\ CallOK(r)' /\ call'[r].step # "apply"
<1>1. call'[r].step = "idle" /\ call'[r] \in Calls
  BY NothingHeld
<1> QED BY <1>1 DEF CallOK

LEMMA ReceiveKeeps ==
    ASSUME Inv, NEW r \in Requests, NEW e \in Events, Receive(r, e) PROVE Inv'
<1> DEFINE c == [Idle EXCEPT !.step = "seen", !.event = e, !.recurring = recurring]
<1>1. recurring \in BOOLEAN /\ call \in [Requests -> Calls]
  BY DEF Inv, Shape, Controls
<1>2. c \in Calls /\ c.step = "seen" /\ c.event = e
  BY <1>1, NothingHeld DEF Idle, Calls, Steps
<1>3. call' = [call EXCEPT ![r] = c] /\ ~At(r, "apply")
  BY DEF Receive, At
<1> HIDE DEF c
<1>4. call'[r] = c /\ call' = [call EXCEPT ![r] = call'[r]]
  BY <1>1, <1>3
<1>5. CallOK(r)'
  BY <1>2, <1>4 DEF CallOK
<1>6. Controls' /\ UNCHANGED <<receipt, sale, value, daily, usage, commission, locked>>
  BY DEF Inv, Shape, Controls, Receive, receiptVars, settingVars
<1> QED BY <1>2, <1>3, <1>4, <1>5, <1>6, CallKeeps

\* The request notes its progress: the next step knows what it needs.
LEMMA StepsOn ==
    ASSUME Inv, NEW r \in Requests, NEW step \in Steps, NEW outcome \in Outcomes,
           call' = [call EXCEPT ![r].step = step, ![r].outcome = outcome],
           ~At(r, "idle"), ~At(r, "apply"), step \in {"receipt", "refund", "covered", "attribute", "record"},
           step = "receipt" => outcome # "refunded",
           step \in {"covered", "attribute", "record"} => call[r].event \in Sales,
           step \in {"attribute", "record"} => SaleValue(call[r].event) > 0,
           step = "refund" => call[r].event \in Refunds
    PROVE  /\ call' = [call EXCEPT ![r] = call'[r]] /\ call'[r] \in Calls
           /\ CallOK(r)' /\ call'[r].step # "apply"
<1>1. call \in [Requests -> Calls] /\ CallOK(r)
  BY DEF Inv, Shape
<1>2. call'[r] = [call[r] EXCEPT !.step = step, !.outcome = outcome] /\ call[r] \in Calls
  BY <1>1
<1>3. call'[r].step = step /\ call'[r].outcome = outcome /\ call'[r].event = call[r].event
  BY <1>2 DEF Calls
<1>4. call'[r] \in Calls
  <2> DEFINE c == call[r]
             d == [c EXCEPT !.step = step, !.outcome = outcome]
  <2>1. c \in Calls
    BY <1>2
  <2> HIDE DEF c
  <2>2. d \in Calls
    BY <2>1 DEF Calls
  <2> QED BY <1>2, <2>2 DEF c
<1>5. call' = [call EXCEPT ![r] = call'[r]]
  BY <1>1
<1>6. CallOK(r)'
  BY <1>1, <1>3 DEF CallOK, At, SaleValue
<1> QED BY <1>3, <1>4, <1>5, <1>6

\* To and Note, and the answer that ends a request.
LEMMA ReadsKeep ==
    ASSUME Inv, NEW r \in Requests, ~At(r, "idle"), ~At(r, "apply"),
           UNCHANGED <<receiptVars, settingVars, commission, locked, faults>>,
           \/ Finish(r)
           \/ RefusedForNow(r) /\ UNCHANGED acked
           \/ /\ UNCHANGED acked
              /\ \/ To(r, "refund") /\ call[r].event \in Refunds
                 \/ To(r, "covered") /\ call[r].event \in Sales
                 \/ /\ To(r, "attribute") \/ To(r, "record")
                    /\ call[r].event \in Sales /\ SaleValue(call[r].event) > 0
                 \/ \E o \in Outcomes \ {"refunded"} : Note(r, o)
    PROVE  Inv'
<1>1. call \in [Requests -> Calls] /\ CallOK(r) /\ acked \subseteq Events /\ call[r] \in Calls
  BY DEF Inv, Shape, Controls
<1>2. call[r].event \in Events
  BY <1>1 DEF CallOK, At
<1>3. UNCHANGED <<receipt, sale, value, daily, usage, commission, locked>>
  BY DEF receiptVars
<1>4. Controls'
  <2>1. acked' \subseteq Events
    BY <1>1, <1>2 DEF Finish
  <2> QED BY <2>1 DEF Inv, Shape, Controls, receiptVars, settingVars
<1>5. ASSUME call'[r] \in Calls, CallOK(r)', call'[r].step # "apply",
             call' = [call EXCEPT ![r] = call'[r]]
      PROVE  Inv'
  BY <1>3, <1>4, <1>5, CallKeeps
<1>6. CASE Finish(r) \/ RefusedForNow(r)
  <2>1. call'[r] = Idle /\ call' = [call EXCEPT ![r] = call'[r]]
    BY <1>1, <1>6 DEF Finish, RefusedForNow
  <2> QED BY <1>5, <2>1, IdleOK
<1>7. ASSUME NEW o \in Outcomes \ {"refunded"}, Note(r, o) PROVE Inv'
  <2>1. call' = [call EXCEPT ![r].step = "receipt", ![r].outcome = o] /\ "receipt" \in Steps
    BY <1>7 DEF Note, Steps
  <2>2. /\ call' = [call EXCEPT ![r] = call'[r]] /\ call'[r] \in Calls
        /\ CallOK(r)' /\ call'[r].step # "apply"
    BY <1>7, <2>1, StepsOn
  <2> QED BY <1>5, <2>2
<1>8. ASSUME NEW t \in {"refund", "covered", "attribute", "record"}, To(r, t),
             t = "refund" => call[r].event \in Refunds,
             t # "refund" => call[r].event \in Sales,
             t \in {"attribute", "record"} => SaleValue(call[r].event) > 0
      PROVE  Inv'
  <2>1. call[r].outcome \in Outcomes /\ t \in Steps
    BY <1>1 DEF Calls, Steps
  <2> DEFINE o == call[r].outcome
  <2>2. call' = [call EXCEPT ![r].step = t, ![r].outcome = o]
    <3>1. [call[r] EXCEPT !.step = t] = [call[r] EXCEPT !.step = t, !.outcome = o]
      BY <1>1 DEF Calls
    <3> QED BY <1>1, <1>8, <3>1 DEF To
  <2> HIDE DEF o
  <2>3. o \in Outcomes
    BY <2>1 DEF o
  <2>4. /\ call' = [call EXCEPT ![r] = call'[r]] /\ call'[r] \in Calls
        /\ CallOK(r)' /\ call'[r].step # "apply"
    BY <1>8, <2>1, <2>2, <2>3, StepsOn
  <2> QED BY <1>5, <2>4
<1>9. CASE To(r, "refund") /\ call[r].event \in Refunds
  BY <1>8, <1>9
<1>10. CASE To(r, "covered") /\ call[r].event \in Sales
  BY <1>8, <1>10
<1>11. CASE (To(r, "attribute") \/ To(r, "record")) /\ call[r].event \in Sales /\ SaleValue(call[r].event) > 0
  BY <1>8, <1>11
<1> QED BY <1>6, <1>7, <1>9, <1>10, <1>11

LEMMA SeenKeeps == ASSUME Inv, NEW r \in Requests, Seen(r) PROVE Inv'
<1>1. ~At(r, "idle") /\ ~At(r, "apply")
  BY DEF Seen, At
<1>2. "recurring_disabled" \in Outcomes \ {"refunded"} /\ Invoices \subseteq Sales
  BY DEF Outcomes, Sales
<1> QED BY <1>1, <1>2, ReadsKeep DEF Seen

LEMMA CoveredKeeps == ASSUME Inv, NEW r \in Requests, Covered(r) PROVE Inv'
<1>1. ~At(r, "idle") /\ ~At(r, "apply") /\ call[r].event \in Sales
  BY DEF Covered, At, Inv, CallOK
<1>2. {"covered_by_checkout", "duplicate", "zero_amount"} \subseteq Outcomes \ {"refunded"}
  BY DEF Outcomes
<1>3. \/ \E o \in Outcomes \ {"refunded"} : Note(r, o)
      \/ SaleValue(call[r].event) > 0 /\ To(r, "attribute")
  BY <1>2 DEF Covered
<1>4. UNCHANGED acked /\ UNCHANGED <<receiptVars, settingVars, commission, locked, faults>>
  BY DEF Covered
<1> QED BY <1>1, <1>3, <1>4, ReadsKeep

LEMMA AttributeKeeps == ASSUME Inv, NEW r \in Requests, Attribute(r) PROVE Inv'
<1>1. ~At(r, "idle") /\ ~At(r, "apply") /\ call[r].event \in Sales /\ SaleValue(call[r].event) > 0
  BY DEF Attribute, At, Inv, CallOK
<1>2. "no_attribution" \in Outcomes \ {"refunded"}
  BY DEF Outcomes
<1> QED BY <1>1, <1>2, ReadsKeep DEF Attribute

LEMMA FindSaleKeeps == ASSUME Inv, NEW r \in Requests, FindSale(r) PROVE Inv'
<1>1. ~At(r, "idle") /\ ~At(r, "apply") /\ call[r].event \in Refunds
  BY DEF FindSale, At, Inv, CallOK
<1>2. UNCHANGED <<receiptVars, settingVars, commission, locked, acked, faults>>
  BY DEF FindSale
<1>3. CASE Note(r, "no_attribution")
  <2>1. "no_attribution" \in Outcomes \ {"refunded"}
    BY DEF Outcomes
  <2> QED BY <1>1, <1>2, <1>3, <2>1, ReadsKeep
<1>4. ASSUME NEW s \in SalesOf(call[r].event),
             call' = [call EXCEPT ![r].step = "claim", ![r].sale = s, ![r].refunded = sale[s].refunded]
      PROVE  Inv'
  <2>1. call \in [Requests -> Calls] /\ call[r] \in Calls /\ s \in Sales /\ sale[s] \in SaleRows
    BY DEF Inv, Shape, Rows, SalesOf
  <2>2. sale[s].refunded \in Nat
    BY <2>1 DEF SaleRows
  <2>3. call'[r] = [call[r] EXCEPT !.step = "claim", !.sale = s, !.refunded = sale[s].refunded]
    BY <1>4, <2>1
  <2>4. call'[r].step = "claim" /\ call'[r].sale = s /\ call'[r].event = call[r].event
    BY <2>1, <2>3 DEF Calls
  <2>5. call'[r] \in Calls /\ call' = [call EXCEPT ![r] = call'[r]]
    <3>1. call'[r] \in Calls
      BY <2>1, <2>2, <2>3 DEF Calls, Steps
    <3>2. call' = [call EXCEPT ![r] = call'[r]]
      BY <1>4, <2>1
    <3> QED BY <3>1, <3>2
  <2>6. CallOK(r)'
    <3>1. sale' = sale
      BY <1>2 DEF receiptVars
    <3> QED BY <1>1, <2>4, <3>1 DEF CallOK, SalesOf, Events
  <2>7. Controls' /\ UNCHANGED <<receipt, sale, value, daily, usage, commission, locked>>
    BY <1>2 DEF Inv, Shape, Controls, receiptVars, settingVars
  <2> QED BY <1>1, <2>4, <2>5, <2>6, <2>7, CallKeeps
<1> QED BY <1>3, <1>4 DEF FindSale

LEMMA WriteReceiptKeeps == ASSUME Inv, NEW r \in Requests, WriteReceipt(r) PROVE Inv'
<1> DEFINE e == call[r].event
<1>1. /\ call \in [Requests -> Calls] /\ CallOK(r) /\ call[r] \in Calls
      /\ receipt \in [Events -> Outcomes] /\ acked \subseteq Events
  BY DEF Inv, Shape, Rows, Controls
<1>2. ~At(r, "apply") /\ e \in Events /\ call[r].outcome \in Outcomes /\ call[r].outcome # "refunded"
  BY <1>1 DEF WriteReceipt, At, CallOK, Calls
<1>3. call' = [call EXCEPT ![r] = Idle] /\ acked' \subseteq Events
  BY <1>1, <1>2 DEF WriteReceipt, Finish
<1>4. call'[r] = Idle /\ \A q \in Requests \ {r} : call'[q] = call[q]
  BY <1>1, <1>3
<1>5. call'[r] \in Calls /\ CallOK(r)' /\ call'[r].step # "apply" /\ call' = [call EXCEPT ![r] = call'[r]]
  BY <1>3, <1>4, IdleOK
<1>6. UNCHANGED <<sale, value, daily, usage, commission, locked>>
  BY DEF WriteReceipt
<1>7. receipt' \in [Events -> Outcomes]
  BY <1>1, <1>2 DEF WriteReceipt
<1>8. Shape'
  <2>1. call' \in [Requests -> Calls]
    BY <1>1, <1>5
  <2> QED BY <1>3, <1>6, <1>7, <2>1 DEF Inv, Shape, Rows, Controls, WriteReceipt, settingVars
<1>9. ASSUME NEW q \in Requests \ {r} PROVE CallOK(q)'
  <2>1. call'[q] = call[q] /\ CallOK(q) /\ Shape
    BY <1>4 DEF Inv
  <2>2. At(q, "apply") => call[q].sale \in locked /\ Since(call[q].row, commission[call[q].sale])
    BY <2>1 DEF CallOK, At
  <2>3. \A s \in Sales : IsRecorded(s) => IsRecorded(s)'
    BY <1>6 DEF IsRecorded
  <2> QED BY <1>6, <2>1, <2>2, <2>3, StaysOK
<1>10. LockedByOne'
  BY <1>2, <1>5, <1>6, CallMoves DEF Inv
<1>11. InvoiceCovered' /\ Valued' /\ Counted'
  BY <1>6 DEF Inv, InvoiceCovered, Valued, Counted, AllRecorded, IsRecorded
<1>12. NetRevenue' /\ UnpaidFollowsRefunds'
  BY <1>6 DEF Inv, NetRevenue, UnpaidFollowsRefunds, Cents
<1>13. AppliedRefundsStay'
  <2>1. \A f \in Events : receipt'[f] = "refunded" => receipt[f] = "refunded"
    BY <1>1, <1>2 DEF WriteReceipt
  <2>2. Refunds \subseteq Events
    BY DEF Events
  <2> QED BY <1>6, <2>1, <2>2 DEF Inv, AppliedRefundsStay, SalesOf
<1> QED BY <1>5, <1>8, <1>9, <1>10, <1>11, <1>12, <1>13 DEF Inv

(***************************************************************************)
(* The owner.                                                              *)
(***************************************************************************)
LEMMA SettingsKeep ==
    ASSUME Inv, Controls', UNCHANGED <<receiptVars, commission, call, locked>> PROVE Inv'
<1>1. Shape' /\ LockedByOne'
  BY DEF Inv, Shape, Rows, receiptVars, LockedByOne, Holders, At
<1>2. ASSUME NEW q \in Requests PROVE CallOK(q)'
  BY DEF Inv, CallOK, receiptVars, SalesOf, Since, SaleValue
<1>3. Books'
  BY BooksRest DEF Inv, Books, receiptVars
<1> QED BY <1>1, <1>2, <1>3 DEF Inv, Books

LEMMA SwitchKeeps == ASSUME Setting, Inv, Switch PROVE Inv'
<1>1. edits \in 0..MaxEdits /\ MaxEdits \in Nat
  BY DEF Inv, Shape, Controls, Setting
<1>2. edits' \in 0..MaxEdits
  BY <1>1 DEF Switch
<1>3. Controls'
  BY <1>2 DEF Inv, Shape, Controls, Switch, receiptVars
<1> QED BY <1>3, SettingsKeep DEF Switch

LEMMA QuotaKeeps == ASSUME Setting, Inv, QuotaFrees PROVE Inv'
<1>1. quota' = Cardinality(Sales) /\ Cardinality(Sales) \in Nat /\ quota < quota'
  BY SalesFinite, FS_CardinalityType DEF QuotaFrees
<1>2. usage \in Nat /\ usage <= quota /\ quota \in Nat
  BY DEF Inv, Shape, Rows, Controls
<1>3. quota' \in Nat /\ usage' <= quota'
  BY <1>1, <1>2 DEF QuotaFrees, receiptVars
<1>4. Controls'
  BY <1>3 DEF Inv, Shape, Controls, QuotaFrees, receiptVars
<1> QED BY <1>4, SettingsKeep DEF QuotaFrees

\* The owner moves a commission: an amount that is still unpaid stays as it is, and
\* what a refund has read of it is still true.
LEMMA MoveKeeps ==
    ASSUME Inv, NEW s \in Sales, NEW from \in SUBSET {"pending", "approved"}, NEW to \in Statuses \ {"absent"},
           Move(s, from, to)
    PROVE  Inv'
<1>1. commission \in [Sales -> Commissions] /\ commission[s] \in Commissions
  BY DEF Inv, Shape, Rows
<1>2. UNCHANGED <<receiptVars, settingVars, call, locked, acked, faults>>
  BY DEF Move
<1>3. UNCHANGED <<receipt, sale, value, daily, usage, locked, call>> /\ UNCHANGED <<customer, quota, recurring, goal, edits>>
  BY <1>2 DEF receiptVars, settingVars
<1>4. commission' = [commission EXCEPT ![s].status = to] /\ commission[s].status \in {"pending", "approved"}
  BY DEF Move
<1>5. commission'[s] = [commission[s] EXCEPT !.status = to] /\ \A k \in Sales \ {s} : commission'[k] = commission[k]
  BY <1>1, <1>4
<1>6. /\ commission'[s].status = to /\ commission'[s].original = commission[s].original
      /\ commission'[s].amount = commission[s].amount
  BY <1>1, <1>5 DEF Commissions
<1>7. commission' \in [Sales -> Commissions]
  BY <1>1, <1>4 DEF Commissions
<1>8. Shape' /\ LockedByOne'
  BY <1>2, <1>3, <1>7 DEF Inv, Shape, Rows, Controls, LockedByOne, Holders, At
<1>9. ASSUME NEW q \in Requests PROVE CallOK(q)'
  <2>1. call'[q] = call[q] /\ CallOK(q) /\ Shape
    BY <1>3 DEF Inv
  <2>2. At(q, "apply") => call[q].sale \in locked /\ Since(call[q].row, commission[call[q].sale])
    BY <2>1 DEF CallOK, At
  <2>3. At(q, "apply") => call[q].sale \in Sales
    BY <2>1 DEF CallOK, At, SalesOf
  <2>4. At(q, "apply") => Since(call[q].row, commission'[call[q].sale])
    BY <1>4, <1>5, <1>6, <2>2, <2>3 DEF Since
  <2>5. \A k \in Sales : IsRecorded(k) => IsRecorded(k)'
    BY <1>3 DEF IsRecorded
  <2> QED BY <1>3, <2>1, <2>2, <2>4, <2>5, StaysOK
<1>10. InvoiceCovered' /\ Counted' /\ NetRevenue' /\ AppliedRefundsStay'
  BY <1>3 DEF Inv, InvoiceCovered, Counted, AllRecorded, IsRecorded, NetRevenue, Cents, AppliedRefundsStay, SalesOf
<1>11. Valued'
  BY <1>3, <1>4, <1>5, <1>6 DEF Inv, Valued, IsRecorded, SaleValue
<1>12. UnpaidFollowsRefunds'
  BY <1>3, <1>4, <1>5, <1>6 DEF Inv, UnpaidFollowsRefunds
<1> QED BY <1>8, <1>9, <1>10, <1>11, <1>12 DEF Inv

LEMMA OwnerKeeps == ASSUME Inv, NEW s \in Sales, Approve(s) \/ Pay(s) \/ Reverse(s) PROVE Inv'
<1>1. Move(s, {"pending"}, "approved") \/ Move(s, {"approved"}, "paid") \/ Move(s, {"pending", "approved"}, "reversed")
  BY DEF Approve, Pay, Reverse
<1>2. {"approved", "paid", "reversed"} \subseteq Statuses \ {"absent"}
  BY DEF Statuses
<1>3. CASE Move(s, {"pending"}, "approved")
  BY <1>2, <1>3, MoveKeeps
<1>4. CASE Move(s, {"approved"}, "paid")
  BY <1>2, <1>4, MoveKeeps
<1>5. CASE Move(s, {"pending", "approved"}, "reversed")
  BY <1>2, <1>5, MoveKeeps
<1> QED BY <1>1, <1>3, <1>4, <1>5

(***************************************************************************)
(* Refunds: a claim holds the row, a death lets go of it.                  *)
(***************************************************************************)
LEMMA ClaimKeeps == ASSUME Inv, NEW r \in Requests, ClaimRefund(r) PROVE Inv'
<1> DEFINE e == call[r].event
           s == call[r].sale
<1>1. ~At(r, "idle") /\ ~At(r, "apply") /\ e \in Refunds /\ s \in SalesOf(e)
  BY DEF ClaimRefund, At, Inv, CallOK
<1>2. UNCHANGED <<receiptVars, settingVars, commission, acked, faults>>
  BY DEF ClaimRefund
<1>3. CASE Note(r, "duplicate") /\ UNCHANGED locked
  <2>1. "duplicate" \in Outcomes \ {"refunded"}
    BY DEF Outcomes
  <2> QED BY <1>1, <1>2, <1>3, <2>1, ReadsKeep
<1>4. CASE /\ Total[e] > call[r].refunded /\ s \notin locked /\ IsNew(r)
           /\ call' = [call EXCEPT ![r].step = "apply", ![r].row = commission[s]]
           /\ locked' = locked \cup {s}
  <2>1. /\ call \in [Requests -> Calls] /\ call[r] \in Calls /\ s \in Sales
        /\ commission[s] \in Commissions /\ locked \subseteq Sales
    BY <1>1 DEF Inv, Shape, Rows, SalesOf
  <2>2. call'[r] = [call[r] EXCEPT !.step = "apply", !.row = commission[s]]
    BY <1>4, <2>1
  <2>3. \A q \in Requests \ {r} : call'[q] = call[q]
    BY <1>4, <2>1
  <2>4. /\ call'[r].step = "apply" /\ call'[r].sale = s /\ call'[r].event = e
        /\ call'[r].refunded = call[r].refunded /\ call'[r].row = commission[s]
    BY <2>1, <2>2 DEF Calls
  <2>5. call'[r] \in Calls
    BY <2>1, <2>2 DEF Calls, Steps
  <2>6. UNCHANGED <<receipt, sale, value, daily, usage, commission>>
    BY <1>2 DEF receiptVars
  <2>7. Shape'
    <3>1. call' \in [Requests -> Calls] /\ locked' \subseteq Sales
      BY <1>4, <2>1, <2>5
    <3> QED BY <1>2, <2>6, <3>1 DEF Inv, Shape, Rows, Controls, receiptVars, settingVars
  <2>8. CallOK(r)'
    <3>1. sale[s].refunded = call[r].refunded /\ call[r].refunded < Total[e] /\ s \in locked'
      <4>1. sale[s].refunded = call[r].refunded /\ s \in locked'
        BY <1>4 DEF IsNew
      <4> QED BY <1>4, <4>1
    <3>2. Since(commission[s], commission[s])
      BY DEF Since
    <3>3. e \in Events
      BY <1>1 DEF Events
    <3> HIDE DEF e, s
    <3> QED BY <1>1, <2>4, <2>6, <3>1, <3>2, <3>3 DEF CallOK, SalesOf
  <2>9. ASSUME NEW q \in Requests \ {r} PROVE CallOK(q)'
    <3>1. call'[q] = call[q] /\ CallOK(q) /\ Shape
      BY <2>3 DEF Inv
    <3>2. At(q, "apply") => call[q].sale \in locked' /\ Since(call[q].row, commission[call[q].sale])
      BY <1>4, <3>1 DEF CallOK, At
    <3>3. \A k \in Sales : IsRecorded(k) => IsRecorded(k)'
      BY <2>6 DEF IsRecorded
    <3> QED BY <2>6, <3>1, <3>2, <3>3, StaysOK
  <2>10. LockedByOne'
    <3>1. \A q \in Requests : At(q, "apply") => call[q].sale # s
      BY <1>4 DEF Inv, CallOK, At
    <3>2. ASSUME NEW k, k = s, NEW q PROVE q \in Holders(k)' <=> q = r
      BY <2>3, <2>4, <3>1, <3>2 DEF Holders, At
    <3>3. \A k : k = s => Holders(k)' = {r}
      BY <3>2
    <3>4. ASSUME NEW k \in locked, NEW q PROVE q \in Holders(k)' <=> q \in Holders(k)
      BY <1>1, <1>4, <2>3, <2>4 DEF Holders, At
    <3>5. \A k \in locked : Holders(k)' = Holders(k)
      BY <3>4
    <3>6. ASSUME NEW k \in locked' PROVE \E q \in Requests : Holders(k)' = {q}
      <4>1. CASE k = s
        BY <3>3, <4>1
      <4>2. CASE k \in locked
        <5>1. PICK q \in Requests : Holders(k) = {q}
          BY <4>2 DEF Inv, LockedByOne
        <5> QED BY <3>5, <4>2, <5>1
      <4> QED BY <1>4, <4>1, <4>2
    <3> QED BY <3>6 DEF LockedByOne
  <2>11. Books'
    BY <2>6, BooksRest DEF Inv, Books
  <2> QED BY <2>7, <2>8, <2>9, <2>10, <2>11 DEF Inv, Books
<1> QED BY <1>3, <1>4 DEF ClaimRefund

LEMMA DieKeeps == ASSUME Setting, Inv, NEW r \in Requests, Die(r) PROVE Inv'
<1>1. call \in [Requests -> Calls] /\ faults \in 0..MaxFaults /\ MaxFaults \in Nat
  BY DEF Inv, Shape, Controls, Setting
<1>2. call' = [call EXCEPT ![r] = Idle] /\ call'[r] = Idle
  BY <1>1 DEF Die
<1>3. call'[r] \in Calls /\ CallOK(r)' /\ call'[r].step # "apply" /\ call' = [call EXCEPT ![r] = call'[r]]
  BY <1>2, IdleOK
<1>4. UNCHANGED <<receipt, sale, value, daily, usage, commission>>
  BY DEF Die, receiptVars
<1>5. faults' \in 0..MaxFaults
  BY <1>1 DEF Die
<1>6. Controls'
  BY <1>4, <1>5 DEF Inv, Shape, Controls, Die, receiptVars, settingVars
<1>7. CASE ~At(r, "apply")
  <2>1. UNCHANGED locked
    BY <1>7 DEF Die
  <2> QED BY <1>3, <1>4, <1>6, <1>7, <2>1, CallKeeps
<1>8. CASE At(r, "apply")
  <2>1. locked' = locked \ {call[r].sale}
    BY <1>8 DEF Die
  <2>2. /\ LockedByOne' /\ call[r].sale \in locked
        /\ \A q \in Requests \ {r} : At(q, "apply") =>
             call[q].sale # call[r].sale /\ call[q].sale \in locked'
    BY <1>3, <1>8, <2>1, LetsGo DEF Inv
  <2>3. \A q \in Requests \ {r} : call'[q] = call[q]
    BY <1>1, <1>2
  <2>4. Shape'
    <3>1. call' \in [Requests -> Calls] /\ locked' \subseteq Sales
      BY <1>1, <1>3, <2>1 DEF Inv, Shape
    <3> QED BY <1>4, <1>6, <3>1 DEF Inv, Shape, Rows
  <2>5. ASSUME NEW q \in Requests \ {r} PROVE CallOK(q)'
    <3>1. call'[q] = call[q] /\ CallOK(q) /\ Shape
      BY <2>3 DEF Inv
    <3>2. At(q, "apply") => call[q].sale \in locked' /\ Since(call[q].row, commission[call[q].sale])
      BY <2>2, <3>1 DEF CallOK, At
    <3>3. \A k \in Sales : IsRecorded(k) => IsRecorded(k)'
      BY <1>4 DEF IsRecorded
    <3> QED BY <1>4, <3>1, <3>2, <3>3, StaysOK
  <2>6. Books'
    BY <1>4, BooksRest DEF Inv, Books
  <2> QED BY <1>3, <2>2, <2>4, <2>5, <2>6 DEF Inv, Books
<1> QED BY <1>7, <1>8

(***************************************************************************)
(* A sale is recorded.                                                     *)
(***************************************************************************)
NewCommission(s) == [status |-> "pending", original |-> Reward(SaleValue(s)),
                     amount |-> Reward(SaleValue(s)), clawback |-> 0]

\* What the transaction of a sale that collides with nothing writes.
Recording(s) ==
    /\ sale' = [k \in Sales |->
          IF k = s THEN [state |-> "recorded", refunded |-> 0]
          ELSE IF k \in KeysOf(s) THEN [state |-> "covered", refunded |-> 0] ELSE sale[k]]
    /\ receipt' = [receipt EXCEPT ![s] = "recorded"]
    /\ value' = [value EXCEPT ![s] = SaleValue(s)]
    /\ daily' = [conversions |-> daily.conversions + 1,
                 valueCents |-> daily.valueCents + SaleValue(s)]
    /\ usage' = usage + 1
    /\ commission' = IF Reward(SaleValue(s)) = 0 THEN commission
                     ELSE [commission EXCEPT ![s] = NewCommission(s)]

\* The sale was absent and is recorded; what was recorded stays as it is.
LEMMA RecordedRows ==
    ASSUME Inv, NEW s \in Sales, ~Collides(s), Recording(s)
    PROVE  /\ ~IsRecorded(s) /\ sale'[s] = [state |-> "recorded", refunded |-> 0]
           /\ \A k \in Sales : IsRecorded(k)' <=> k = s \/ IsRecorded(k)
           /\ \A k \in Sales : IsRecorded(k) => sale'[k] = sale[k] /\ k # s
           /\ \A k \in Sales : sale[k].state = "covered" => sale'[k] = sale[k] /\ k # s
<1>1. s \in KeysOf(s) /\ \A k \in KeysOf(s) : sale[k] = NoSale
  BY DEF Collides, KeysOf
<1>2. \A k \in KeysOf(s) : sale[k].state = "absent"
  BY <1>1 DEF NoSale
<1>3. \A k \in Sales : sale'[k] = IF k = s THEN [state |-> "recorded", refunded |-> 0]
          ELSE IF k \in KeysOf(s) THEN [state |-> "covered", refunded |-> 0] ELSE sale[k]
  BY DEF Recording
<1>4. sale'[s].state = "recorded" /\ \A k \in KeysOf(s) \ {s} : k \in Sales => sale'[k].state = "covered"
  BY <1>3
<1>5. \A k \in Sales \ KeysOf(s) : sale'[k] = sale[k]
  BY <1>1, <1>3
<1> QED BY <1>1, <1>2, <1>3, <1>4, <1>5 DEF IsRecorded

LEMMA RewardType == ASSUME Setting, NEW s \in Sales PROVE Reward(SaleValue(s)) \in Nat
<1> DEFINE v == SaleValue(s)
<1>1. v \in Nat /\ RewardPercent \in Nat
  BY SaleValueType DEF Setting
<1> HIDE DEF v
<1>2. v * RewardPercent \in Nat
  BY <1>1
<1>3. (v * RewardPercent) \div 100 \in Nat
  BY <1>2
<1> QED BY <1>3 DEF Reward, v

LEMMA RecordedCommissions ==
    ASSUME Setting, Inv, NEW s \in Sales, ~Collides(s), Recording(s)
    PROVE  /\ commission' \in [Sales -> Commissions]
           /\ \A k \in Sales \ {s} : commission'[k] = commission[k]
           /\ \/ commission'[s].status = "absent"
              \/ /\ commission'[s].status = "pending"
                 /\ commission'[s].amount = commission'[s].original /\ commission'[s].original \in Nat
<1>1. commission \in [Sales -> Commissions] /\ commission[s].status = "absent"
  BY RecordedRows DEF Inv, Shape, Rows, Valued
<1>2. NewCommission(s) \in Commissions
  BY RewardType DEF NewCommission, Commissions, Statuses
<1>3. CASE Reward(SaleValue(s)) = 0
  BY <1>1, <1>3 DEF Recording
<1>4. CASE Reward(SaleValue(s)) # 0
  <2>1. commission' = [commission EXCEPT ![s] = NewCommission(s)]
    BY <1>4 DEF Recording
  <2>2. commission'[s] = NewCommission(s) /\ \A k \in Sales \ {s} : commission'[k] = commission[k]
    BY <1>1, <2>1
  <2>3. commission' \in [Sales -> Commissions]
    BY <1>1, <1>2, <2>1
  <2>4. NewCommission(s).status = "pending" /\ NewCommission(s).amount = NewCommission(s).original
    BY DEF NewCommission
  <2>5. NewCommission(s).original \in Nat
    BY RewardType DEF NewCommission
  <2> QED BY <2>2, <2>3, <2>4, <2>5
<1> QED BY <1>3, <1>4

LEMMA RecordedBooks ==
    ASSUME Setting, Inv, NEW s \in Sales, SaleValue(s) > 0, ~Collides(s), Recording(s)
    PROVE  Books'
<1>1. SaleValue(s) \in Nat /\ IsFiniteSet(Sales)
  BY SaleValueType, SalesFinite
<1>2. value \in [Sales -> Nat] /\ value[s] = 0 /\ value[s] \in Nat
  BY RecordedRows DEF Inv, Shape, Rows, Valued
<1>3. value' \in [Sales -> Nat] /\ value'[s] = SaleValue(s) /\ \A k \in Sales \ {s} : value'[k] = value[k]
  BY <1>1, <1>2 DEF Recording
<1>4. InvoiceCovered'
  <2> SUFFICES ASSUME NEW p \in Purchases, IsRecorded(<<"checkout", p>>)'
               PROVE  sale'[<<"invoice", p>>].state = "covered"
    BY DEF InvoiceCovered
  <2>1. <<"checkout", p>> \in Sales /\ <<"invoice", p>> \in Sales /\ <<"checkout", p>> \in Checkouts
    BY DEF Sales, Checkouts, Invoices
  <2>2. CASE s = <<"checkout", p>>
    <3>1. <<"invoice", p>> \in KeysOf(s) /\ <<"invoice", p>> # s
      BY <2>1, <2>2 DEF KeysOf
    <3> QED BY <2>1, <3>1 DEF Recording
  <2>3. CASE s # <<"checkout", p>>
    <3>1. IsRecorded(<<"checkout", p>>)
      BY <2>1, <2>3, RecordedRows
    <3>2. sale[<<"invoice", p>>].state = "covered"
      BY <3>1 DEF Inv, InvoiceCovered
    <3> QED BY <2>1, <3>2, RecordedRows
  <2> QED BY <2>2, <2>3
<1>5. Valued'
  <2> SUFFICES ASSUME NEW k \in Sales
               PROVE  /\ IsRecorded(k)' => SaleValue(k) > 0
                      /\ ~IsRecorded(k)' => value'[k] = 0 /\ commission'[k].status = "absent"
    BY DEF Valued, SaleValue
  <2>1. CASE k = s
    BY <2>1, RecordedRows
  <2>2. CASE k # s
    <3>1. IsRecorded(k)' <=> IsRecorded(k)
      BY <2>2, RecordedRows
    <3>2. value'[k] = value[k] /\ commission'[k] = commission[k]
      BY <1>3, <2>2, RecordedCommissions
    <3> QED BY <3>1, <3>2 DEF Inv, Valued
  <2> QED BY <2>1, <2>2
<1>6. Counted'
  <2>1. AllRecorded' = AllRecorded \cup {s} /\ s \notin AllRecorded
    BY RecordedRows DEF AllRecorded
  <2>2. IsFiniteSet(AllRecorded)
    BY <1>1, FS_Subset DEF AllRecorded
  <2>3. Cardinality(AllRecorded') = Cardinality(AllRecorded) + 1
    BY <2>1, <2>2, FS_AddElement
  <2>4. daily'.conversions = daily.conversions + 1 /\ usage' = usage + 1
    BY DEF Recording
  <2>5. daily.conversions = Cardinality(AllRecorded) /\ usage = daily.conversions
    BY DEF Inv, Counted
  <2>6. Counted' <=> daily'.conversions = Cardinality(AllRecorded') /\ usage' = daily'.conversions
    BY DEF Counted
  <2> QED BY <2>3, <2>4, <2>5, <2>6
<1>7. NetRevenue'
  <2>1. Cardinality(Cents(value')) = Cardinality(Cents(value)) - value[s] + value'[s]
    BY <1>1, <1>2, <1>3, CentsMove
  <2>2. Cardinality(Cents(value)) \in Nat
    BY <1>1, <1>2, <1>3, CentsMove
  <2>3. daily'.valueCents = Cardinality(Cents(value'))
    <3>1. daily'.valueCents = daily.valueCents + SaleValue(s) /\ daily.valueCents = Cardinality(Cents(value))
      BY DEF Recording, Inv, NetRevenue
    <3> QED BY <1>1, <1>2, <1>3, <2>1, <2>2, <3>1
  <2>4. ASSUME NEW k \in Sales, sale'[k].state = "recorded"
        PROVE  value'[k] = SaleValue(k) - Min({SaleValue(k), sale'[k].refunded})
    <3>1. CASE k = s
      <4> DEFINE v == SaleValue(s)
      <4>1. v \in Int /\ 0 \in Int /\ ~(v <= 0)
        BY <1>1
      <4>2. sale'[k].refunded = 0
        BY <3>1, RecordedRows
      <4> HIDE DEF v
      <4>3. Min({v, 0}) = 0
        BY <4>1, MinOfTwo
      <4>4. value'[k] = v
        BY <1>3, <3>1 DEF v
      <4>5. value'[k] = v - Min({v, sale'[k].refunded})
        BY <4>1, <4>2, <4>3, <4>4
      <4> QED BY <3>1, <4>5 DEF v
    <3>2. CASE k # s
      <4>1. IsRecorded(k)
        BY <2>4, <3>2, RecordedRows DEF IsRecorded
      <4>2. sale'[k] = sale[k] /\ value'[k] = value[k]
        BY <1>3, <3>2, <4>1, RecordedRows
      <4> QED BY <4>1, <4>2 DEF Inv, NetRevenue, IsRecorded
    <3> QED BY <3>1, <3>2
  <2> QED BY <2>3, <2>4 DEF NetRevenue, Cents, SaleValue
<1>8. UnpaidFollowsRefunds'
  <2> SUFFICES ASSUME NEW k \in Sales, commission'[k].status \in {"pending", "approved"}
               PROVE  commission'[k].amount = Owed(commission'[k].original, SaleValue(k), sale'[k].refunded)
    BY DEF UnpaidFollowsRefunds, Owed, SaleValue
  <2>1. CASE k = s
    <3>1. commission'[s].amount = commission'[s].original /\ commission'[s].original \in Nat
      BY <2>1, RecordedCommissions
    <3>2. sale'[s].refunded = 0 /\ SaleValue(s) \in Nat \ {0}
      BY <1>1, RecordedRows
    <3> DEFINE o == commission'[s].original
               v == SaleValue(s)
    <3>3. o \in Nat /\ v \in Nat \ {0}
      BY <3>1, <3>2
    <3> HIDE DEF o, v
    <3>4. Owed(o, v, 0) = o
      BY <3>3, OwedInFull
    <3> QED BY <2>1, <3>1, <3>2, <3>4 DEF o, v
  <2>2. CASE k # s
    <3>1. commission'[k] = commission[k]
      BY <2>2, RecordedCommissions
    <3>2. IsRecorded(k)
      BY <3>1 DEF Inv, Valued
    <3>3. sale'[k] = sale[k]
      BY <3>2, RecordedRows
    <3> QED BY <3>1, <3>3 DEF Inv, UnpaidFollowsRefunds
  <2> QED BY <2>1, <2>2
<1>9. AppliedRefundsStay'
  <2> SUFFICES ASSUME NEW e \in Refunds, receipt'[e] = "refunded"
               PROVE  \E k \in Sales : k[2] = RefundOf[e] /\ sale'[k].state = "recorded" /\ sale'[k].refunded >= Total[e]
    BY DEF AppliedRefundsStay, SalesOf
  <2>1. receipt[e] = "refunded"
    <3>1. receipt \in [Events -> Outcomes] /\ e \in Events /\ s \in Events
      BY DEF Inv, Shape, Rows, Events
    <3> QED BY <3>1 DEF Recording
  <2>2. PICK k \in SalesOf(e) : sale[k].refunded >= Total[e]
    BY <2>1 DEF Inv, AppliedRefundsStay
  <2>3. k \in Sales /\ k[2] = RefundOf[e] /\ IsRecorded(k)
    BY <2>2 DEF SalesOf, IsRecorded
  <2>4. sale'[k] = sale[k]
    BY <2>3, RecordedRows
  <2> QED BY <2>2, <2>3, <2>4 DEF IsRecorded
<1> QED BY <1>4, <1>5, <1>6, <1>7, <1>8, <1>9 DEF Books

LEMMA RecordKeeps == ASSUME Setting, Inv, NEW r \in Requests, Record(r) PROVE Inv'
<1> DEFINE s == call[r].event
<1>1. ~At(r, "idle") /\ ~At(r, "apply") /\ s \in Sales /\ SaleValue(s) > 0
  BY DEF Record, At, Inv, CallOK
<1>2. UNCHANGED <<settingVars, locked, faults>>
  BY DEF Record
<1>3. CASE Finish(r) /\ UNCHANGED <<receiptVars, commission>>
  BY <1>1, <1>2, <1>3, ReadsKeep
<1>4. CASE RefusedForNow(r) /\ UNCHANGED <<receiptVars, commission, acked>>
  BY <1>1, <1>2, <1>4, ReadsKeep
<1>5. CASE Note(r, "goal_disabled") /\ UNCHANGED <<receiptVars, commission, acked>>
  <2>1. "goal_disabled" \in Outcomes \ {"refunded"}
    BY DEF Outcomes
  <2> QED BY <1>1, <1>2, <1>5, <2>1, ReadsKeep
<1>6. CASE /\ ~Collides(s) /\ usage < quota /\ Recording(s) /\ Finish(r)
           /\ customer' = (customer \/ (s \in Tokened /\ call[r].recurring))
  <2>1. /\ call \in [Requests -> Calls] /\ call[r] \in Calls /\ acked \subseteq Events
        /\ receipt \in [Events -> Outcomes] /\ sale \in [Sales -> SaleRows] /\ value \in [Sales -> Nat]
        /\ daily \in [conversions : Nat, valueCents : Nat] /\ usage \in Nat /\ quota \in Nat
        /\ customer \in BOOLEAN /\ commission \in [Sales -> Commissions]
    BY DEF Inv, Shape, Rows, Controls
  <2>2. SaleValue(s) \in Nat
    BY <1>1, SaleValueType
  <2>3. call' = [call EXCEPT ![r] = Idle] /\ acked' \subseteq Events
    BY <1>1, <1>6, <2>1 DEF Finish, Events
  <2>4. call'[r] = Idle /\ \A q \in Requests \ {r} : call'[q] = call[q]
    BY <2>1, <2>3
  <2>5. call'[r] \in Calls /\ CallOK(r)' /\ call'[r].step # "apply" /\ call' = [call EXCEPT ![r] = call'[r]]
    BY <2>3, <2>4, IdleOK
  <2>6. Rows'
    <3>1. receipt' \in [Events -> Outcomes]
      BY <1>6, <2>1 DEF Recording, Outcomes
    <3>2. sale' \in [Sales -> SaleRows]
      BY <1>6, <2>1 DEF Recording, SaleRows
    <3>3. value' \in [Sales -> Nat]
      BY <1>6, <2>1, <2>2 DEF Recording
    <3>4. daily' \in [conversions : Nat, valueCents : Nat] /\ usage' \in Nat
      <4> HIDE DEF s
      <4>1. daily.conversions \in Nat /\ daily.valueCents \in Nat
        BY <2>1
      <4> QED BY <1>6, <2>1, <2>2, <4>1 DEF Recording
    <3>5. commission' \in [Sales -> Commissions]
      BY <1>1, <1>6, RecordedCommissions
    <3> QED BY <3>1, <3>2, <3>3, <3>4, <3>5 DEF Rows
  <2>7. Controls'
    <3>1. usage' <= quota' /\ quota' \in Nat
      BY <1>2, <1>6, <2>1 DEF Recording, settingVars
    <3>2. customer' \in BOOLEAN
      <4>1. call[r].recurring \in BOOLEAN
        BY <2>1 DEF Calls
      <4> QED BY <1>6, <2>1, <4>1
    <3> QED BY <1>2, <2>3, <3>1, <3>2 DEF Inv, Shape, Controls, settingVars
  <2>8. Shape'
    <3>1. call' \in [Requests -> Calls]
      BY <2>1, <2>5
    <3> QED BY <1>2, <2>6, <2>7, <3>1 DEF Inv, Shape
  <2>9. ASSUME NEW q \in Requests \ {r} PROVE CallOK(q)'
    <3>1. call'[q] = call[q] /\ CallOK(q) /\ Shape
      BY <2>4 DEF Inv
    <3>2. \A k \in Sales : IsRecorded(k) => IsRecorded(k)' /\ sale'[k] = sale[k] /\ k # s
      BY <1>1, <1>6, RecordedRows
    <3>3. At(q, "apply") => /\ call[q].sale \in locked /\ Since(call[q].row, commission[call[q].sale])
                            /\ call[q].sale \in Sales /\ IsRecorded(call[q].sale)
      BY <3>1 DEF CallOK, At, SalesOf, IsRecorded
    <3>4. \A k \in Sales \ {s} : commission'[k] = commission[k]
      BY <1>1, <1>6, RecordedCommissions
    <3>5. At(q, "apply") => /\ call[q].sale \in locked' /\ sale'[call[q].sale].refunded = sale[call[q].sale].refunded
                            /\ Since(call[q].row, commission'[call[q].sale])
      <4> HIDE DEF s
      <4> QED BY <1>2, <3>2, <3>3, <3>4
    <3> QED BY <3>1, <3>2, <3>5, StaysOK
  <2>10. LockedByOne'
    BY <1>1, <1>2, <2>5, CallMoves DEF Inv
  <2>11. Books'
    BY <1>1, <1>6, RecordedBooks
  <2> QED BY <2>5, <2>8, <2>9, <2>10, <2>11 DEF Inv, Books
<1>7. Record(r) => \/ Finish(r) /\ UNCHANGED <<receiptVars, commission>>
                   \/ RefusedForNow(r) /\ UNCHANGED <<receiptVars, commission, acked>>
                   \/ Note(r, "goal_disabled") /\ UNCHANGED <<receiptVars, commission, acked>>
                   \/ /\ ~Collides(s) /\ usage < quota /\ Recording(s) /\ Finish(r)
                      /\ customer' = (customer \/ (s \in Tokened /\ call[r].recurring))
  BY DEF Record, Recording, NewCommission
<1> QED BY <1>3, <1>4, <1>5, <1>6, <1>7

(***************************************************************************)
(* A refund is applied.                                                    *)
(***************************************************************************)
\* What a sale is worth after a larger refund, from what it was worth.
LEMMA WorthLess ==
    ASSUME NEW v \in Nat, NEW old \in Nat, NEW total \in Nat, old < total
    PROVE  LET w == v - Min({v, old})
           IN  w - Min({w, total - old}) = v - Min({v, total}) /\ w - Min({w, total - old}) \in Nat
<1> DEFINE w == v - Min({v, old})
           d == total - old
<1>1. Min({v, old}) = (IF v <= old THEN v ELSE old) /\ Min({v, total}) = (IF v <= total THEN v ELSE total)
  BY MinOfTwo
<1>2. w = (IF v <= old THEN 0 ELSE v - old) /\ w \in Nat
  BY <1>1
<1>3. d \in Int
  OBVIOUS
<1>4. Min({w, d}) = IF w <= d THEN w ELSE d
  <2> HIDE DEF w, d
  <2> QED BY <1>2, <1>3, MinOfTwo
<1>5. w - Min({w, d}) = v - Min({v, total}) /\ w - Min({w, d}) \in Nat
  <2> DEFINE m == Min({w, d})
             n == Min({v, total})
  <2>1. m = (IF w <= d THEN w ELSE d) /\ n = (IF v <= total THEN v ELSE total)
    BY <1>1, <1>4
  <2>2. d = total - old
    OBVIOUS
  <2> HIDE DEF w, d, m, n
  <2>3. w - m = v - n /\ w - m \in Nat
    BY <1>2, <2>1, <2>2
  <2> QED BY <2>3 DEF m, n
<1> QED BY <1>5

\* The commission afterwards, from what was read of it at the claim.
LEMMA AfterRefundRow ==
    ASSUME NEW row \in Commissions, NEW was \in Commissions, Since(was, row),
           NEW v \in Nat \ {0}, NEW total \in Nat
    PROVE  LET new == Written(row, was, AfterRefund(was, v, total)) IN
           /\ new \in Commissions /\ new.original = row.original
           /\ new.status \in {"absent", "paid", "reversed"} \/ new.amount = Owed(new.original, v, total)
<1> DEFINE owed == Owed(was.original, v, total)
           new == Written(row, was, AfterRefund(was, v, total))
<1>1. was.original \in Nat /\ row.original = was.original /\ was.status \in Statuses
  BY DEF Commissions, Since
<1>2. owed \in Nat /\ owed <= was.original
  <2> DEFINE o == was.original
  <2>1. o \in Nat
    BY <1>1
  <2> HIDE DEF o
  <2>2. Owed(o, v, total) \in Nat /\ Owed(o, v, total) <= o
    BY <2>1, OwedBounds
  <2> QED BY <2>2 DEF o
<1> HIDE DEF owed
<1>3. CASE was.status \in {"reversed", "absent"}
  <2>1. new = row
    BY <1>3 DEF Written
  <2>2. row.status = was.status
    BY <1>3 DEF Since
  <2> HIDE DEF new
  <2> QED BY <1>3, <2>1, <2>2 DEF new
<1>4. CASE was.status = "paid"
  <2>1. AfterRefund(was, v, total) = [was EXCEPT !.clawback = was.original - owed]
    BY <1>4 DEF AfterRefund, owed
  <2>2. AfterRefund(was, v, total).clawback = was.original - owed
    BY <2>1 DEF Commissions
  <2>3. new = [row EXCEPT !.clawback = was.original - owed]
    BY <1>4, <2>2 DEF Written
  <2>4. was.original - owed \in Nat
    BY <1>1, <1>2
  <2> DEFINE c == was.original - owed
  <2> HIDE DEF new, c
  <2>5. new = [row EXCEPT !.clawback = c] /\ c \in Nat
    BY <2>3, <2>4 DEF c
  <2>6. new \in Commissions /\ new.original = row.original /\ new.status = row.status
    BY <2>5 DEF Commissions
  <2>7. row.status = "paid"
    BY <1>4 DEF Since
  <2> QED BY <2>6, <2>7 DEF new
<1>5. CASE was.status \in {"pending", "approved"}
  <2> DEFINE status == IF owed = 0 THEN "reversed" ELSE was.status
  <2>1. AfterRefund(was, v, total) = [was EXCEPT !.amount = owed, !.status = status]
    BY <1>5 DEF AfterRefund, owed, Commissions
  <2>2. status \in Statuses \ {"absent"}
    BY <1>5 DEF Statuses
  <2> HIDE DEF status
  <2>3. AfterRefund(was, v, total).amount = owed /\ AfterRefund(was, v, total).status = status
    BY <2>1 DEF Commissions
  <2>4. new = [row EXCEPT !.amount = owed, !.status = status]
    BY <1>5, <2>3 DEF Written
  <2> HIDE DEF new
  <2>5. new \in Commissions /\ new.original = row.original /\ new.amount = owed
    BY <1>2, <2>2, <2>4 DEF Commissions
  <2>6. new.amount = Owed(new.original, v, total)
    BY <1>1, <2>5 DEF owed
  <2> QED BY <2>5, <2>6 DEF new
<1> QED BY <1>1, <1>3, <1>4, <1>5 DEF Statuses

\* The row of the sale s, its conversion, the day and the commission after the
\* refund e.
Applied(s, e) ==
    /\ s \in Sales /\ e \in Refunds /\ IsRecorded(s) /\ s[2] = RefundOf[e] /\ s \in locked
    /\ sale[s].refunded < Total[e]
    /\ sale' \in [Sales -> SaleRows] /\ sale'[s].state = "recorded" /\ sale'[s].refunded = Total[e]
    /\ \A k \in Sales \ {s} : sale'[k] = sale[k]
    /\ value' \in [Sales -> Nat] /\ \A k \in Sales \ {s} : value'[k] = value[k]
    /\ value'[s] = SaleValue(s) - Min({SaleValue(s), Total[e]})
    /\ commission' \in [Sales -> Commissions] /\ \A k \in Sales \ {s} : commission'[k] = commission[k]
    /\ commission'[s].original = commission[s].original
    /\ \/ commission'[s].status \in {"absent", "paid", "reversed"}
       \/ commission'[s].amount = Owed(commission'[s].original, SaleValue(s), Total[e])

LEMMA AppliedRows ==
    ASSUME Setting, Inv, NEW r \in Requests, ApplyRefund(r)
    PROVE  \E s \in Sales, e \in Refunds :
              s = call[r].sale /\ e = call[r].event /\ Applied(s, e)
<1>15. PICK s : s = call[r].sale
  OBVIOUS
<1>16. PICK e : e = call[r].event
  OBVIOUS
<1>1. /\ sale \in [Sales -> SaleRows] /\ value \in [Sales -> Nat] /\ commission \in [Sales -> Commissions]
      /\ call[r] \in Calls
  BY DEF Inv, Shape, Rows
<1>2. /\ e \in Refunds /\ s \in SalesOf(e) /\ s \in locked /\ call[r].refunded = sale[s].refunded
      /\ call[r].refunded < Total[e] /\ Since(call[r].row, commission[s])
  BY <1>15, <1>16 DEF ApplyRefund, At, Inv, CallOK
<1>3. s \in Sales /\ IsRecorded(s) /\ s[2] = RefundOf[e]
  BY <1>2 DEF SalesOf, IsRecorded
<1> DEFINE v == SaleValue(s)
           old == sale[s].refunded
           total == Total[e]
           row == call[r].row
<1>4. v \in Nat /\ v > 0 /\ old \in Nat /\ total \in Nat /\ row \in Commissions
  <2>1. v \in Nat
    BY <1>3, SaleValueType
  <2>2. v > 0
    BY <1>3 DEF Inv, Valued
  <2>3. old \in Nat
    BY <1>1, <1>3 DEF SaleRows
  <2>4. total \in Nat
    BY <1>2 DEF Setting
  <2>5. row \in Commissions
    BY <1>1 DEF Calls
  <2> QED BY <2>1, <2>2, <2>3, <2>4, <2>5
<1>5. /\ sale' = [sale EXCEPT ![s].refunded = total]
      /\ value' = [value EXCEPT ![s] = @ - Min({value[s], total - old})]
      /\ commission' = [commission EXCEPT ![s] = Written(@, row, AfterRefund(row, v, total))]
  BY <1>15, <1>16, <1>2 DEF ApplyRefund, Reversed, RefundedCents
<1>6. value[s] = v - Min({v, old}) /\ old < total
  BY <1>2, <1>3 DEF Inv, NetRevenue, IsRecorded
<1> HIDE DEF v, old, total, row
<1>7. value[s] - Min({value[s], total - old}) = v - Min({v, total}) /\ value[s] - Min({value[s], total - old}) \in Nat
  <2>1. LET w == v - Min({v, old})
        IN  w - Min({w, total - old}) = v - Min({v, total}) /\ w - Min({w, total - old}) \in Nat
    BY <1>4, <1>6, WorthLess
  <2> QED BY <1>6, <2>1
<1>8. /\ value' \in [Sales -> Nat] /\ value'[s] = v - Min({v, total})
      /\ \A k \in Sales \ {s} : value'[k] = value[k]
  BY <1>1, <1>3, <1>5, <1>7
<1>9. sale'[s] = [sale[s] EXCEPT !.refunded = total] /\ \A k \in Sales \ {s} : sale'[k] = sale[k]
  BY <1>1, <1>3, <1>5
<1>10. sale' \in [Sales -> SaleRows] /\ sale'[s].state = "recorded" /\ sale'[s].refunded = total
  <2>1. sale[s] \in SaleRows /\ sale[s].state = "recorded"
    BY <1>1, <1>3 DEF IsRecorded
  <2>2. sale'[s] \in SaleRows /\ sale'[s].state = "recorded" /\ sale'[s].refunded = total
    BY <1>4, <1>9, <2>1 DEF SaleRows
  <2> QED BY <1>1, <1>5, <1>9, <2>2
<1> DEFINE new == Written(commission[s], row, AfterRefund(row, v, total))
<1>11. /\ new \in Commissions /\ new.original = commission[s].original
       /\ new.status \in {"absent", "paid", "reversed"} \/ new.amount = Owed(new.original, v, total)
  <2>1. commission[s] \in Commissions /\ Since(row, commission[s]) /\ v \in Nat \ {0}
    BY <1>1, <1>2, <1>3, <1>4 DEF row
  <2> DEFINE c == commission[s]
  <2> HIDE DEF c, new
  <2>2. LET n == Written(c, row, AfterRefund(row, v, total)) IN
        /\ n \in Commissions /\ n.original = c.original
        /\ n.status \in {"absent", "paid", "reversed"} \/ n.amount = Owed(n.original, v, total)
    BY <1>4, <2>1, AfterRefundRow DEF c
  <2> QED BY <2>2 DEF c, new
<1>12. commission' = [commission EXCEPT ![s] = new]
  BY <1>5
<1> HIDE DEF new
<1>13. /\ commission' \in [Sales -> Commissions] /\ commission'[s] = new
       /\ \A k \in Sales \ {s} : commission'[k] = commission[k]
  BY <1>1, <1>3, <1>11, <1>12
<1>14. Applied(s, e)
  BY <1>2, <1>3, <1>6, <1>8, <1>9, <1>10, <1>11, <1>13 DEF v, old, total, Applied
<1> QED BY <1>2, <1>3, <1>15, <1>16, <1>14

LEMMA AppliedBooks ==
    ASSUME Setting, Inv, NEW r \in Requests, ApplyRefund(r) PROVE Books'
<1>1. PICK s \in Sales, e \in Refunds : s = call[r].sale /\ e = call[r].event /\ Applied(s, e)
  BY AppliedRows
<1>3. /\ s \in Sales /\ e \in Refunds /\ IsRecorded(s) /\ s[2] = RefundOf[e]
      /\ sale[s].refunded < Total[e]
      /\ sale' \in [Sales -> SaleRows] /\ sale'[s].state = "recorded" /\ sale'[s].refunded = Total[e]
      /\ \A k \in Sales \ {s} : sale'[k] = sale[k]
  BY <1>1 DEF Applied
<1>4. /\ value' \in [Sales -> Nat] /\ \A k \in Sales \ {s} : value'[k] = value[k]
      /\ value'[s] = SaleValue(s) - Min({SaleValue(s), Total[e]})
  BY <1>1 DEF Applied
<1>5. /\ commission' \in [Sales -> Commissions] /\ \A k \in Sales \ {s} : commission'[k] = commission[k]
      /\ \/ commission'[s].status \in {"absent", "paid", "reversed"}
         \/ commission'[s].amount = Owed(commission'[s].original, SaleValue(s), Total[e])
  BY <1>1 DEF Applied
<1>6. \A k \in Sales : IsRecorded(k)' <=> IsRecorded(k)
  BY <1>3 DEF IsRecorded
<1>7. InvoiceCovered'
  <2> SUFFICES ASSUME NEW p \in Purchases, IsRecorded(<<"checkout", p>>)'
               PROVE  sale'[<<"invoice", p>>].state = "covered"
    BY DEF InvoiceCovered
  <2>1. <<"checkout", p>> \in Sales /\ <<"invoice", p>> \in Sales
    BY DEF Sales, Checkouts, Invoices
  <2>2. sale[<<"invoice", p>>].state = "covered"
    BY <1>6, <2>1 DEF Inv, InvoiceCovered
  <2>3. <<"invoice", p>> # s
    BY <1>3, <2>2 DEF IsRecorded
  <2> QED BY <1>3, <2>1, <2>2, <2>3
<1>8. Valued'
  <2> SUFFICES ASSUME NEW k \in Sales
               PROVE  /\ IsRecorded(k)' => SaleValue(k) > 0
                      /\ ~IsRecorded(k)' => value'[k] = 0 /\ commission'[k].status = "absent"
    BY DEF Valued, SaleValue
  <2> QED BY <1>3, <1>4, <1>5, <1>6 DEF Inv, Valued
<1>9. Counted'
  <2>1. AllRecorded' = AllRecorded
    BY <1>6 DEF AllRecorded
  <2>2. daily'.conversions = daily.conversions /\ usage' = usage
    BY DEF ApplyRefund, Inv, Shape, Rows
  <2> QED BY <2>1, <2>2 DEF Inv, Counted
<1>10. NetRevenue'
  <2>1. value \in [Sales -> Nat] /\ IsFiniteSet(Sales) /\ value[s] \in Nat /\ value'[s] \in Nat
    BY <1>3, <1>4, SalesFinite DEF Inv, Shape, Rows
  <2>2. Cardinality(Cents(value')) = Cardinality(Cents(value)) - value[s] + value'[s] /\ Cardinality(Cents(value)) \in Nat
    BY <1>3, <1>4, <2>1, CentsMove
  <2>3. value'[s] = value[s] - Reversed(r) /\ daily'.valueCents = daily.valueCents - Reversed(r)
    BY <1>1, <1>3, <2>1 DEF ApplyRefund, Inv, Shape, Rows
  <2>4. Reversed(r) \in Int
    <3>1. call[r].refunded \in Nat /\ Total[e] \in Nat
      BY <1>3 DEF Inv, Shape, Calls, Setting
    <3> DEFINE a == value[s]
               b == Total[e] - call[r].refunded
    <3>2. a \in Int /\ b \in Int
      BY <2>1, <3>1
    <3> HIDE DEF a, b
    <3>3. Min({a, b}) \in Int
      BY <3>2, MinOfTwo
    <3> QED BY <1>1, <3>3 DEF Reversed, a, b
  <2>5. daily'.valueCents = Cardinality(Cents(value'))
    <3>1. daily.valueCents = Cardinality(Cents(value))
      BY DEF Inv, NetRevenue
    <3> QED BY <2>1, <2>2, <2>3, <2>4, <3>1
  <2>6. ASSUME NEW k \in Sales, sale'[k].state = "recorded"
        PROVE  value'[k] = SaleValue(k) - Min({SaleValue(k), sale'[k].refunded})
    <3>1. CASE k = s
      BY <1>3, <1>4, <3>1
    <3>2. CASE k # s
      BY <1>3, <1>4, <2>6, <3>2 DEF Inv, NetRevenue
    <3> QED BY <3>1, <3>2
  <2> QED BY <2>5, <2>6 DEF NetRevenue, Cents, SaleValue
<1>11. UnpaidFollowsRefunds'
  <2> SUFFICES ASSUME NEW k \in Sales, commission'[k].status \in {"pending", "approved"}
               PROVE  commission'[k].amount = Owed(commission'[k].original, SaleValue(k), sale'[k].refunded)
    BY DEF UnpaidFollowsRefunds, Owed, SaleValue
  <2>1. CASE k = s
    BY <1>3, <1>5, <2>1
  <2>2. CASE k # s
    BY <1>3, <1>5, <2>2 DEF Inv, UnpaidFollowsRefunds
  <2> QED BY <2>1, <2>2
<1>12. AppliedRefundsStay'
  <2> SUFFICES ASSUME NEW f \in Refunds, receipt'[f] = "refunded"
               PROVE  \E k \in Sales : k[2] = RefundOf[f] /\ sale'[k].state = "recorded" /\ sale'[k].refunded >= Total[f]
    BY DEF AppliedRefundsStay, SalesOf
  <2>1. \A g \in Refunds : Total[g] \in Nat
    BY DEF Setting
  <2>2. CASE f = e
    BY <1>3, <2>1, <2>2
  <2>3. CASE f # e
    <3>1. receipt[f] = "refunded"
      BY <1>1, <2>3 DEF ApplyRefund, Inv, Shape, Rows, Events
    <3>2. PICK k \in SalesOf(f) : sale[k].refunded >= Total[f]
      BY <3>1 DEF Inv, AppliedRefundsStay
    <3>3. k \in Sales /\ k[2] = RefundOf[f] /\ sale[k].state = "recorded"
      BY <3>2 DEF SalesOf
    <3>4. CASE k = s
      <4>1. sale[s].refunded \in Nat
        BY <1>3 DEF Inv, Shape, Rows, SaleRows
      <4> QED BY <1>3, <2>1, <3>2, <3>3, <3>4, <4>1
    <3>5. CASE k # s
      BY <1>3, <3>2, <3>3, <3>5
    <3> QED BY <3>4, <3>5
  <2> QED BY <2>2, <2>3
<1> QED BY <1>7, <1>8, <1>9, <1>10, <1>11, <1>12 DEF Books

LEMMA ApplyKeeps == ASSUME Setting, Inv, NEW r \in Requests, ApplyRefund(r) PROVE Inv'
<1>1. PICK s \in Sales, e \in Refunds : s = call[r].sale /\ e = call[r].event /\ Applied(s, e)
  BY AppliedRows
<1>3. /\ s \in Sales /\ e \in Refunds
      /\ sale' \in [Sales -> SaleRows] /\ sale'[s].state = "recorded"
      /\ \A k \in Sales \ {s} : sale'[k] = sale[k]
      /\ value' \in [Sales -> Nat] /\ commission' \in [Sales -> Commissions]
      /\ \A k \in Sales \ {s} : commission'[k] = commission[k]
  BY <1>1 DEF Applied
<1>4. /\ call \in [Requests -> Calls] /\ acked \subseteq Events /\ receipt \in [Events -> Outcomes]
      /\ daily \in [conversions : Nat, valueCents : Nat] /\ locked \subseteq Sales
  BY DEF Inv, Shape, Rows, Controls
<1>5. At(r, "apply") /\ call' = [call EXCEPT ![r] = Idle] /\ acked' \subseteq Events /\ locked' = locked \ {call[r].sale}
  BY <1>1, <1>3, <1>4 DEF ApplyRefund, Finish, Events
<1>6. call'[r] = Idle /\ \A q \in Requests \ {r} : call'[q] = call[q]
  BY <1>4, <1>5
<1>7. call'[r] \in Calls /\ CallOK(r)' /\ call'[r].step # "apply" /\ call' = [call EXCEPT ![r] = call'[r]]
  BY <1>5, <1>6, IdleOK
<1>8. /\ LockedByOne'
      /\ \A q \in Requests \ {r} : At(q, "apply") => call[q].sale # s /\ call[q].sale \in locked'
  BY <1>1, <1>5, <1>7, LetsGo DEF Inv
<1>9. Books'
  BY AppliedBooks
<1>10. Rows'
  <2>1. receipt' \in [Events -> Outcomes]
    BY <1>4 DEF ApplyRefund, Outcomes
  <2>2. daily' \in [conversions : Nat, valueCents : Nat]
    <3>1. Cardinality(Cents(value')) \in Nat
      BY <1>3, SalesFinite, CentsMove
    <3>2. daily'.valueCents \in Nat
      BY <1>9, <3>1 DEF Books, NetRevenue, Cents
    <3>3. daily' = [daily EXCEPT !.valueCents = daily'.valueCents]
      BY <1>4 DEF ApplyRefund
    <3> DEFINE n == daily'.valueCents
    <3> HIDE DEF n
    <3>4. daily' = [daily EXCEPT !.valueCents = n] /\ n \in Nat
      BY <3>2, <3>3 DEF n
    <3> QED BY <1>4, <3>4
  <2> QED BY <1>3, <2>1, <2>2 DEF Inv, Shape, Rows, ApplyRefund
<1>11. Shape'
  <2>1. call' \in [Requests -> Calls] /\ locked' \subseteq Sales
    BY <1>4, <1>5, <1>7
  <2> QED BY <1>5, <1>10, <2>1 DEF Inv, Shape, Controls, ApplyRefund, settingVars
<1>12. ASSUME NEW q \in Requests \ {r} PROVE CallOK(q)'
  <2>1. call'[q] = call[q] /\ CallOK(q) /\ Shape
    BY <1>6 DEF Inv
  <2>2. At(q, "apply") => /\ call[q].sale \in Sales /\ call[q].sale # s /\ call[q].sale \in locked'
                          /\ Since(call[q].row, commission[call[q].sale])
    BY <1>8, <2>1 DEF CallOK, At, SalesOf
  <2>3. \A k \in Sales : IsRecorded(k) => IsRecorded(k)'
    BY <1>3 DEF IsRecorded
  <2> QED BY <1>3, <2>1, <2>2, <2>3, StaysOK
<1> QED BY <1>7, <1>8, <1>9, <1>11, <1>12 DEF Inv, Books

(***************************************************************************)
(* The theorem.                                                            *)
(***************************************************************************)
LEMMA SalesStart == ASSUME Setting, Init PROVE Inv
<1>1. NoSale \in SaleRows /\ NoSale.state = "absent" /\ NoCommission \in Commissions /\ NoCommission.status = "absent"
  BY NothingHeld DEF NoSale, SaleRows, NoCommission
<1>2. Rows
  <2>1. receipt \in [Events -> Outcomes]
    BY DEF Init, Outcomes
  <2>2. daily \in [conversions : Nat, valueCents : Nat] /\ usage \in Nat
    BY DEF Init
  <2>3. sale \in [Sales -> SaleRows] /\ value \in [Sales -> Nat] /\ commission \in [Sales -> Commissions]
    BY <1>1 DEF Init
  <2> QED BY <2>1, <2>2, <2>3 DEF Rows
<1>3. Controls
  <2>1. edits = 0 /\ faults = 0 /\ usage = 0 /\ quota = Quota /\ Quota \in Nat /\ MaxEdits \in Nat /\ MaxFaults \in Nat
    BY DEF Init, Setting
  <2>2. edits \in 0..MaxEdits /\ faults \in 0..MaxFaults /\ quota \in Nat /\ usage <= quota
    BY <2>1
  <2> QED BY <2>2 DEF Init, Controls
<1>4. call \in [Requests -> Calls] /\ \A r \in Requests : call[r] = Idle
  BY NothingHeld DEF Init
<1>5. \A r \in Requests : CallOK(r)
  BY <1>4, NothingHeld DEF CallOK
<1>6. LockedByOne /\ locked \subseteq Sales
  BY DEF Init, LockedByOne
<1>7. \A s \in Sales : sale[s] = NoSale /\ value[s] = 0 /\ commission[s] = NoCommission
  BY DEF Init
<1>8. \A s \in Sales : ~IsRecorded(s)
  BY <1>1, <1>7 DEF IsRecorded
<1>9. InvoiceCovered /\ Valued
  <2>1. \A p \in Purchases : <<"checkout", p>> \in Sales
    BY DEF Sales, Checkouts
  <2> QED BY <1>1, <1>7, <1>8, <2>1 DEF InvoiceCovered, Valued
<1>10. Counted
  <2>1. AllRecorded = {}
    BY <1>8 DEF AllRecorded
  <2>2. Cardinality(AllRecorded) = 0
    BY <2>1, FS_EmptySet
  <2>3. daily.conversions = 0 /\ usage = 0
    BY DEF Init
  <2> QED BY <2>2, <2>3 DEF Counted
<1>11. NetRevenue
  <2>1. DOMAIN value = Sales
    BY DEF Init
  <2>2. \A s \in Sales : {s} \X (1..value[s]) = {}
    BY <1>7
  <2>3. Cents(value) = {}
    BY <2>1, <2>2 DEF Cents
  <2>4. Cardinality(Cents(value)) = 0
    BY <2>3, FS_EmptySet
  <2>5. daily.valueCents = 0
    BY DEF Init
  <2> QED BY <1>8, <2>4, <2>5 DEF NetRevenue, IsRecorded
<1>12. UnpaidFollowsRefunds /\ AppliedRefundsStay
  <2>1. UnpaidFollowsRefunds
    BY <1>1, <1>7 DEF UnpaidFollowsRefunds
  <2>2. \A e \in Refunds : receipt[e] = "none"
    BY DEF Init, Events
  <2> QED BY <2>1, <2>2 DEF AppliedRefundsStay
<1> QED BY <1>2, <1>3, <1>4, <1>5, <1>6, <1>9, <1>10, <1>11, <1>12 DEF Inv, Shape

LEMMA SalesStep == Setting /\ Inv /\ [Next]_vars => Inv'
<1> SUFFICES ASSUME Setting, Inv, [Next]_vars
             PROVE  Inv'
  OBVIOUS
<1>1. ASSUME NEW r \in Requests, Handle(r) PROVE Inv'
  BY <1>1, SeenKeeps, WriteReceiptKeeps, CoveredKeeps, AttributeKeeps, RecordKeeps,
     FindSaleKeeps, ClaimKeeps, ApplyKeeps DEF Handle
<1>2. ASSUME NEW r \in Requests, Die(r) PROVE Inv'
  BY <1>2, DieKeeps
<1>3. ASSUME NEW r \in Requests, NEW e \in Events, Receive(r, e) PROVE Inv'
  BY <1>3, ReceiveKeeps
<1>4. ASSUME NEW s \in Sales, Approve(s) \/ Pay(s) \/ Reverse(s) PROVE Inv'
  BY <1>4, OwnerKeeps
<1>5. CASE Switch
  BY <1>5, SwitchKeeps
<1>6. CASE QuotaFrees
  BY <1>6, QuotaKeeps
<1>7. CASE UNCHANGED vars
  <2>1. Controls' /\ UNCHANGED <<receiptVars, commission, call, locked>>
    BY <1>7 DEF vars, receiptVars, settingVars, Inv, Shape, Controls
  <2> QED BY <2>1, SettingsKeep
<1> QED BY <1>1, <1>2, <1>3, <1>4, <1>5, <1>6, <1>7 DEF Next

\* A sale counts once, whether its checkout or its first invoice reports it, and the
\* conversion, the day's revenue and an unpaid commission are net of every refund
\* that was applied, whatever events and requests overlap or die
\* (processStripeEvent, src/src/lib/stripe-attribution.ts:229, 416).
THEOREM SalesStaySound ==
    ASSUME Setting
    PROVE  Spec => [](SaleCountedOnce /\ NetOfRefunds)
<1>1. Init => Inv
  BY SalesStart
<1>2. Inv /\ [Next]_vars => Inv'
  BY SalesStep
<1>3. Inv => SaleCountedOnce /\ NetOfRefunds
  BY InvSales
<1> QED BY <1>1, <1>2, <1>3, PTL DEF Spec
=============================================================================
