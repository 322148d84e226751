------------------------------ MODULE StripeMoney ------------------------------
(***************************************************************************)
(* The money of the Stripe mock (internal/devserver/stripemock_*.go):      *)
(* payment intents, charges, refunds, transfers, payouts, disputes and     *)
(* connected accounts, and the balances derived from them.  Every handler  *)
(* holds m.mu from its checks to persist(), so a handler is one action; a  *)
(* refused request changes nothing and is no step.  An object's id is its  *)
(* position in its sequence, and 0 stands for no object.                   *)
(***************************************************************************)
EXTENDS Integers, Sequences, FiniteSets, FiniteSetsExt

CONSTANTS
    Platform,       \* the platform's own balance: no Stripe-Account, no destination
    V1, V2,         \* ids of v1 and v2 connected accounts
    Currencies,     \* the currencies in use, in alphabetical order
    Requests,       \* bodies of POST /v1/payment_intents, the wrong ones too
    Amounts,        \* the amount parameters callers send; 0 for none
    MaxIntents,     \* bound: payment intents
    MaxObjects,     \* bound: objects asked for, of all kinds
    MaxReversals    \* bound: reversals of one transfer

Accounts == V1 \cup V2
Holders  == Accounts \cup {Platform}
Curs     == {Currencies[i] : i \in DOMAIN Currencies}

\* A decoded request: transfer_data is dest and tamount, the Stripe-Account
\* header acct, and pm says whether a payment method was given.
RequestType ==
    [amount : Int, cur : Curs, fee : Int, dest : Holders, tamount : Int,
     acct : Holders, manual : BOOLEAN, pm : BOOLEAN]

VARIABLES
    pis, charges, refunds, transfers, payouts, disputes,
    v1,         \* v1 account -> "absent", "restricted" or "complete"
    v2,         \* v2 account -> "absent", "plain" (asked for no transfers),
                \*   "pending" or "active"
    told        \* the objects as the last event about each shows them

vars == <<pis, charges, refunds, transfers, payouts, disputes, v1, v2, told>>

Statuses == {"requires_payment_method", "requires_confirmation", "processing",
             "requires_capture", "succeeded"}
Charges   == 0 .. Len(charges)
Transfers == 0 .. Len(transfers)
IntentType   == [req : RequestType, status : Statuses, received : Nat,
                 failed : BOOLEAN, charge : Nat]
ChargeType   == [pi : Nat, captured : Nat, cur : Curs, refunded : Nat,
                 full : BOOLEAN, dispute : Nat, transfer : Nat]
RefundType   == [charge : Nat, amount : Nat, feeback : BOOLEAN, reversal : Nat]
TransferType == [amount : Nat, cur : Curs, dest : Accounts, source : Nat,
                 reversed : Nat, reversals : Seq(Nat)]
PayoutType   == [acct : Holders, amount : Int, cur : Curs,
                 status : {"pending", "paid", "failed"}, automatic : BOOLEAN]
DisputeType  == [charge : Nat, amount : Nat,
                 status : {"needs_response", "won", "lost"}]

\* Every object has the shape its struct has, and names objects that exist.
TypeOK ==
    /\ pis \in Seq(IntentType) /\ charges \in Seq(ChargeType)
    /\ refunds \in Seq(RefundType) /\ transfers \in Seq(TransferType)
    /\ payouts \in Seq(PayoutType) /\ disputes \in Seq(DisputeType)
    /\ v1 \in [V1 -> {"absent", "restricted", "complete"}]
    /\ v2 \in [V2 -> {"absent", "plain", "pending", "active"}]
    /\ \A p \in DOMAIN pis : pis[p].charge \in Charges
    /\ \A c \in DOMAIN charges :
          /\ charges[c].pi \in DOMAIN pis
          /\ charges[c].dispute \in 0 .. Len(disputes)
          /\ charges[c].transfer \in Transfers
    /\ \A r \in DOMAIN refunds : refunds[r].charge \in DOMAIN charges
    /\ \A t \in DOMAIN transfers : transfers[t].source \in Charges
    /\ \A d \in DOMAIN disputes : disputes[d].charge \in DOMAIN charges

Init ==
    /\ pis = << >> /\ charges = << >> /\ refunds = << >>
    /\ transfers = << >> /\ payouts = << >> /\ disputes = << >>
    /\ v1 = [a \in V1 |-> "absent"] /\ v2 = [a \in V2 |-> "absent"]
    /\ told = {}

----------------------------------------------------------------------------
(* What an event shows of its object.                                      *)

SerializeIntent(p, pi) ==
    [kind |-> "payment_intent", id |-> p, status |-> pi.status, charge |-> pi.charge,
     received |-> CASE pi.status # "succeeded" -> pi.received
                    [] pi.received > 0 -> pi.received
                    [] OTHER -> pi.req.amount]

SerializeCharge(c, ch) ==
    [kind |-> "charge", id |-> c, captured |-> ch.captured,
     refunded |-> ch.refunded, full |-> ch.full, transfer |-> ch.transfer,
     disputed |-> ch.dispute # 0]

SerializeTransfer(t, tr) ==
    [kind |-> "transfer", id |-> t, source |-> tr.source,
     amount |-> tr.amount, reversed |-> tr.reversed,
     all |-> tr.amount > 0 /\ tr.reversed >= tr.amount, reversals |-> tr.reversals]

SerializePayout(o, po)  == [kind |-> "payout", id |-> o, status |-> po.status]
SerializeDispute(d, dp) ==
    [kind |-> "dispute", id |-> d, charge |-> dp.charge, amount |-> dp.amount, status |-> dp.status]
SerializeAccount(a, st) == [kind |-> "account", id |-> a, status |-> st]

\* The row of a payment on the platform's dashboard.
PaymentRow(p) ==
    LET ch == charges[pis[p].charge]
    IN  CASE pis[p].charge # 0 /\ ch.dispute # 0  -> "disputed"
          [] pis[p].charge # 0 /\ ch.full         -> "refunded"
          [] pis[p].charge # 0 /\ ch.refunded > 0 -> "partially_refunded"
          [] pis[p].charge # 0                    -> "succeeded"
          [] pis[p].charge = 0 /\ pis[p].failed   -> "failed"
          [] OTHER -> IF pis[p].status = "requires_capture" THEN "uncaptured" ELSE "incomplete"

Same(e, f) == e.kind = f.kind /\ e.id = f.id
\* The events of one handler: an app that applies them as they come.
Fire(events) ==
    told' = {e \in told : \A f \in events : ~Same(e, f)} \cup events

----------------------------------------------------------------------------
(* Fees and ledgers.  A ledger is the set of the entries it lists.         *)

StripeFee(amount, cur) ==
    IF amount <= 0 THEN 0
    ELSE IF cur \in {"gbp", "eur"} THEN (amount * 15 + 500) \div 1000 + 20
    ELSE (amount * 29 + 500) \div 1000 + 30

DisputeFee == 2000

\* The account a charge was made as, and what it owes the platform for it.
ChargeOwner(c) == pis[charges[c].pi].req.acct
AppFee(c) == IF ChargeOwner(c) = Platform THEN 0 ELSE pis[charges[c].pi].req.fee

RefundedAppFee(r) ==
    LET c == refunds[r].charge
    IN  IF refunds[r].feeback /\ AppFee(c) > 0 /\ charges[c].captured > 0
        THEN (AppFee(c) * refunds[r].amount) \div charges[c].captured
        ELSE 0

Entry(type, source, cur, amount, fee) ==
    [type |-> type, source |-> source, cur |-> cur, amount |-> amount, fee |-> fee]
Net(e) == e.amount - e.fee
Balance(ledger, cur) == MapThenSumSet(Net, {e \in ledger : e.cur = cur})

ChargesOf(a) == {c \in DOMAIN charges : ChargeOwner(c) = a}
RefundsOf(a) == {r \in DOMAIN refunds : ChargeOwner(refunds[r].charge) = a}

\* A chargeback lands on whoever holds the charge; winning it returns the
\* amount, not the fee.
DisputeEntries(a) ==
    LET hits == {d \in DOMAIN disputes : ChargeOwner(disputes[d].charge) = a}
        cur(d) == charges[disputes[d].charge].cur
    IN  {Entry("withdrawal", <<d>>, cur(d), -disputes[d].amount, DisputeFee) : d \in hits}
        \cup {Entry("reversal", <<d>>, cur(d), disputes[d].amount, 0) :
                d \in {e \in hits : disputes[e].status = "won"}}

\* Failed payouts never left the balance.
\* Mutant: a payout leaves the balance when the bank has it.
PayoutEntriesPaid(a) ==
    {Entry("payout", <<o>>, payouts[o].cur, -payouts[o].amount, 0) :
        o \in {q \in DOMAIN payouts : payouts[q].acct = a /\ payouts[q].status = "paid"}}
PayoutEntries(a) ==
    {Entry("payout", <<o>>, payouts[o].cur, -payouts[o].amount, 0) :
        o \in {q \in DOMAIN payouts : payouts[q].acct = a /\ payouts[q].status # "failed"}}

\* A transfer and its reversals, as the sender (sign -1) or the receiver sees them.
TransferEntries(ts, sign) ==
    {Entry("transfer", <<t>>, transfers[t].cur, sign * transfers[t].amount, 0) : t \in ts}
    \cup UNION {{Entry("transfer_reversal", <<t, i>>, transfers[t].cur,
                       -sign * transfers[t].reversals[i], 0) :
                     i \in DOMAIN transfers[t].reversals} : t \in ts}

PlatformLedger ==
    {Entry("charge", <<c>>, charges[c].cur, charges[c].captured,
           StripeFee(charges[c].captured, charges[c].cur)) : c \in ChargesOf(Platform)}
    \cup {Entry("application_fee", <<c>>, charges[c].cur, AppFee(c), 0) :
            c \in {d \in DOMAIN charges : AppFee(d) > 0}}
    \cup {Entry("refund", <<r>>, charges[refunds[r].charge].cur, -refunds[r].amount, 0) :
            r \in RefundsOf(Platform)}
    \cup {Entry("application_fee_refund", <<r>>, charges[refunds[r].charge].cur,
                -RefundedAppFee(r), 0) : r \in {q \in DOMAIN refunds : RefundedAppFee(q) > 0}}
    \cup TransferEntries(DOMAIN transfers, -1)
    \cup DisputeEntries(Platform) \cup PayoutEntries(Platform)

ConnectedLedger(a) ==
    {Entry("charge", <<c>>, charges[c].cur, charges[c].captured,
           StripeFee(charges[c].captured, charges[c].cur) + AppFee(c)) : c \in ChargesOf(a)}
    \cup {Entry("refund", <<r>>, charges[refunds[r].charge].cur, -refunds[r].amount,
                -RefundedAppFee(r)) : r \in RefundsOf(a)}
    \cup TransferEntries({t \in DOMAIN transfers : transfers[t].dest = a}, 1)
    \cup DisputeEntries(a) \cup PayoutEntries(a)

BalanceOf(a, cur) ==
    Balance(IF a = Platform THEN PlatformLedger ELSE ConnectedLedger(a), cur)

----------------------------------------------------------------------------
(* Connected accounts.                                                     *)

Room ==
    Len(pis) + Len(refunds) + Len(payouts) + Len(disputes)
    + Cardinality({t \in DOMAIN transfers : \A c \in DOMAIN charges : charges[c].transfer # t})
      < MaxObjects

Exists(a) ==
    \/ a \in V1 /\ v1[a] # "absent"
    \/ a \in V2 /\ v2[a] # "absent"

CreateAccount(a) ==
    /\ v1[a] = "absent"
    /\ v1' = [v1 EXCEPT ![a] = "restricted"]
    /\ UNCHANGED <<pis, charges, refunds, transfers, payouts, disputes, v2, told>>

\* The hosted onboarding page, once per account.
OnboardAccount(a) ==
    /\ v1[a] = "restricted"
    /\ v1' = [v1 EXCEPT ![a] = "complete"]
    /\ Fire({SerializeAccount(a, "complete")})
    /\ UNCHANGED <<pis, charges, refunds, transfers, payouts, disputes, v2>>

\* Every requested capability starts pending; an account that requests none
\* counts as onboarded.
CreateV2Account(a, transfersRequested) ==
    /\ v2[a] = "absent"
    /\ v2' = [v2 EXCEPT ![a] = IF transfersRequested THEN "pending" ELSE "plain"]
    /\ UNCHANGED <<pis, charges, refunds, transfers, payouts, disputes, v1, told>>

CompleteV2Onboarding(a) ==
    /\ v2[a] = "pending"
    /\ v2' = [v2 EXCEPT ![a] = "active"]
    /\ Fire({SerializeAccount(a, "active")})
    /\ UNCHANGED <<pis, charges, refunds, transfers, payouts, disputes, v1>>

\* A v1 account may always receive, a v2 account once its capability is active.
MayReceive(a) == IF a \in V1 THEN v1[a] # "absent" ELSE v2[a] = "active"

----------------------------------------------------------------------------
(* Payment intents and charges.                                            *)

\* buildPaymentIntentFromParams: a negative transfer amount counts as none.
Accepted(r)   == r.amount > 0 /\ r.fee >= 0 /\ r.fee <= r.amount
Normalised(r) == [r EXCEPT !.tamount = IF @ >= 0 THEN @ ELSE 0]

\* The Stripe-Account header is not checked, the destination is.
CreateIntent(r) ==
    /\ Room /\ Len(pis) < MaxIntents
    /\ Accepted(r)
    /\ r.dest = Platform \/ Exists(r.dest)
    /\ pis' = Append(pis, [req |-> Normalised(r), received |-> 0, failed |-> FALSE, charge |-> 0,
                           status |-> IF r.pm THEN "requires_confirmation"
                                              ELSE "requires_payment_method"])
    /\ UNCHANGED <<charges, refunds, transfers, payouts, disputes, v1, v2, told>>

\* No event: the caller has the answer.
Confirm(p) ==
    /\ pis[p].status \in {"requires_payment_method", "requires_confirmation"}
    /\ pis' = [pis EXCEPT ![p].status = IF pis[p].req.manual THEN "requires_capture"
                                                             ELSE "processing"]
    /\ UNCHANGED <<charges, refunds, transfers, payouts, disputes, v1, v2, told>>

\* The intent succeeds with a charge of what is captured and, for a
\* destination charge, a transfer of amt.  named: the charge is serialized
\* after it was given its transfer, so that its event names it.
Settle(p, captured, received, failed, amt, named) ==
    LET req == pis[p].req
        c   == Len(charges) + 1
        t   == Len(transfers) + 1
        ch  == [pi |-> p, captured |-> captured, cur |-> req.cur, refunded |-> 0,
                full |-> FALSE, dispute |-> 0, transfer |-> IF req.dest = Platform THEN 0 ELSE t]
        tr  == [amount |-> amt, cur |-> req.cur, dest |-> req.dest, source |-> c,
                reversed |-> 0, reversals |-> << >>]
        shown == IF named THEN ch ELSE [ch EXCEPT !.transfer = 0]
        pi  == [pis[p] EXCEPT !.status = "succeeded", !.charge = c,
                              !.received = received, !.failed = failed]
    IN  /\ pis' = [pis EXCEPT ![p] = pi]
        /\ charges' = Append(charges, ch)
        /\ \/ /\ req.dest = Platform
              /\ Fire({SerializeIntent(p, pi), SerializeCharge(c, shown)})
              /\ UNCHANGED transfers
           \/ /\ req.dest # Platform
              /\ transfers' = Append(transfers, tr)
              /\ Fire({SerializeIntent(p, pi), SerializeCharge(c, shown), SerializeTransfer(t, tr)})
        /\ UNCHANGED <<refunds, payouts, disputes, v1, v2>>

\* amount_to_capture is all of it unless positive; a partial capture below
\* the application fee transfers nothing.  charge.succeeded is serialized
\* before the transfer is made.
Capture(p, amount) ==
    LET captured == IF amount > 0 THEN amount ELSE pis[p].req.amount
        rest == captured - pis[p].req.fee
    IN  /\ pis[p].status = "requires_capture"
        /\ captured <= pis[p].req.amount
        /\ Settle(p, captured, captured, pis[p].failed,
                  CASE pis[p].req.tamount # 0 -> pis[p].req.tamount
                    [] rest > 0 -> rest
                    [] OTHER -> 0,
                  FALSE)

\* The outcome buttons of the payment intent's page, in any status but
\* succeeded; amount_received stays 0 and is shown as the amount.
CompleteSucceed(p) ==
    /\ pis[p].status # "succeeded"
    /\ Settle(p, pis[p].req.amount, pis[p].received, FALSE,
              IF pis[p].req.tamount # 0 THEN pis[p].req.tamount
                                        ELSE pis[p].req.amount - pis[p].req.fee,
              TRUE)

CompleteFail(p) ==
    LET pi == [pis[p] EXCEPT !.status = "requires_payment_method", !.failed = TRUE]
    IN  /\ pis[p].status # "succeeded"
        /\ pis' = [pis EXCEPT ![p] = pi]
        /\ Fire({SerializeIntent(p, pi)})
        /\ UNCHANGED <<charges, refunds, transfers, payouts, disputes, v1, v2>>

----------------------------------------------------------------------------
(* Refunds, disputes, transfers and payouts.                               *)

Smaller(a, b) == IF a <= b THEN a ELSE b
Reversed(tr, amount) ==
    [tr EXCEPT !.reversed = @ + amount, !.reversals = Append(@, amount)]

\* Mutant: a dispute does not freeze the charge.
RefundableDisputed(c, back) == back \in 0 .. charges[c].captured - charges[c].refunded
Refundable(c, back) ==
    charges[c].dispute = 0 /\ back \in 0 .. charges[c].captured - charges[c].refunded

\* applyRefund: amount 0 is all that is left, a disputed charge is frozen, and
\* reverse_transfer takes back as much from the charge's transfer as is left.
Refund(c, amount, reverse, feeback) ==
    LET ch     == charges[c]
        t      == ch.transfer
        left   == ch.captured - ch.refunded
        back   == IF amount = 0 THEN left ELSE amount
        new    == [ch EXCEPT !.refunded = @ + back, !.full = ch.refunded + back >= ch.captured]
        rev    == IF reverse /\ t # 0
                  THEN Smaller(back, transfers[t].amount - transfers[t].reversed) ELSE 0
    IN  /\ Room
        /\ left > 0 /\ Refundable(c, back)
        /\ charges' = [charges EXCEPT ![c] = new]
        /\ refunds' = Append(refunds, [charge |-> c, amount |-> back, feeback |-> feeback,
                                       reversal |-> IF rev > 0 THEN rev ELSE 0])
        /\ \/ /\ rev > 0
              /\ Len(transfers[t].reversals) < MaxReversals
              /\ transfers' = [transfers EXCEPT ![t] = Reversed(@, rev)]
              /\ Fire({SerializeCharge(c, new), SerializeTransfer(t, Reversed(transfers[t], rev))})
           \/ rev <= 0 /\ Fire({SerializeCharge(c, new)}) /\ UNCHANGED transfers
        /\ UNCHANGED <<pis, payouts, disputes, v1, v2>>

\* A chargeback of what is not refunded, once per charge.
OpenDispute(p) ==
    LET c  == pis[p].charge
        d  == Len(disputes) + 1
        dp == [charge |-> c, amount |-> charges[c].captured - charges[c].refunded,
               status |-> "needs_response"]
    IN  /\ Room
        /\ c # 0 /\ pis[p].status = "succeeded"
        /\ charges[c].dispute = 0 /\ charges[c].captured > charges[c].refunded
        /\ disputes' = Append(disputes, dp)
        /\ charges' = [charges EXCEPT ![c].dispute = d]
        /\ Fire({SerializeDispute(d, dp)})
        /\ UNCHANGED <<pis, refunds, transfers, payouts, v1, v2>>

\* Mutant: the event is made before the dispute is settled.
CloseDisputeEarly(d, outcome) ==
    /\ disputes[d].status = "needs_response"
    /\ disputes' = [disputes EXCEPT ![d].status = outcome]
    /\ Fire({SerializeDispute(d, disputes[d])})
    /\ UNCHANGED <<pis, charges, refunds, transfers, payouts, v1, v2>>
CloseDispute(d, outcome) ==
    /\ disputes[d].status = "needs_response"
    /\ disputes' = [disputes EXCEPT ![d].status = outcome]
    /\ Fire({SerializeDispute(d, [disputes[d] EXCEPT !.status = outcome])})
    /\ UNCHANGED <<pis, charges, refunds, transfers, payouts, v1, v2>>

\* What is left of a charge to fund transfers.
ChargeAvailable(c) ==
    charges[c].captured - charges[c].refunded
    - MapThenSumSet(LAMBDA t : transfers[t].amount - transfers[t].reversed,
                    {t \in DOMAIN transfers : transfers[t].source = c})

\* source = 0: funded by the platform's balance in the currency.
CreateTransfer(a, amount, cur, source) ==
    LET t  == Len(transfers) + 1
        tr == [amount |-> amount, cur |-> cur, dest |-> a, source |-> source,
               reversed |-> 0, reversals |-> << >>]
    IN  /\ Room
        /\ amount > 0 /\ MayReceive(a)
        /\ IF source = 0 THEN amount <= BalanceOf(Platform, cur)
           ELSE charges[source].cur = cur /\ amount <= ChargeAvailable(source)
        /\ transfers' = Append(transfers, tr)
        /\ Fire({SerializeTransfer(t, tr)})
        /\ UNCHANGED <<pis, charges, refunds, payouts, disputes, v1, v2>>

ReverseTransfer(t, amount) ==
    LET left == transfers[t].amount - transfers[t].reversed
        back == IF amount = 0 THEN left ELSE amount
    IN  /\ Len(transfers[t].reversals) < MaxReversals
        /\ amount >= 0 /\ left > 0 /\ back <= left
        /\ transfers' = [transfers EXCEPT ![t] = Reversed(@, back)]
        /\ Fire({SerializeTransfer(t, Reversed(transfers[t], back))})
        /\ UNCHANGED <<pis, charges, refunds, payouts, disputes, v1, v2>>

NewPayout(a, amount, cur, automatic) ==
    /\ Room
    /\ payouts' = Append(payouts, [acct |-> a, amount |-> amount, cur |-> cur,
                                   status |-> "pending", automatic |-> automatic])
    /\ UNCHANGED <<pis, charges, refunds, transfers, disputes, v1, v2, told>>

\* POST /v1/payouts does not look at the balance.
CreatePayout(a, amount, cur) ==
    /\ a = Platform \/ Exists(a)
    /\ amount > 0
    /\ NewPayout(a, amount, cur, FALSE)

\* The dashboard's payout: all of the first currency with a positive balance.
AccountPayout(a) ==
    \E i \in DOMAIN Currencies :
        /\ a # Platform /\ Exists(a)
        /\ BalanceOf(a, Currencies[i]) > 0
        /\ \A j \in 1 .. i - 1 : BalanceOf(a, Currencies[j]) <= 0
        /\ NewPayout(a, BalanceOf(a, Currencies[i]), Currencies[i], TRUE)

CompletePayout(o, outcome) ==
    /\ payouts[o].status = "pending"
    /\ payouts' = [payouts EXCEPT ![o].status = outcome]
    /\ Fire({SerializePayout(o, [payouts[o] EXCEPT !.status = outcome])})
    /\ UNCHANGED <<pis, charges, refunds, transfers, disputes, v1, v2>>

----------------------------------------------------------------------------

AccountNext ==
    \/ \E a \in V1 : CreateAccount(a) \/ OnboardAccount(a)
    \/ \E a \in V2 : \/ \E b \in BOOLEAN : CreateV2Account(a, b)
                     \/ CompleteV2Onboarding(a)

IntentNext ==
    \/ \E r \in Requests : CreateIntent(r)
    \/ \E p \in DOMAIN pis :
          \/ Confirm(p) \/ CompleteSucceed(p) \/ CompleteFail(p)
          \/ \E n \in Amounts : Capture(p, n)

BackNext ==
    \/ \E c \in DOMAIN charges, n \in Amounts, b \in BOOLEAN : Refund(c, n, b, b)
    \/ \E p \in DOMAIN pis : OpenDispute(p)
    \/ \E d \in DOMAIN disputes, o \in {"won", "lost"} : CloseDispute(d, o)

MovesNext ==
    \/ \E a \in Accounts, n \in Amounts, cur \in Curs, c \in Charges : CreateTransfer(a, n, cur, c)
    \/ \E t \in DOMAIN transfers, n \in Amounts : ReverseTransfer(t, n)
    \/ \E a \in Holders, n \in Amounts, cur \in Curs : CreatePayout(a, n, cur)
    \/ \E a \in Accounts : AccountPayout(a)
    \/ \E o \in DOMAIN payouts, s \in {"paid", "failed"} : CompletePayout(o, s)

Next == AccountNext \/ IntentNext \/ BackNext \/ MovesNext

Spec == Init /\ [][Next]_vars

----------------------------------------------------------------------------

Sum(S, of(_)) == MapThenSumSet(of, S)
RefundsOfCharge(c) == {r \in DOMAIN refunds : refunds[r].charge = c}
DisputesOf(c) == {d \in DOMAIN disputes : disputes[d].charge = c}
RefundSum(c)  == Sum(RefundsOfCharge(c), LAMBDA r : refunds[r].amount)

\* No money goes back twice: what was refunded and what was charged back fit
\* into what was captured, and the charge's own counter and flag agree with
\* its refunds (applyRefund, openDispute).
RefundsFit ==
    \A c \in DOMAIN charges :
        /\ charges[c].refunded = RefundSum(c)
        /\ RefundSum(c) + Sum(DisputesOf(c), LAMBDA d : disputes[d].amount) <= charges[c].captured
        /\ charges[c].full <=> RefundSum(c) = charges[c].captured

\* A transfer is taken back once: its reversals, the ones refunds made
\* included, add up to its counter and fit into it (reverseTransferLocked).
ReversalsFit ==
    \A t \in DOMAIN transfers :
        LET tr == transfers[t]
        IN  /\ tr.reversed = Sum(DOMAIN tr.reversals, LAMBDA i : tr.reversals[i])
            /\ tr.reversed \in 0 .. tr.amount
            /\ Sum({r \in DOMAIN refunds : charges[refunds[r].charge].transfer = t},
                   LAMBDA r : refunds[r].reversal) <= tr.reversed

\* An intent has succeeded iff it has a charge, no other charge is its, and
\* what it shows as received is what the charge captured.
IntentsSettle ==
    /\ \A p \in DOMAIN pis :
          /\ (pis[p].status = "succeeded") <=> pis[p].charge # 0
          /\ pis[p].charge # 0 =>
                SerializeIntent(p, pis[p]).received = charges[pis[p].charge].captured
    /\ \A c \in DOMAIN charges : pis[charges[c].pi].charge = c

\* The dashboard's row of a payment says disputed, refunded or in part refunded
\* exactly when its disputes and refunds do (paymentRowsLocked).
RowsAgree ==
    \A p \in DOMAIN pis :
        LET c == pis[p].charge
        IN  PaymentRow(p) =
              CASE c = 0 -> PaymentRow(p)
                [] DisputesOf(c) # {} -> "disputed"
                [] RefundsOfCharge(c) = {} -> "succeeded"
                [] RefundSum(c) = charges[c].captured -> "refunded"
                [] OTHER -> "partially_refunded"

\* The application fees handed back on a direct charge never exceed the fee,
\* whatever the rounding of partial refunds (refundedAppFee).
FeesFit ==
    \A c \in DOMAIN charges : Sum(RefundsOfCharge(c), RefundedAppFee) <= AppFee(c)

\* The parts of the money's invariant.
Inv == TypeOK /\ RefundsFit /\ ReversalsFit /\ IntentsSettle /\ RowsAgree /\ FeesFit

\* No ledger makes or loses money: in every currency the balances of the
\* platform and of all accounts add up to what cards paid, less Stripe's fees,
\* refunds, chargebacks that were not won and payouts that did not fail
\* (platformLedger, connectedLedger).
MoneyConserved ==
    \A cur \in Curs :
        LET inCur(c) == charges[c].cur = cur
            cs == {c \in DOMAIN charges : inCur(c)}
        IN  Sum(Holders, LAMBDA a : BalanceOf(a, cur)) =
              Sum(cs, LAMBDA c : charges[c].captured - StripeFee(charges[c].captured, cur)
                                 - charges[c].refunded)
              - Sum({d \in DOMAIN disputes : inCur(disputes[d].charge)},
                    LAMBDA d : DisputeFee + IF disputes[d].status = "won" THEN 0
                                            ELSE disputes[d].amount)
              - Sum({o \in DOMAIN payouts : payouts[o].cur = cur /\ payouts[o].status # "failed"},
                    LAMBDA o : payouts[o].amount)

\* What the app was told of a charge is the charge, but for its transfer and
\* its dispute: an event made before the charge had them (a capture's
\* charge.succeeded, every event before openDispute) does not name them, and
\* then the transfer's or the dispute's own event names the charge.
ChargeIsTold(c) ==
    LET ch == SerializeCharge(c, charges[c])
    IN  \E t \in {0, ch.transfer}, d \in {FALSE, ch.disputed} :
           /\ [ch EXCEPT !.transfer = t, !.disputed = d] \in told
           /\ t = ch.transfer \/
                 \E e \in told : e.kind = "transfer" /\ e.id = ch.transfer /\ e.source = c
           /\ d = ch.disputed \/
                 \E e \in told : e.kind = "dispute" /\ e.id = charges[c].dispute /\ e.charge = c

\* An app that applies every event as it comes has the truth: no outcome,
\* refund, reversal, transfer, dispute or bank answer goes unannounced, or is
\* announced with what was before it; the transfer and the dispute of a charge
\* it may have to learn from their own events (fireEventsAsync after every
\* handler, capturePaymentIntent).
AppIsTold ==
    /\ \A p \in DOMAIN pis :
          pis[p].status = "succeeded" \/ (pis[p].failed /\ pis[p].status = "requires_payment_method")
            => SerializeIntent(p, pis[p]) \in told
    /\ \A c \in DOMAIN charges : ChargeIsTold(c)
    /\ \A t \in DOMAIN transfers : SerializeTransfer(t, transfers[t]) \in told
    /\ \A d \in DOMAIN disputes : SerializeDispute(d, disputes[d]) \in told
    /\ \A o \in DOMAIN payouts : payouts[o].status # "pending" => SerializePayout(o, payouts[o]) \in told
    /\ \A a \in V1 : v1[a] = "complete" => SerializeAccount(a, v1[a]) \in told
    /\ \A a \in V2 : v2[a] = "active" => SerializeAccount(a, v2[a]) \in told

\* The dashboard's payout takes all there is, once: after it the account has
\* nothing left in that currency, though the bank has not answered
\* (payoutAccountBalance).
PaysOutOnce ==
    \A o \in DOMAIN payouts' \ DOMAIN payouts :
        payouts'[o].automatic => (BalanceOf(payouts[o].acct, payouts[o].cur) = 0)'

===============================================================================
