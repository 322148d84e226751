----------------------------- MODULE StripeBilling -----------------------------
(***************************************************************************)
(* Checkout and billing of the Stripe mock: checkout sessions, coupons and *)
(* promotion codes, subscriptions with their invoices, the customer portal *)
(* and the mock clock, over the payment intents and charges of             *)
(* StripeMoney.  As there, a handler holds m.mu throughout and is one      *)
(* action, a refused request is no step, an id is a position and 0 none.   *)
(* Times are in units of 48 hours, the least notice of a trial's end; 0 is *)
(* Go's zero time.                                                         *)
(***************************************************************************)
EXTENDS Integers, Sequences, FiniteSets, SequencesExt

CONSTANTS
    Platform,           \* as in StripeMoney
    NoCoupon,           \* no coupon under an id
    CouponIds, Texts,   \* ids of coupons, texts of promotion codes
    Coupons,            \* bodies of POST /v1/coupons
    Codes,              \* bodies of POST /v1/promotion_codes
    Checkouts,          \* bodies of POST /v1/checkout/sessions
    Updates,            \* bodies of POST /v1/subscriptions/{id}
    Advances,           \* how far callers ask to move the clock
    MaxAdvance,         \* maxClockAdvanceYears
    MaxSessions, MaxCodes, MaxCustomers, MaxRefunds, MaxTime    \* bounds

Times == 0 .. MaxTime
\* percent # 0 is percent_off, else off is amount_off in cur; by and max are 0
\* for no expiry and no limit.
CouponType == [percent : 0 .. 100, off : Nat, cur : STRING, months : Nat, max : Nat,
               by : Times, redeemed : Nat, dur : {"once", "repeating", "forever"}]
CodeType == [text : Texts, coupon : CouponIds, active : BOOLEAN, max : Nat,
             by : Times, redeemed : Nat]
DiscountType == [coupon : CouponIds \cup {NoCoupon}, promo : Nat]
CheckoutType == [subscription : BOOLEAN, amount : Nat, cur : STRING, period : Nat \ {0},
                 trial : Times, disc : DiscountType, typed : BOOLEAN, customer : Nat]

VARIABLES
    pis, charges, refunds, told,    \* as in StripeMoney
    now,            \* the mock clock: real time plus its offset
    coupons, codes, sessions, subs, invoices,
    customers,      \* how many customers there are
    cancelEnabled   \* the portal's configuration

billing == <<pis, charges, told, subs, invoices>>
rest    == <<refunds, now, coupons, codes, sessions, customers, cancelEnabled>>
vars    == <<billing, rest>>

Money == INSTANCE StripeMoney WITH
    V1 <- {}, V2 <- {}, Currencies <- <<"usd">>, Requests <- {}, Amounts <- {0},
    MaxIntents <- 0, MaxObjects <- MaxSessions * (MaxTime + 2) + MaxRefunds + 1, MaxReversals <- 0,
    transfers <- << >>, payouts <- << >>, disputes <- << >>, v1 <- << >>, v2 <- << >>

SessionType == [req : CheckoutType, disc : DiscountType, off : Nat, sub : Nat, pi : Nat,
                status : {"open", "complete", "expired"},
                payment : {"unpaid", "paid", "no_payment_required"}]
SubDiscountType == [coupon : CouponIds \cup {NoCoupon}, percent : 0 .. 100, off : Nat,
                    dur : {"none", "once", "repeating", "forever"}, end : Nat]
SubType == [session : Nat, customer : Nat, anchor : Nat, cycles : Nat, start : Nat, end : Nat,
            status : {"trialing", "active", "past_due", "canceled"}, atEnd : BOOLEAN,
            cancelAt : Nat, failNext : BOOLEAN, disc : SubDiscountType, latest : Nat]
InvoiceType == [sub : Nat, subtotal : Nat, off : Nat, dur : STRING, start : Nat, end : Nat,
                status : {"open", "paid", "void"}, attempts : Nat, pi : Nat]

TypeOK ==
    /\ now \in Times /\ customers \in Nat /\ cancelEnabled \in BOOLEAN
    /\ coupons \in [CouponIds -> CouponType \cup {NoCoupon}] /\ codes \in Seq(CodeType)
    /\ sessions \in Seq(SessionType) /\ subs \in Seq(SubType) /\ invoices \in Seq(InvoiceType)

Init ==
    /\ pis = << >> /\ charges = << >> /\ refunds = << >> /\ told = {}
    /\ now = 1 /\ coupons = [id \in CouponIds |-> NoCoupon] /\ codes = << >>
    /\ sessions = << >> /\ subs = << >> /\ invoices = << >>
    /\ customers = 0 /\ cancelEnabled = TRUE

----------------------------------------------------------------------------
(* Coupons and promotion codes.                                            *)

Smaller(a, b) == IF a <= b THEN a ELSE b
Larger(a, b)  == IF a <= b THEN b ELSE a

DiscountFor(d, subtotal) ==
    IF d.percent > 0 THEN (subtotal * d.percent + 50) \div 100 ELSE Smaller(d.off, subtotal)

\* validationError of a coupon, and of an active promotion code.
Valid(c) == (c.by = 0 \/ now <= c.by) /\ (c.max = 0 \/ c.redeemed < c.max)
ValidCode(p) == codes[p].active /\ Valid(codes[p])

\* Exactly one of percent_off and amount_off, which needs a currency.
CreateCoupon(id, c) ==
    /\ coupons[id] = NoCoupon
    /\ (c.percent > 0) # (c.off > 0)
    /\ c.dur = "repeating" => c.months > 0
    /\ coupons' = [coupons EXCEPT ![id] = c]
    /\ UNCHANGED <<billing, refunds, now, codes, sessions, customers, cancelEnabled>>

DeleteCoupon(id) ==
    /\ coupons[id] # NoCoupon
    /\ coupons' = [coupons EXCEPT ![id] = NoCoupon]
    /\ UNCHANGED <<billing, refunds, now, codes, sessions, customers, cancelEnabled>>

\* The codes findPromotionCode may return: it walks a map, an active one wins.
Found(text) ==
    LET same == {p \in DOMAIN codes : codes[p].text = text}
    IN  IF \E p \in same : codes[p].active THEN {p \in same : codes[p].active} ELSE same

CreatePromotionCode(c) ==
    /\ Len(codes) < MaxCodes
    /\ coupons[c.coupon] # NoCoupon
    /\ \A p \in Found(c.text) : ~codes[p].active
    /\ codes' = Append(codes, c)
    /\ UNCHANGED <<billing, refunds, now, coupons, sessions, customers, cancelEnabled>>

\* The update does not look for another active code of the same text.
UpdatePromotionCode(p, active) ==
    /\ codes' = [codes EXCEPT ![p].active = active]
    /\ UNCHANGED <<billing, refunds, now, coupons, sessions, customers, cancelEnabled>>

\* applyDiscount: a promotion code stands for its coupon.
Resolved(d) ==
    IF d.promo = 0 THEN d ELSE [d EXCEPT !.coupon = codes[d.promo].coupon]
Applies(d, r) ==
    /\ d.promo # 0 => d.promo \in DOMAIN codes /\ ValidCode(d.promo)
    /\ LET c == coupons[Resolved(d).coupon]
       IN  /\ c # NoCoupon /\ Valid(c)
           /\ c.percent > 0 \/ c.cur = r.cur

\* redeemDiscount validates again when the buyer pays.
\* Mutant: it trusts what was validated when the session was created.
RedeemableOnce(d) == coupons[d.coupon] # NoCoupon
Redeemable(d) ==
    /\ coupons[d.coupon] # NoCoupon /\ Valid(coupons[d.coupon])
    /\ d.promo # 0 => ValidCode(d.promo)

----------------------------------------------------------------------------
(* What events show, and the state that the clock's loop threads through.  *)

SerializeSubscription(s, sub) ==
    [kind |-> "subscription", id |-> s, status |-> sub.status, start |-> sub.start,
     end |-> sub.end, atEnd |-> sub.atEnd, cancelAt |-> sub.cancelAt,
     disc |-> sub.disc, latest |-> sub.latest]

Total(inv) == inv.subtotal - inv.off

SerializeInvoice(i, inv) ==
    [kind |-> "invoice", id |-> i, status |-> inv.status, attempts |-> inv.attempts,
     paid |-> IF inv.status = "paid" THEN Total(inv) ELSE 0,
     payment |-> CASE inv.pi = 0 -> "none"
                   [] inv.status = "paid" -> "paid"
                   [] inv.status = "void" -> "canceled"
                   [] OTHER -> "open"]

SerializeSession(k, sess) ==
    [kind |-> "session", id |-> k, status |-> sess.status, payment |-> sess.payment,
     pi |-> sess.pi, sub |-> sess.sub]

State == [subs |-> subs, invoices |-> invoices, pis |-> pis, charges |-> charges, told |-> told]
Become(st) ==
    /\ subs' = st.subs /\ invoices' = st.invoices /\ pis' = st.pis
    /\ charges' = st.charges /\ told' = st.told

Tell(st, events) ==
    [st EXCEPT !.told = {e \in @ : \A f \in events : ~Money!Same(e, f)} \cup events]
\* Mutant: the invoice's event is left out.
TellAboutSubscription(st, s, i) == Tell(st, {SerializeSubscription(s, st.subs[s])})
TellAbout(st, s, i) ==
    Tell(st, {SerializeSubscription(s, st.subs[s]), SerializeInvoice(i, st.invoices[i])})

----------------------------------------------------------------------------
(* Subscriptions and invoices.                                             *)

Undiscounted == [coupon |-> NoCoupon, percent |-> 0, off |-> 0, dur |-> "none", end |-> 0]

PeriodEnd(sub, n) == sub.anchor + sessions[sub.session].req.period * (n + 1)
DueAt(sub) ==
    IF sub.cancelAt # 0 /\ sub.cancelAt < sub.end THEN sub.cancelAt ELSE sub.end

Expired(d, at) == d.end # 0 /\ at >= d.end

SubDiscountFor(sub, subtotal, at) ==
    IF sub.disc.dur = "none" \/ Expired(sub.disc, at) THEN 0 ELSE DiscountFor(sub.disc, subtotal)

NewInvoice(s, sub, at) ==
    LET amount == sessions[sub.session].req.amount
        off    == SubDiscountFor(sub, amount, at)
    IN  [sub |-> s, subtotal |-> amount, off |-> off,
         dur |-> IF off > 0 THEN sub.disc.dur ELSE "none",
         start |-> sub.start, end |-> sub.end, status |-> "open", attempts |-> 0, pi |-> 0]

NewIntent(amount) ==
    [req |-> [amount |-> amount, cur |-> "usd", fee |-> 0, dest |-> Platform, tamount |-> 0,
              acct |-> Platform, manual |-> FALSE, pm |-> TRUE],
     status |-> "requires_payment_method", received |-> 0, failed |-> FALSE, charge |-> 0]

\* A new charge on intent p, made for it if need be; a checkout's intent does
\* not fill in amount_received.
Charged(st, p, amount, received) ==
    LET c  == Len(st.charges) + 1
        pi == [NewIntent(amount) EXCEPT !.status = "succeeded", !.charge = c, !.received = received]
        ch == [pi |-> p, captured |-> amount, cur |-> "usd", refunded |-> 0, full |-> FALSE,
               dispute |-> 0, transfer |-> 0]
    IN  Tell([st EXCEPT !.charges = Append(@, ch),
                        !.pis = IF p \in DOMAIN @ THEN [@ EXCEPT ![p] = pi] ELSE Append(@, pi)],
             {Money!SerializeIntent(p, pi), Money!SerializeCharge(c, ch)})

\* payInvoiceLocked: on the invoice's intent if it has one; nothing to pay
\* needs no payment.
PayInvoice(st, i) ==
    LET inv  == st.invoices[i]
        p    == IF inv.pi # 0 THEN inv.pi ELSE Len(st.pis) + 1
        paid == [st EXCEPT !.invoices[i].status = "paid", !.invoices[i].attempts = Larger(@, 1)]
    IN  IF Total(inv) = 0 THEN paid
        ELSE Charged([paid EXCEPT !.invoices[i].pi = p], p, Total(inv), Total(inv))

\* An invoice whose first collection fails, with the intent that failed.
FailInvoice(st, i) ==
    LET p  == Len(st.pis) + 1
        pi == [NewIntent(Total(st.invoices[i])) EXCEPT !.failed = TRUE]
    IN  Tell([st EXCEPT !.invoices[i].attempts = 1, !.invoices[i].pi = p, !.pis = Append(@, pi)],
             {Money!SerializeIntent(p, pi)})

Voided(st, s) ==
    {i \in DOMAIN st.invoices : st.invoices[i].sub = s /\ st.invoices[i].status = "open"}

\* cancelSubscriptionLocked: every open invoice of it is voided, its payment
\* intent is left as it is.
Cancel(st, s) ==
    LET sub   == [st.subs[s] EXCEPT !.status = "canceled", !.atEnd = FALSE]
        open  == Voided(st, s)
        void(i) == [st.invoices[i] EXCEPT !.status = "void"]
    IN  Tell([st EXCEPT !.subs[s] = sub,
                        !.invoices = [i \in DOMAIN @ |-> IF i \in open THEN void(i) ELSE @[i]]],
             {SerializeSubscription(s, sub)} \cup {SerializeInvoice(i, void(i)) : i \in open})

\* cycleSubscriptionLocked, at the time the subscription is due.
Cycle(st, s) ==
    LET old   == st.subs[s]
        at    == DueAt(old)
        n     == IF old.status = "trialing" THEN 0 ELSE old.cycles + 1
        disc  == IF Expired(old.disc, at) THEN Undiscounted ELSE old.disc
        next  == [old EXCEPT !.status = "active", !.start = at, !.cycles = n, !.disc = disc,
                             !.end = PeriodEnd(old, n), !.failNext = FALSE,
                             !.latest = Len(st.invoices) + 1]
        inv   == NewInvoice(s, next, at)
        fails == old.failNext /\ Total(inv) > 0
        sub   == [next EXCEPT !.status = IF fails THEN "past_due" ELSE "active",
                              !.disc = IF disc.dur = "once" THEN Undiscounted ELSE disc]
        made  == [st EXCEPT !.subs[s] = sub, !.invoices = Append(@, inv)]
    IN  IF old.atEnd \/ (old.cancelAt # 0 /\ old.cancelAt <= at) \/ old.status = "past_due"
        THEN Cancel(st, s)
        ELSE TellAbout(IF fails THEN FailInvoice(made, sub.latest) ELSE PayInvoice(made, sub.latest),
                       s, sub.latest)

\* createSubscriptionLocked: a trial is period zero with an invoice over
\* nothing; else the first invoice carries the session's discount, and a once
\* coupon is spent on it.
FirstSubscription(sess, k, customer) ==
    LET trial == sess.req.trial # 0
        c     == coupons[sess.disc.coupon]
        disc  == IF sess.disc.coupon = NoCoupon THEN Undiscounted
                 ELSE [coupon |-> sess.disc.coupon, percent |-> c.percent, off |-> c.off, dur |-> c.dur,
                       end |-> IF c.dur = "repeating" THEN now + c.months ELSE 0]
    IN  [session |-> k, customer |-> customer, cycles |-> 0, start |-> now, atEnd |-> FALSE,
         anchor |-> IF trial THEN sess.req.trial ELSE now,
         end |-> IF trial THEN sess.req.trial ELSE now + sess.req.period,
         status |-> IF trial THEN "trialing" ELSE "active",
         cancelAt |-> 0, failNext |-> FALSE, latest |-> Len(invoices) + 1, disc |-> disc]

CreateSubscription(st, sess, k, customer, pi) ==
    LET sub   == FirstSubscription(sess, k, customer)
        trial == sess.req.trial # 0
        off   == IF trial THEN 0 ELSE sess.off
        inv   == [sub |-> Len(st.subs) + 1, subtotal |-> IF trial THEN 0 ELSE sess.req.amount,
                  off |-> off, dur |-> IF off > 0 THEN sub.disc.dur ELSE "none",
                  start |-> sub.start, end |-> sub.end, status |-> "paid", attempts |-> 1, pi |-> pi]
        kept  == [sub EXCEPT !.disc = IF ~trial /\ @.dur = "once" THEN Undiscounted ELSE @]
    IN  TellAbout([st EXCEPT !.subs = Append(@, kept), !.invoices = Append(@, inv)],
                  inv.sub, kept.latest)

----------------------------------------------------------------------------
(* Checkout sessions.                                                      *)

\* A trial ends 48 hours from now or later.
TrialFits(r) == r.trial = 0 \/ r.trial >= now + 1

CreateCheckoutSession(r) ==
    /\ Len(sessions) < MaxSessions
    /\ TrialFits(r) /\ r.customer <= customers
    /\ LET some == r.disc.promo # 0 \/ r.disc.coupon # NoCoupon
           d    == IF some THEN Resolved(r.disc) ELSE r.disc
       IN  /\ some => Applies(r.disc, r)
           /\ sessions' = Append(sessions,
                [req |-> r, disc |-> d, status |-> "open", payment |-> "unpaid", sub |-> 0, pi |-> 0,
                 off |-> IF some THEN DiscountFor(coupons[d.coupon], r.amount) ELSE 0])
    /\ UNCHANGED <<billing, refunds, now, coupons, codes, customers, cancelEnabled>>

\* The buyer pays, having typed promotion code promo unless it is 0.
CompleteCheckout(k, promo) ==
    LET req  == sessions[k].req
        typed == Resolved([coupon |-> NoCoupon, promo |-> promo])
        d    == IF promo = 0 THEN sessions[k].disc ELSE typed
        off  == IF promo = 0 THEN sessions[k].off ELSE DiscountFor(coupons[d.coupon], req.amount)
        free == off = req.amount \/ req.trial # 0
        p    == IF free THEN 0 ELSE Len(pis) + 1
        new  == IF req.subscription /\ req.customer = 0 THEN 1 ELSE 0
        sess == [sessions[k] EXCEPT !.disc = d, !.off = off, !.status = "complete",
                    !.payment = IF free THEN "no_payment_required" ELSE "paid",
                    !.pi = IF req.subscription THEN 0 ELSE p,
                    !.sub = IF req.subscription THEN Len(subs) + 1 ELSE 0]
        made == IF req.subscription
                THEN CreateSubscription(State, sess, k, req.customer + new * (customers + 1), p)
                ELSE State
    IN  /\ sessions[k].status = "open" /\ TrialFits(req)
        /\ promo # 0 => req.typed /\ Applies(typed, req)
        /\ d.coupon # NoCoupon => Redeemable(d)
        /\ coupons' = IF d.coupon = NoCoupon THEN coupons
                      ELSE [coupons EXCEPT ![d.coupon].redeemed = @ + 1]
        /\ codes' = IF d.promo = 0 THEN codes ELSE [codes EXCEPT ![d.promo].redeemed = @ + 1]
        /\ sessions' = [sessions EXCEPT ![k] = sess]
        /\ customers' = customers + new
        /\ Become(Tell(IF free THEN made ELSE Charged(made, p, req.amount - off, 0),
                       {SerializeSession(k, sess)}))
        /\ UNCHANGED <<refunds, now, cancelEnabled>>

\* The buyer cancels, or the app or the dashboard expires the session; a
\* declined card leaves it open.
ExpireSession(k) ==
    LET sess == [sessions[k] EXCEPT !.status = "expired"]
    IN  /\ sessions[k].status = "open"
        /\ sessions' = [sessions EXCEPT ![k] = sess]
        /\ Become(Tell(State, {SerializeSession(k, sess)}))
        /\ UNCHANGED <<refunds, now, coupons, codes, customers, cancelEnabled>>

CreateCustomer ==
    /\ customers < MaxCustomers
    /\ customers' = customers + 1
    /\ UNCHANGED <<billing, refunds, now, coupons, codes, sessions, cancelEnabled>>

----------------------------------------------------------------------------
(* The clock.                                                              *)

\* Mutant: a period that ends at the target is left for the next advance.
DueBefore(st, to) == {s \in DOMAIN st.subs : st.subs[s].status # "canceled" /\ DueAt(st.subs[s]) < to}
Due(st, to) == {s \in DOMAIN st.subs : st.subs[s].status # "canceled" /\ DueAt(st.subs[s]) <= to}

\* The earliest due subscription first, until none is due by the target; the
\* ids that break ties are random.
CycleDue(to) ==
    FoldLeft(LAMBDA st, i :
                IF Due(st, to) = {} THEN st
                ELSE Cycle(st, CHOOSE s \in Due(st, to) :
                                  \A o \in Due(st, to) : DueAt(st.subs[s]) <= DueAt(st.subs[o])),
             State, [i \in 1 .. (MaxTime + 1) * Len(subs) |-> i])

AdvanceClock(to) ==
    /\ to \in now .. Smaller(now + MaxAdvance, MaxTime)
    /\ now' = to
    /\ Become(CycleDue(to))
    /\ UNCHANGED <<refunds, coupons, codes, sessions, customers, cancelEnabled>>

\* nextPeriodTarget: the time it is due, or now if that has passed.
NextPeriod(s) ==
    /\ subs[s].status # "canceled"
    /\ AdvanceClock(Larger(DueAt(subs[s]), now))

\* Real time passes, and no subscription is cycled by it.
TimePasses ==
    /\ now < MaxTime
    /\ now' = now + 1
    /\ UNCHANGED <<billing, refunds, coupons, codes, sessions, customers, cancelEnabled>>

----------------------------------------------------------------------------
(* The dashboard, the API and the portal on a subscription.                *)

Live(s) == subs[s].status # "canceled"

\* "Retry payment": pays the open invoice of a past_due subscription.
RetrySubscription(s) ==
    LET i   == subs[s].latest
        try == [State EXCEPT !.subs[s].status = "active", !.invoices[i].attempts = @ + 1]
    IN  /\ subs[s].status = "past_due" /\ invoices[i].status = "open"
        /\ Become(TellAbout(PayInvoice(try, i), s, i))
        /\ UNCHANGED rest

\* "Fail next renewal" toggles; no event.
FailNext(s) ==
    /\ subs[s].status \in {"active", "trialing"}
    /\ subs' = [subs EXCEPT ![s].failNext = ~@]
    /\ UNCHANGED <<pis, charges, told, invoices, rest>>

CancelNow(s) ==
    /\ Live(s)
    /\ Become(Cancel(State, s))
    /\ UNCHANGED rest

\* Mutant: a canceled subscription can still be updated.
UpdatableAny(s) == TRUE
Updatable(s) == Live(s)

\* POST /v1/subscriptions/{id}: cancel_at is -1 for absent and 0 for cleared;
\* one not in the future cancels now.
UpdateSubscription(s, u) ==
    LET sub == [subs[s] EXCEPT !.atEnd = IF u.atEnd = "" THEN @ ELSE u.atEnd = "true",
                               !.cancelAt = IF u.cancelAt = -1 THEN @ ELSE u.cancelAt]
        st  == [State EXCEPT !.subs[s] = sub]
    IN  /\ Updatable(s)
        /\ Become(IF sub.cancelAt # 0 /\ sub.cancelAt <= now THEN Cancel(st, s)
                  ELSE Tell(st, {SerializeSubscription(s, sub)}))
        /\ UNCHANGED rest

PortalConfigure(enabled) ==
    /\ cancelEnabled' = enabled
    /\ UNCHANGED <<billing, refunds, now, coupons, codes, sessions, customers>>

\* The portal's cancel and keep buttons, for a portal session of the customer.
PortalAction(customer, s, cancel) ==
    LET sub == [subs[s] EXCEPT !.atEnd = cancel]
    IN  /\ cancelEnabled /\ Live(s) /\ subs[s].customer = customer
        /\ Become(Tell([State EXCEPT !.subs[s] = sub], {SerializeSubscription(s, sub)}))
        /\ UNCHANGED rest

----------------------------------------------------------------------------
(* The payment intents of checkouts and invoices, as any other intent.     *)

CompleteIntent(p) ==
    /\ Money!CompleteSucceed(p) \/ Money!CompleteFail(p)
    /\ UNCHANGED <<now, coupons, codes, sessions, subs, invoices, customers, cancelEnabled>>

RefundPayment(c) ==
    /\ Len(refunds) < MaxRefunds
    /\ Money!Refund(c, 0, FALSE, FALSE)
    /\ UNCHANGED <<now, coupons, codes, sessions, subs, invoices, customers, cancelEnabled>>

CouponNext ==
    \/ \E id \in CouponIds : \/ DeleteCoupon(id)
                             \/ \E c \in Coupons : CreateCoupon(id, c)
    \/ \E c \in Codes : CreatePromotionCode(c)
    \/ \E p \in DOMAIN codes, active \in BOOLEAN : UpdatePromotionCode(p, active)
    \/ CreateCustomer

SessionNext ==
    \/ \E r \in Checkouts : CreateCheckoutSession(r)
    \/ \E k \in DOMAIN sessions :
          \/ ExpireSession(k) \/ CompleteCheckout(k, 0)
          \/ \E text \in Texts : \E p \in Found(text) : CompleteCheckout(k, p)

ClockNext ==
    \/ \E n \in Advances : AdvanceClock(now + n)
    \/ TimePasses

SubscriptionNext ==
    \/ \E b \in BOOLEAN : PortalConfigure(b)
    \/ \E p \in DOMAIN pis : CompleteIntent(p)
    \/ \E c \in DOMAIN charges : RefundPayment(c)
    \/ \E s \in DOMAIN subs :
          \/ NextPeriod(s) \/ RetrySubscription(s) \/ FailNext(s) \/ CancelNow(s)
          \/ \E u \in Updates : UpdateSubscription(s, u)
          \/ \E n \in 1 .. customers, cancel \in BOOLEAN : PortalAction(n, s, cancel)

Next == CouponNext \/ SessionNext \/ ClockNext \/ SubscriptionNext

Spec == Init /\ [][Next]_vars

----------------------------------------------------------------------------

InvoicesOf(s) == {i \in DOMAIN invoices : invoices[i].sub = s}

\* A subscription is past_due exactly while its last invoice is open, and no
\* other invoice ever is, whatever is retried, canceled or left to the clock.
OpenIsPastDue ==
    /\ \A s \in DOMAIN subs :
          subs[s].status = "past_due" <=> invoices[subs[s].latest].status = "open"
    /\ \A i \in DOMAIN invoices : invoices[i].status = "open" => subs[invoices[i].sub].latest = i

\* The invoices of a subscription cover its time with no gap and no overlap,
\* up to the end of its current period, however far one advance goes.
PeriodsTile ==
    \A s \in DOMAIN subs :
        /\ invoices[subs[s].latest].end = subs[s].end
        /\ \A i \in InvoicesOf(s) :
              /\ invoices[i].start < invoices[i].end
              /\ i # subs[s].latest => \E j \in InvoicesOf(s) : invoices[j].start = invoices[i].end
        /\ \A i, j \in InvoicesOf(s) : i < j => invoices[i].end <= invoices[j].start

\* A coupon that is taken off once is taken off one invoice, trial or not, and
\* a repeating one off no invoice that starts when its months are over.
DiscountsEnd ==
    \A s \in DOMAIN subs :
        /\ Cardinality({i \in InvoicesOf(s) : invoices[i].dur = "once"}) <= 1
        /\ \A i \in InvoicesOf(s) :
              (invoices[i].dur = "repeating" /\ subs[s].disc.dur = "repeating") =>
                  invoices[i].start < subs[s].disc.end

\* No coupon or code is redeemed more often than it may be, whenever the
\* sessions that carry it were created, nor more often than sessions paid.
LimitsKept ==
    LET paid(of(_)) == Cardinality({k \in DOMAIN sessions : sessions[k].status = "complete" /\ of(k)})
    IN  /\ \A id \in CouponIds : coupons[id] # NoCoupon =>
              /\ coupons[id].max = 0 \/ coupons[id].redeemed <= coupons[id].max
              /\ coupons[id].redeemed <= paid(LAMBDA k : sessions[k].disc.coupon = id)
        /\ \A p \in DOMAIN codes :
              /\ codes[p].max = 0 \/ codes[p].redeemed <= codes[p].max
              /\ codes[p].redeemed = paid(LAMBDA k : sessions[k].disc.promo = p)

\* A paid invoice has a charge of its total, one over nothing has no payment.
PaidIsCharged ==
    \A i \in DOMAIN invoices :
        /\ invoices[i].pi = 0 <=> Total(invoices[i]) = 0
        /\ (invoices[i].status = "paid" /\ invoices[i].pi # 0) =>
              /\ pis[invoices[i].pi].status = "succeeded"
              /\ charges[pis[invoices[i].pi].charge].captured = Total(invoices[i])
        /\ \A j \in DOMAIN invoices : (invoices[i].pi = invoices[j].pi /\ i # j) => invoices[i].pi = 0

\* The parts of billing's invariant.
Inv == TypeOK /\ OpenIsPastDue /\ PeriodsTile /\ DiscountsEnd /\ LimitsKept /\ PaidIsCharged

\* An app that applies the events as they come knows every subscription and
\* every invoice as it is (voided ones too), and every session that is closed.
AppIsTold ==
    /\ \A s \in DOMAIN subs : SerializeSubscription(s, subs[s]) \in told
    /\ \A i \in DOMAIN invoices : SerializeInvoice(i, invoices[i]) \in told
    /\ \A k \in DOMAIN sessions :
          sessions[k].status # "open" => SerializeSession(k, sessions[k]) \in told

\* Once canceled, a subscription never changes and is never invoiced again.
StaysCanceled ==
    \A s \in DOMAIN subs : subs[s].status = "canceled" => subs'[s] = subs[s]

\* A move of the clock leaves nothing due by its target undone: after it every
\* live subscription is due later (advanceClock's loop).
LeavesNothingDue ==
    (\E to \in Times : AdvanceClock(to)) =>
        \A s \in DOMAIN subs' :
            subs'[s].status # "canceled" =>
                /\ subs'[s].end > now'
                /\ subs'[s].cancelAt = 0 \/ subs'[s].cancelAt > now'

\* A payment intent "drives a single payment": a card is charged once for it.
SinglePayment == \A c, d \in DOMAIN charges : charges[c].pi = charges[d].pi => c = d
================================================================================
