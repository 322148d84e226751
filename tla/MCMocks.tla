-------------------------------- MODULE MCMocks --------------------------------
(***************************************************************************)
(* The mocks of `hamr dev`, one question at a time: which one a behaviour  *)
(* is about is chosen at its start, and the others stand still.  The money *)
(* of Stripe is a platform with one v1 and one v2 account and a payment of *)
(* each kind; its billing shares the payments with it.                     *)
(***************************************************************************)
EXTENDS Integers, Sequences, FiniteSets, TLC

CONSTANTS
    platform, acct1, acct2,     \* who has a balance
    nothing, half,              \* no coupon, a coupon
    r1, r2, r3, k1, k2,         \* requests and idempotency keys
    key, none                   \* a lookup key

VARIABLES
    part,
    pis, charges, refunds, transfers, payouts, disputes, v1, v2, told,
    clock, coupons, codes, sessions, subs, invoices, customers, cancelEnabled,
    pc, entry, idem, entries, mem, sdisk, batches, events, heard, listening, forgotten, sfaults, restarted,
    made, unstored,
    prices, settings, cdisk, now, walk, constantly, asked, behind,
    kind, cap, messages, file, given, kept, excused, mfaults,
    sent, inbox, step

Plain == [amount |-> 3000, cur |-> "usd", fee |-> 0, dest |-> platform, tamount |-> -1,
          acct |-> platform, manual |-> FALSE, pm |-> TRUE]
\* A destination charge, captured later, with a fee a partial capture is below.
Destination == [Plain EXCEPT !.fee = 700, !.dest = acct1, !.manual = TRUE]
\* A direct charge whose fee does not divide evenly, in another currency.
Direct == [Plain EXCEPT !.cur = "gbp", !.fee = 101, !.acct = acct1, !.pm = FALSE]
\* A fee above the amount, which is refused.
Wrong == [Plain EXCEPT !.fee = 3001]
\* More to the account than the card pays.
TooMuch == [Plain EXCEPT !.dest = acct2, !.tamount = 4000]

P == INSTANCE StripeMoney WITH
        Platform <- platform, V1 <- {acct1}, V2 <- {acct2}, Currencies <- <<"gbp", "usd">>,
        Requests <- {Destination, Direct, TooMuch, Wrong}, Amounts <- {0, 500},
        MaxIntents <- 2, MaxObjects <- 3, MaxReversals <- 2

Code == [text |-> "SAVE", coupon |-> half, active |-> TRUE, max |-> 0, by |-> 2, redeemed |-> 0]
Half == [percent |-> 50, off |-> 0, cur |-> "usd", months |-> 0, max |-> 1, by |-> 0,
         redeemed |-> 0, dur |-> "once"]
\* A coupon for three units of time, of more than the price.
Free == [Half EXCEPT !.percent = 0, !.off = 900, !.months = 3, !.max = 0, !.dur = "repeating"]

Undisc == [coupon |-> nothing, promo |-> 0]
Monthly == [subscription |-> TRUE, amount |-> 500, cur |-> "usd", period |-> 2, trial |-> 0,
            disc |-> [coupon |-> half, promo |-> 0], typed |-> FALSE, customer |-> 0]
Trial == [Monthly EXCEPT !.trial = 3]
Typed == [Monthly EXCEPT !.disc = Undisc, !.typed = TRUE]
\* A payment, of a known customer, with the promotion code.
OneOff == [Monthly EXCEPT !.subscription = FALSE, !.customer = 1, !.disc.coupon = nothing, !.disc.promo = 1]

S == INSTANCE StripeBilling WITH
        Platform <- platform, NoCoupon <- nothing, CouponIds <- {half}, Texts <- {"SAVE"},
        Coupons <- {Half, Free}, Codes <- {Code}, Checkouts <- {Monthly, Trial, Typed, OneOff},
        Updates <- {[atEnd |-> "true", cancelAt |-> -1], [atEnd |-> "", cancelAt |-> 4]},
        Advances <- {1, 5}, MaxAdvance <- 5, MaxSessions <- 2, MaxCodes <- 1, MaxCustomers <- 1,
        MaxRefunds <- 1, MaxTime <- 6, now <- clock
D == INSTANCE StripeDelivery WITH
        Requests <- {r1, r2, r3}, KeyOf <- (r1 :> k1 @@ r2 :> k1 @@ r3 :> k2),
        EventsPer <- 2, EventLimit <- 2, IdemLimit <- 1, MaxFaults <- 2,
        disk <- sdisk, inbox <- heard, faults <- sfaults
C == INSTANCE StripeCatalog WITH
        Ids <- {1, 2, 3}, Keys <- {key}, NoKey <- none, Days <- {<<1, 32>>, <<31>>},
        PageLimit <- 1, MaxTime <- 1, MaxSettings <- 3, disk <- cdisk
M == INSTANCE MockInbox WITH
        Ids <- {1, 2, 3}, MaxMessages <- 2, Caps <- {1, 2}, MaxFaults <- 2, faults <- mfaults
B == INSTANCE MboxFormat WITH MaxLines <- 2, MaxMails <- 2

pvars == <<pis, charges, refunds, told>>
qvars == <<transfers, payouts, disputes, v1, v2>>
svars == <<clock, coupons, codes, sessions, subs, invoices, customers, cancelEnabled>>
dvars == <<pc, entry, idem, entries, mem, sdisk, batches, events, heard, listening, forgotten,
           sfaults, restarted, made, unstored>>
cvars == <<prices, settings, cdisk, now, walk, constantly, asked, behind>>
mvars == <<kind, cap, messages, file, given, kept, excused, mfaults>>
bvars == <<sent, inbox, step>>
stripe == <<pvars, qvars, svars>>
others == <<dvars, cvars, mvars, bvars>>
vars  == <<part, pvars, qvars, svars, dvars, cvars, mvars, bvars>>

Parts == {"money", "checkout", "billing", "requests", "delivery", "keys", "settings", "walk", "inbox", "mbox"}

MCInit ==
    /\ part \in Parts
    /\ P!Init /\ S!Init /\ D!Init /\ C!Init /\ M!Init
    /\ IF part = "mbox" THEN B!Init ELSE sent = << >> /\ inbox = << >> /\ step = 0
    /\ part # "inbox" => kind = "mail"

\* Two sessions over coupons that come, go and run out, with time but no
\* subscription acted on.
Checkout == (S!CouponNext \/ S!SessionNext \/ S!ClockNext) /\ clock' <= 3

\* One session and all that may happen to what it made.
Billing ==
    \/ sessions = << >> /\ S!CouponNext /\ codes' = << >>
    \/ /\ S!SessionNext \/ S!ClockNext \/ S!SubscriptionNext
       /\ Len(sessions') <= 1 /\ (sessions' = << >> => clock' = 1)

\* Requests and their retries, with the restarts between them.
Requests == D!RequestNext \/ D!Restart

\* Two changes and what becomes of their events.
Delivery ==
    /\ D!Next
    /\ \A r \in {r1, r3} : pc'[r] \in {"idle", "running", "handled"}
    /\ pc'[r2] = "idle"
    /\ sfaults' <= IF unstored' = {} THEN 1 ELSE 2

\* Lookup keys; and the list while prices come and go under a reader.
KeysOnly == (C!PriceNext \/ C!Reload) /\ DOMAIN prices' # {1, 2, 3}
Listing ==
    \/ C!WalkNext \/ C!Tick
    \/ \E i \in {1, 2, 3}, on \in BOOLEAN :
           C!CreatePrice(i, none, FALSE) \/ C!UpdatePrice(i, on, FALSE, none, FALSE)

\* All that may become of one payment, and one thing that becomes of two.
Payments ==
    /\ P!Next
    /\ Len(pis') <= 1 \/ Len(refunds') + Len(transfers') + Len(payouts') + Len(disputes') <= 1

MCNext ==
    /\ UNCHANGED part
    /\ \/ part = "money" /\ Payments /\ UNCHANGED <<svars, others>>
       \/ /\ \/ part = "checkout" /\ Checkout
             \/ part = "billing" /\ Billing
          /\ UNCHANGED <<qvars, others>>
       \/ /\ \/ part = "requests" /\ Requests
             \/ part = "delivery" /\ Delivery
          /\ UNCHANGED <<stripe, cvars, mvars, bvars>>
       \/ /\ \/ part = "keys" /\ KeysOnly
             \/ part = "settings" /\ (C!SettingsNext \/ C!Reload)
             \/ part = "walk" /\ Listing
          /\ UNCHANGED <<stripe, dvars, mvars, bvars>>
       \/ part = "inbox" /\ M!Next /\ UNCHANGED <<stripe, dvars, cvars, bvars>>
       \/ part = "mbox" /\ B!Reread /\ UNCHANGED <<stripe, dvars, cvars, mvars>>

\* Handlers return, where requests are what is looked at.
MCSpec ==
    /\ MCInit /\ [][MCNext]_vars
    /\ WF_dvars(part = "requests" /\ \E r \in {r1, r2, r3} : D!Goes(r))

(***************************************************************************)
(* What each of them promises.                                             *)
(***************************************************************************)

\* What goes back once, and what every ledger and every event says of it.
MoneyInv == part = "money" => P!Inv /\ P!MoneyConserved /\ P!AppIsTold
\* Subscriptions, their invoices and coupons, and what the events say of them.
BillingInv == part \in {"checkout", "billing"} => S!Inv /\ S!AppIsTold
\* Requests, events and the state file; prices and settings; mail and SMS.
MocksInv ==
    /\ part \in {"requests", "delivery"} => D!Inv
    /\ part \in {"keys", "settings", "walk"} => C!Inv
    /\ part = "inbox" => M!Inv
    /\ part = "mbox" => B!Inv

\* No step pays out what is on its way, wakes what was canceled, or leaves
\* anything due behind.
BooksSettle ==
    [][/\ part = "money" => P!PaysOutOnce
       /\ part \in {"checkout", "billing"} => S!StaysCanceled /\ S!LeavesNothingDue]_vars

\* A card is charged once for a payment intent.
SinglePayment == S!SinglePayment

Waiting == part = "requests" /\ D!Hanging
RequestsEnd == Waiting ~> ~Waiting
===============================================================================
