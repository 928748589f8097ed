---------------------------- MODULE Subscriptions ----------------------------
(***************************************************************************)
(* The RevenueCat inbox of one store subscription and one owner:           *)
(* app/services/subscription.py (the event handlers),                      *)
(* app/services/subscription_processing.py (the staged path an adopted     *)
(* subscription takes), app/services/payment.py and                        *)
(* app/services/hay_ledger.py (what they book).                            *)
(*                                                                         *)
(* An event is committed to revenuecat_events first and then processed by   *)
(* the endpoint and by every tick, in any order.  The handlers run in one   *)
(* transaction that holds the inbox row and the advisory lock of the user.  *)
(* The staged path lets go of everything while it asks the provider, and    *)
(* must find what it read before unchanged when it comes back.              *)
(*                                                                         *)
(* One plan and one bonus; every amount is one hay.  Free periods, events   *)
(* without an amount and transfers of ownership are left out.               *)
(***************************************************************************)
EXTENDS Integers, FiniteSets

CONSTANTS
    Events,         \* webhook events
    KindOf,         \* what each event says
    TxOf,           \* its transaction_id
    StampOf,        \* its event_timestamp_ms
    EndOf,          \* expiration_at_ms or grace_period_expiration_at_ms
    FirstTx,        \* the transaction that opened the subscription
    Stores,         \* what a store may send, how often its answers change, whether
                    \* revenuecat_api_v2_key lets the program ask, and a bound on
                    \* the exceptions, crashes and failed reads meanwhile
    ProviderStates, \* what the provider answers, one state after another
    Workers,        \* the endpoint and the tick
    NoRow,          \* no row
    MaxAttempts,    \* _MAX_ATTEMPTS
    StageTries      \* the tries of a stage in finish_attempt

Kinds == {"purchase", "product", "unsubscribe", "expire", "billing",
          "refund", "reverse", "pack"}
Txs   == {TxOf[e] : e \in Events}

ASSUME EventAssumption ==
    /\ KindOf \in [Events -> Kinds]
    /\ StampOf \in [Events -> Nat \ {0}] /\ EndOf \in [Events -> Nat]
    /\ Stores \subseteq [sends: SUBSET Events, changes: Nat, key: BOOLEAN,
                              faults: Nat]
    /\ NoRow \notin Events
ASSUME BoundAssumption ==
    MaxAttempts \in Nat \ {0} /\ StageTries \in Nat \ {0}

VARIABLES
    store,      \* the store of this behaviour
    prov,       \* which of ProviderStates the provider is in
    inbox,      \* revenuecat_events
    sub,        \* the subscriptions row
    books,      \* payments, the bonus grant and the balance of the owner
    wk,         \* each worker: the event in hand and what it read
    faults      \* exceptions, crashes and failed reads of the provider so far

inboxVars == <<store, prov, inbox, sub, books, wk, faults>>

Stage == {"pending", "done", "skipped", "not_applicable", "manual"}
Row   == [status: {"none", "pending", "processed", "failed"}, attempts: Nat,
          staged: BOOLEAN, payment: Stage, bonus: Stage, adjust: Stage,
          access: {"pending", "verified", "manual"}, tries: Nat]
Sub   == [status: {"active", "grace_period", "expired", "revoked"}, end: Nat,
          latest: Txs, last: Nat, renew: BOOLEAN, rc: BOOLEAN,
          evidence: BOOLEAN, seen: Nat]
Pay   == [status: {"none", "paid", "refunded"}, reversed: BOOLEAN, link: BOOLEAN,
          review: {"none", "held", "granted", "not_granted"}]
Books == [pay: [Txs -> Pay], grant: {"none", "live", "revoked"}, balance: Int]

\* The provider's answer names a period that is known by an event.
ASSUME ProviderAssumption ==
    /\ IsFiniteSet(DOMAIN ProviderStates) /\ 1 \in DOMAIN ProviderStates
    /\ DOMAIN ProviderStates = 1..Cardinality(DOMAIN ProviderStates)
    /\ \A p \in DOMAIN ProviderStates :
          ProviderStates[p] \in [status: {"active", "grace_period", "expired", "revoked"},
                                end: Nat, latest: Txs, renew: BOOLEAN]
    /\ NoRow \notin Sub

NoPay == [status |-> "none", reversed |-> FALSE, link |-> FALSE, review |-> "none"]
Idle  == [pc |-> "idle", ev |-> NoRow, found |-> NoRow, before |-> NoRow,
          pay |-> NoPay, ok |-> FALSE, prov |-> 0, review |-> "held"]

IsPurchase(e) == KindOf[e] = "purchase"
Adjusts(e)    == KindOf[e] \in {"refund", "reverse"}

NewState(e) ==
    [status |-> "pending", attempts |-> 0, staged |-> FALSE,
     payment |-> IF IsPurchase(e) THEN "pending" ELSE "not_applicable",
     bonus   |-> IF IsPurchase(e) THEN "pending" ELSE "not_applicable",
     adjust  |-> IF Adjusts(e) THEN "pending" ELSE "not_applicable",
     access  |-> "pending", tries |-> 0]

InboxInit ==
    /\ store \in Stores
    /\ prov = 1
    /\ inbox = [e \in Events |-> [NewState(e) EXCEPT !.status = "none"]]
    /\ sub = NoRow
    /\ books = [pay |-> [t \in Txs |-> NoPay], grant |-> "none", balance |-> 0]
    /\ wk = [w \in Workers |-> Idle]
    /\ faults = 0

world == <<store, prov>>

-----------------------------------------------------------------------------
(* The inbox.                                                              *)

Ingest(e) ==
    /\ e \in store.sends /\ inbox[e].status = "none"
    /\ inbox' = [inbox EXCEPT ![e].status = "pending"]
    /\ UNCHANGED <<world, sub, books, wk, faults>>

Claimed(e) == \E w \in Workers : wk[w].pc = "legacy" /\ wk[w].ev = e

\* Which path an event takes: sticky once anything of the owner was staged, else
\* the switch subscription_access_evidence_enabled, which may be turned any time.
Stageable(e) ==
    /\ KindOf[e] # "pack"
    /\ ~(books.pay[TxOf[e]].status # "none" /\ books.pay[TxOf[e]].review = "none")

Sticky(e) ==
    \/ sub # NoRow /\ sub.evidence
    \/ \E x \in Events : inbox[x].staged

Select(w, e) ==
    /\ wk[w].pc = "idle" /\ inbox[e].status = "pending" /\ ~Claimed(e)
    /\ ~(Stageable(e) /\ Sticky(e))
    /\ wk' = [wk EXCEPT ![w] = [Idle EXCEPT !.pc = "legacy", !.ev = e]]
    /\ UNCHANGED <<world, inbox, sub, books, faults>>

Legacy(w, e, kind) == wk[w].pc = "legacy" /\ wk[w].ev = e /\ KindOf[e] = kind

Free(w) == wk' = [wk EXCEPT ![w] = Idle]

Processed(w, e) ==
    /\ Free(w) /\ inbox' = [inbox EXCEPT ![e].status = "processed"]
    /\ UNCHANGED <<world, faults>>

Retried(e) ==
    [inbox EXCEPT ![e].attempts = @ + 1,
                  ![e].status = IF inbox[e].attempts + 1 >= MaxAttempts
                                THEN "failed" ELSE "pending"]

HandledPending(w, e) ==
    Free(w) /\ inbox' = Retried(e) /\ UNCHANGED <<world, faults>>

\* Everything the handler did is rolled back; the row stays as it was.
Dependency(w) ==
    Free(w) /\ UNCHANGED <<world, inbox, sub, books, faults>>

-----------------------------------------------------------------------------
(* What the handlers book.                                                 *)

RecordPayment(b, t) ==
    IF b.pay[t].status # "none" THEN b
    ELSE [b EXCEPT !.pay[t] = [NoPay EXCEPT !.status = "paid", !.review = "held"]]

GrantIfFirst(b, t) ==
    IF b.grant = "none"
    THEN [b EXCEPT !.grant = "live", !.balance = @ + 1,
                   !.pay[t] = [@ EXCEPT !.link = TRUE, !.review = "granted",
                                        !.reversed = FALSE]]
    ELSE [b EXCEPT !.pay[t] = [@ EXCEPT !.link = FALSE, !.review = "not_granted",
                                        !.reversed = FALSE]]

FinishBonus(b, t, review) ==
    IF b.pay[t].status # "paid" THEN b
    ELSE IF review = "eligible" THEN GrantIfFirst(b, t)
    ELSE [b EXCEPT !.pay[t] = [@ EXCEPT !.review = review, !.reversed = FALSE]]

Clawback(b) ==
    IF b.grant = "live"
    THEN [b EXCEPT !.grant = "revoked", !.balance = @ - 1] ELSE b

\* Mutant: the refund leaves the bonus alone.
RefundWithoutClawback(b, t) == [b EXCEPT !.pay[t].status = "refunded"]

RefundSubscription(b, t) ==
    [(IF b.pay[t].link THEN Clawback(b) ELSE b) EXCEPT !.pay[t].status = "refunded"]

Restore(b) == [b EXCEPT !.grant = "live", !.balance = @ + 1]

ReverseRefund(b, t) ==
    [(IF b.pay[t].link THEN Restore(b) ELSE b)
        EXCEPT !.pay[t].status = "paid", !.pay[t].reversed = TRUE]

\* The first paid period of the plan earns the bonus; anything the provider
\* does not answer, or answers with a refunded amount, holds it.
BonusReviews(t) ==
    IF store.key THEN {"held", IF t = FirstTx THEN "eligible" ELSE "not_granted"}
    ELSE {"held"}

-----------------------------------------------------------------------------
(* Access: what the handlers make of the subscriptions row.                *)

Later(a, b)     == IF a > b THEN a ELSE b
StateApplies(e) == sub.last = 0 \/ StampOf[e] > sub.last
Bumped(s, e)    == [s EXCEPT !.last = Later(@, StampOf[e])]

NewSub(e) ==
    [status |-> "active", end |-> EndOf[e], latest |-> TxOf[e],
     last |-> StampOf[e], renew |-> TRUE, rc |-> FALSE, evidence |-> FALSE, seen |-> 0]

\* _reconcile_subscription: the provider decides.
Reconciled(s, e, p) ==
    Bumped([s EXCEPT !.status = ProviderStates[p].status,
                     !.end    = ProviderStates[p].end,
                     !.latest = ProviderStates[p].latest,
                     !.renew  = ProviderStates[p].renew,
                     !.rc = TRUE, !.seen = p], e)

\* access.project: the same, kept as evidence.
Projected(s, e, p) == [Reconciled(s, e, p) EXCEPT !.evidence = TRUE]

\* Mutant: a longer expiry also opens a refunded period.
ExtendsRevoked(e) == IsPurchase(e) /\ EndOf[e] > sub.end

Extends(e) == IsPurchase(e) /\ EndOf[e] > sub.end /\ sub.status # "revoked"

ApplyActive(e) ==
    IF ~(StateApplies(e) \/ Extends(e)) THEN sub
    ELSE IF KindOf[e] = "product" THEN Bumped([sub EXCEPT !.latest = TxOf[e]], e)
    ELSE Bumped([sub EXCEPT !.status = "active", !.end = EndOf[e],
                            !.latest = TxOf[e], !.renew = TRUE], e)

AfterActive(e) ==
    IF store.key /\ (sub = NoRow \/ sub.rc)
    THEN Reconciled(IF sub = NoRow THEN NewSub(e) ELSE sub, e, prov)
    ELSE IF sub = NoRow THEN NewSub(e)
    ELSE ApplyActive(e)

Adopted == sub # NoRow /\ sub.evidence

\* A provider that does not answer, or an adopted row: the transaction is undone.
LegacyActiveBlocked(w, e) ==
    /\ Legacy(w, e, "purchase") \/ Legacy(w, e, "product")
    /\ store.key \/ Adopted
    /\ Dependency(w)

LegacyPurchase(w, e) ==
    /\ Legacy(w, e, "purchase") /\ ~Adopted
    /\ sub' = AfterActive(e)
    /\ \E review \in BonusReviews(TxOf[e]) :
         LET t    == TxOf[e]
             open == \/ books.pay[t].status = "none"
                     \/ books.pay[t].review = "held" /\ books.pay[t].status = "paid"
         IN  /\ books' = IF open THEN FinishBonus(RecordPayment(books, t), t, review)
                         ELSE books
             /\ IF open /\ review = "held" THEN HandledPending(w, e)
                ELSE Processed(w, e)

LegacyProductChange(w, e) ==
    /\ Legacy(w, e, "product") /\ ~Adopted
    /\ sub' = AfterActive(e)
    /\ Processed(w, e) /\ UNCHANGED books

\* _handle_cancellation without a refund.
RenewalOff == [sub EXCEPT !.renew = FALSE]

\* UNSUBSCRIBE, EXPIRATION and BILLING_ISSUE: only a newer event moves the row.
LegacyState(w, e) ==
    LET k    == KindOf[e]
        skip == \/ k # "unsubscribe" /\ sub.status = "revoked"
                \/ k = "expire" /\ EndOf[e] < sub.end
    IN  /\ wk[w].pc = "legacy" /\ wk[w].ev = e
        /\ k \in {"unsubscribe", "expire", "billing"}
        /\ IF sub = NoRow THEN Dependency(w)
           ELSE IF ~skip /\ Adopted THEN Dependency(w)
           ELSE /\ Processed(w, e) /\ UNCHANGED books
                /\ sub' = IF skip \/ ~StateApplies(e) THEN sub
                          ELSE Bumped(CASE k = "unsubscribe" -> RenewalOff
                                        [] k = "expire" -> [sub EXCEPT !.status = "expired"]
                                        [] k = "billing" ->
                                             [sub EXCEPT !.status = "grace_period",
                                                         !.end = Later(@, EndOf[e])], e)

-----------------------------------------------------------------------------
(* Refunds, their reversals and the hay packs.                             *)

IsPack(t) == books.pay[t].status # "none" /\ books.pay[t].review = "none"

\* No payment yet.  With a provider link the access is brought up to date and
\* one of the attempts is spent; else the event waits for its purchase.
WithoutPayment(w, e) ==
    /\ books.pay[TxOf[e]].status = "none"
    /\ \/ Dependency(w)
       \/ /\ sub # NoRow /\ store.key /\ ~Adopted
          /\ sub.rc
          /\ sub' = Reconciled(sub, e, prov)
          /\ HandledPending(w, e) /\ UNCHANGED books

LegacyRefund(w, e) ==
    LET t == TxOf[e]
        pay == books.pay[t]
    IN  /\ Legacy(w, e, "refund")
        /\ \/ WithoutPayment(w, e)
           \/ /\ pay.status # "none" /\ ~IsPack(t) /\ Adopted /\ Dependency(w)
           \/ /\ pay.status # "none" /\ ~IsPack(t) /\ ~Adopted
              /\ sub' = IF sub.latest = t
                        THEN Bumped([sub EXCEPT !.status = "revoked"], e) ELSE sub
              /\ books' = RefundSubscription(books, t)
              /\ Processed(w, e)
           \/ /\ IsPack(t)
              /\ books' = IF pay.status = "refunded" THEN books
                          ELSE [books EXCEPT !.pay[t].status = "refunded",
                                             !.balance = @ - 1]
              /\ Processed(w, e) /\ UNCHANGED sub

LegacyReverse(w, e) ==
    LET t == TxOf[e]
        pay == books.pay[t]
        revoked == pay.link => books.grant = "revoked"
    IN  /\ Legacy(w, e, "reverse")
        /\ \/ WithoutPayment(w, e)
           \/ /\ pay.status # "none" /\ ~IsPack(t)
              /\ Adopted \/ (pay.status = "paid" /\ ~pay.reversed)
                 \/ (pay.status = "refunded" /\ ~revoked)
              /\ Dependency(w)
           \/ /\ pay.status = "paid" /\ pay.reversed /\ ~IsPack(t) /\ ~Adopted
              /\ Processed(w, e) /\ UNCHANGED <<sub, books>>
           \/ /\ pay.status = "refunded" /\ ~IsPack(t) /\ ~Adopted /\ revoked
              /\ books' = ReverseRefund(books, t)
              /\ sub' = IF sub.latest = t /\ StateApplies(e)
                            /\ (pay.link => sub.status = "revoked")
                        THEN Bumped([sub EXCEPT !.status = "active"], e) ELSE sub
              /\ Processed(w, e)
           \/ /\ IsPack(t)
              /\ books' = IF pay.status # "refunded" THEN books
                          ELSE [books EXCEPT !.pay[t].status = "paid",
                                             !.balance = @ + 1]
              /\ Processed(w, e) /\ UNCHANGED sub

\* payment.grant_pack: once per store transaction.
LegacyPack(w, e) ==
    /\ Legacy(w, e, "pack")
    /\ books' = IF books.pay[TxOf[e]].status # "none" THEN books
                ELSE [books EXCEPT !.pay[TxOf[e]] = [NoPay EXCEPT !.status = "paid"],
                                   !.balance = @ + 1]
    /\ Processed(w, e) /\ UNCHANGED sub

-----------------------------------------------------------------------------
(* The staged path.                                                        *)

\* The rows of the event are looked up, and then everything is let go.
Find(w, e) ==
    /\ wk[w].pc = "idle" /\ inbox[e].status = "pending" /\ ~Claimed(e)
    /\ Stageable(e)
    /\ wk' = [wk EXCEPT ![w] = [Idle EXCEPT !.pc = "found", !.ev = e, !.found = sub,
                                           !.pay = books.pay[TxOf[e]]]]
    /\ UNCHANGED <<world, inbox, sub, books, faults>>

\* The provider is asked with nothing locked; one that fails leaves no target.
Ask(w) ==
    /\ wk[w].pc = "found"
    /\ \/ /\ store.key
          /\ wk' = [wk EXCEPT ![w].pc = "asked", ![w].ok = TRUE, ![w].prov = prov]
          /\ UNCHANGED faults
       \/ /\ store.key => faults < store.faults
          /\ wk' = [wk EXCEPT ![w].pc = "fetched"]
          /\ faults' = IF store.key THEN faults + 1 ELSE faults
    /\ UNCHANGED <<world, inbox, sub, books>>

\* The row of the answer is looked up only now, and a row that came since is
\* taken as what was there before.  Evidence that does not hold leaves no target,
\* as does a read that is too old for Apply.
Match(w) ==
    /\ wk[w].pc = "asked"
    /\ \E review \in BonusReviews(TxOf[wk[w].ev]) :
         wk' = [wk EXCEPT ![w].pc = "fetched", ![w].before = sub,
                          ![w].review = IF IsPurchase(wk[w].ev) THEN review ELSE "held"]
    /\ UNCHANGED <<world, inbox, sub, books, faults>>

\* finish_attempt
Finished(s) ==
    LET last   == s.tries + 1 >= StageTries
        End(v) == IF v = "pending" /\ last THEN "manual" ELSE v
        n      == [s EXCEPT !.payment = End(@), !.bonus = End(@),
                            !.adjust = End(@), !.access = End(@), !.tries = @ + 1]
        all    == {n.payment, n.bonus, n.adjust, n.access}
        status == IF "pending" \in all THEN "pending"
                  ELSE IF "manual" \in all THEN "failed" ELSE "processed"
    IN  [n EXCEPT !.status = status,
                  !.attempts = IF status = "processed" THEN @ ELSE @ + 1]

\* The adjustments of a transaction whose effect is committed.
Committed(t) ==
    {x \in Events : /\ TxOf[x] = t /\ Adjusts(x)
                    /\ IF inbox[x].staged THEN inbox[x].adjust = "done"
                       ELSE inbox[x].status = "processed"}

Newest(S) == {x \in S : \A y \in S : StampOf[y] <= StampOf[x]}

\* Mutant: the stamps of the other adjustments are not looked at.
OrderByArrival(e) ==
    LET pay == books.pay[TxOf[e]]
    IN  IF KindOf[e] = "refund"
        THEN (IF pay.status = "refunded" THEN "confirm" ELSE "apply")
        ELSE (IF pay.status = "refunded" THEN "apply" ELSE "pending")

\* _financial_order
Order(e) ==
    LET t     == TxOf[e]
        pay   == books.pay[t]
        done  == Committed(t) \ {e}
        top   == Newest(done)
        stamp == StampOf[CHOOSE x \in top : TRUE]
        last  == KindOf[CHOOSE x \in top : TRUE]
    IN  IF done = {}
        THEN IF pay.reversed THEN "manual"
             ELSE IF KindOf[e] = "reverse" THEN "pending"
             ELSE IF pay.status = "refunded" THEN "confirm" ELSE "apply"
        ELSE IF \/ \E x, y \in top : KindOf[x] # KindOf[y]
                \/ pay.status # (IF last = "refund" THEN "refunded" ELSE "paid")
        THEN "manual"
        ELSE IF StampOf[e] < stamp THEN "skip"
        ELSE IF KindOf[e] = last THEN "confirm"
        ELSE IF StampOf[e] = stamp THEN "manual" ELSE "apply"

\* The refund or reversal of a payment that was there when the event was read.
AdjustStage(e, s) ==
    LET t        == TxOf[e]
        pay      == books.pay[t]
        decision == Order(e)
        agrees   == pay.link => ((KindOf[e] = "refund") = (books.grant = "revoked"))
        Done(bonus) == [s EXCEPT !.adjust = "done", !.bonus = bonus]
    IN  CASE decision = "pending" -> [s |-> s, b |-> books]
          [] decision = "skip"    -> [s |-> [s EXCEPT !.adjust = "skipped"], b |-> books]
          [] decision = "manual"  -> [s |-> [s EXCEPT !.adjust = "manual"], b |-> books]
          [] decision = "confirm" ->
               [s |-> Done(IF agrees THEN s.bonus ELSE "manual"), b |-> books]
          [] decision = "apply" /\ KindOf[e] = "refund" ->
               [s |-> Done(s.bonus), b |-> RefundSubscription(books, t)]
          [] decision = "apply" /\ KindOf[e] = "reverse" ->
               IF pay.link /\ books.grant = "live"
               THEN [s |-> Done("manual"), b |-> [books EXCEPT !.pay[t].status = "paid"]]
               ELSE [s |-> Done(s.bonus),
                     b |-> IF pay.status = "refunded" THEN ReverseRefund(books, t)
                           ELSE books]

\* _unresolved_adjustment: a refund that is not settled withholds the bonus.
Unresolved(t) ==
    LET newest == Newest(Committed(t))
        open   == {x \in Events \ Committed(t) :
                     /\ TxOf[x] = t /\ Adjusts(x)
                     /\ inbox[x].status \in {"pending", "failed"}
                     /\ \A y \in newest : StampOf[x] >= StampOf[y]}
    IN  IF open = {} THEN "none"
        ELSE IF \E x \in open : inbox[x].status = "failed" THEN "manual" ELSE "pending"

BonusStage(t, s, b, review) ==
    IF s.bonus # "pending" THEN [s |-> s, b |-> b]
    ELSE IF b.pay[t].status # "paid" THEN [s |-> [s EXCEPT !.bonus = "skipped"], b |-> b]
    ELSE IF Unresolved(t) # "none" THEN [s |-> [s EXCEPT !.bonus = Unresolved(t)], b |-> b]
    ELSE IF b.pay[t].review # "held" THEN [s |-> [s EXCEPT !.bonus = "done"], b |-> b]
    ELSE IF review = "held" THEN [s |-> s, b |-> b]
    ELSE [s |-> [s EXCEPT !.bonus = "done"], b |-> FinishBonus(b, t, review)]

\* proven: the purchase is not older than the ownership, or arrived live.
PurchaseStage(e, s, p, ok, proven) ==
    LET t     == TxOf[e]
        known == p.pay.status # "none"
        first == p.before = NoRow /\ t = FirstTx
    IN  IF known /\ books.pay[t].status # "paid"
        THEN [s |-> [s EXCEPT !.payment = "done", !.bonus = "skipped"], b |-> books]
        ELSE IF ~ok \/ (~known /\ s.access # "pending") THEN [s |-> s, b |-> books]
        ELSE IF ~known /\ ~first /\ ~proven
        THEN [s |-> [s EXCEPT !.payment = "manual", !.bonus = "manual"], b |-> books]
        ELSE IF s.payment # "pending" /\ ~known THEN [s |-> s, b |-> books]
        ELSE BonusStage(t, [s EXCEPT !.payment = IF @ = "pending" THEN "done" ELSE @],
                        IF s.payment = "pending" THEN RecordPayment(books, t) ELSE books,
                        p.review)

\* Mutant: the row of the answer takes the place of the row that was found.
ChangedSinceMatch(p, s, ok) ==
    \/ p.before # NoRow /\ sub # p.before
    \/ p.pay.status # "none" /\ books.pay[TxOf[p.ev]] # p.pay
    \/ ok /\ s.access = "pending" /\ p.before = NoRow /\ sub # NoRow

\* What was read is not what is there any more.
Changed(p, s, ok) ==
    \/ p.found # NoRow /\ sub # p.found
    \/ p.before # NoRow /\ sub # p.before
    \/ p.pay.status # "none" /\ books.pay[TxOf[p.ev]] # p.pay
    \/ ok /\ s.access = "pending" /\ p.before = NoRow /\ sub # NoRow

\* The evidence has to hold, and the read to be younger than a minute.
Apply(w) ==
    LET p == wk[w]
        e == p.ev
        s == [inbox[e] EXCEPT !.staged = TRUE]
    IN  /\ p.pc = "fetched" /\ inbox[e].status = "pending" /\ ~Claimed(e)
        /\ Free(w)
        /\ UNCHANGED <<world, faults>>
        /\ \E fresh \in BOOLEAN, proven \in BOOLEAN :
             LET ok   == p.ok /\ fresh
                 seen == IF ok /\ s.access = "pending"
                         THEN Projected(IF sub = NoRow THEN NewSub(e) ELSE sub, e, p.prov)
                         ELSE sub
                 result == IF Adjusts(e) /\ s.adjust = "pending" /\ p.pay.status # "none"
                           THEN AdjustStage(e, s)
                           ELSE IF IsPurchase(e) THEN PurchaseStage(e, s, p, ok, proven)
                           ELSE [s |-> s, b |-> books]
                 after  == [result.s EXCEPT !.access =
                              IF ok /\ @ # "manual" THEN "verified" ELSE @]
             IN  IF Changed(p, s, ok)
                 THEN /\ inbox' = [inbox EXCEPT ![e] = Finished(s)]
                      /\ UNCHANGED <<sub, books>>
                 ELSE /\ inbox' = [inbox EXCEPT ![e] = Finished(after)]
                      /\ sub' = seen /\ books' = result.b

\* Another worker finished the event while this one asked the provider.
Skipped(w) ==
    /\ wk[w].pc = "fetched"
    /\ inbox[wk[w].ev].status # "pending" \/ Claimed(wk[w].ev)
    /\ Dependency(w)

-----------------------------------------------------------------------------
(* Faults and the world outside.                                           *)

\* An exception rolls everything back and is counted in a transaction of its own.
Raise(w) ==
    /\ wk[w].pc # "idle" /\ faults < store.faults
    /\ ~\E v \in Workers \ {w} : wk[v].pc = "legacy" /\ wk[v].ev = wk[w].ev
    /\ inbox' = IF inbox[wk[w].ev].status = "pending" THEN Retried(wk[w].ev) ELSE inbox
    /\ faults' = faults + 1
    /\ Free(w) /\ UNCHANGED <<world, sub, books>>

Crash(w) ==
    /\ wk[w].pc # "idle" /\ faults < store.faults
    /\ faults' = faults + 1
    /\ Free(w) /\ UNCHANGED <<world, inbox, sub, books>>

ProviderMoves ==
    /\ prov <= store.changes /\ prov < Cardinality(DOMAIN ProviderStates)
    /\ prov' = prov + 1
    /\ UNCHANGED <<store, inbox, sub, books, wk, faults>>

LegacyHandle(w, e) ==
    \/ LegacyActiveBlocked(w, e) \/ LegacyPurchase(w, e) \/ LegacyProductChange(w, e)
    \/ LegacyState(w, e) \/ LegacyRefund(w, e) \/ LegacyReverse(w, e) \/ LegacyPack(w, e)

InboxNext ==
    \/ \E e \in Events : Ingest(e)
    \/ \E w \in Workers, e \in Events : Select(w, e) \/ LegacyHandle(w, e) \/ Find(w, e)
    \/ \E w \in Workers :
           Ask(w) \/ Match(w) \/ Apply(w) \/ Skipped(w) \/ Raise(w) \/ Crash(w)
    \/ ProviderMoves

InboxSpec == InboxInit /\ [][InboxNext]_inboxVars

-----------------------------------------------------------------------------
\* The shape of the rows.
TypeOK ==
    /\ inbox \in [Events -> Row]
    /\ sub \in Sub \cup {NoRow}
    /\ books \in Books
    /\ prov \in 1..Cardinality(DOMAIN ProviderStates)
    /\ \A e \in Events : inbox[e].attempts <= MaxAttempts + StageTries

\* The balance is the bonus that was not taken back plus the packs that are
\* paid, and the bonus follows its payment: retries, duplicates, refunds and
\* reversals in any order move every amount exactly once, a refunded payment
\* leaves no bonus behind and the bonus of a paid one is never missing
\* (hay_ledger, _grant_if_first, _clawback, restore_pack).
BooksFollowPayments ==
    /\ books.balance = (IF books.grant = "live" THEN 1 ELSE 0)
                       + Cardinality({t \in Txs : IsPack(t) /\ books.pay[t].status = "paid"})
    /\ books.grant = "live"    <=> \E t \in Txs : books.pay[t].link /\ books.pay[t].status = "paid"
    /\ books.grant = "revoked" <=> \E t \in Txs : books.pay[t].link /\ books.pay[t].status = "refunded"

\* Whatever the order of arrival, the payment ends as the newest committed
\* adjustment of the staged path says: a late older refund or reversal does not
\* undo it (subscription_processing._financial_order).
Follows(t, top) ==
    (/\ top # {} /\ ~IsPack(t)
     /\ \A x \in top, y \in top : inbox[x].staged /\ KindOf[x] = KindOf[y])
    => books.pay[t].status =
         (IF \E x \in top : KindOf[x] = "refund" THEN "refunded" ELSE "paid")

MoneyFollowsNewest ==
    \A t \in Txs :
        (\A x \in Committed(t) : inbox[x].staged) => Follows(t, Newest(Committed(t)))

\* Verified access does not go back unnoticed.  Evidence is replaced only by a
\* provider read that is not older: what a slow read found is not there any
\* more, and the event-driven handlers change nothing (the baseline check,
\* _legacy_only).  The one exception is a read that found no row at first and
\* met the row of another worker when it looked for the row of its answer.
MetRow(w) == wk[w].pc = "fetched" /\ wk[w].found = NoRow /\ wk[w].before # NoRow

AccessForward ==
    [][Adopted /\ sub' # sub =>
          /\ sub'.evidence
          /\ sub'.seen >= sub.seen \/ \E w \in Workers : MetRow(w) /\ wk'[w] = Idle
      ]_inboxVars

\* Without a provider to ask, a refunded period is opened again only by an event
\* that is newer than everything applied, whichever path a late renewal with a
\* longer expiry takes (_state_applies and the exception of _apply_active_state).
RefundStaysClosed ==
    [][(sub # NoRow /\ sub.status = "revoked" /\ sub' # sub /\ sub'.status # "revoked")
          => sub'.last > sub.last \/ store.key]_inboxVars

\* Without the exception; MCSubscriptionsLate.cfg shows that this does not hold.
EvidenceForward == [][Adopted => sub'.seen >= sub.seen]_inboxVars

=============================================================================
