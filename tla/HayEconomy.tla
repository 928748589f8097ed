------------------------------ MODULE HayEconomy ------------------------------
(***************************************************************************)
(* The hay (points) of one user: app/services/hay_ledger.py and who books  *)
(* through it: daily rewards (economy.py, attendance.py), advertisements   *)
(* (ads.py), articles (articles.py) and the shop (shop.py).                 *)
(*                                                                         *)
(* Every request has a database session of its own.  Most of them do their  *)
(* work in one transaction under the advisory lock of the user, which is    *)
(* one step here, but what the session loaded before it got the lock stays   *)
(* in its identity map: a second session.get, FOR UPDATE or not, gives the   *)
(* object with the values of the first one unless it says populate_existing. *)
(*                                                                         *)
(* A reward date is the local date, so that it depends on the clock and on  *)
(* the time zone in the profile; the zone is 0 or 1 days ahead.  Prices,     *)
(* goals of the day, entitlements and catalogues are free choices.          *)
(***************************************************************************)
EXTENDS Integers, Sequences, FiniteSets, FiniteSetsExt

CONSTANTS
    Scripts,        \* sets of requests that arrive together
    Products,       \* cosmetics of one slot
    SubscriberOnly, \* the products a subscription lends
    Sessions,       \* rows of reward_ad_sessions
    RoutineStreaks, \* how long a streak of routines may be
    Start,          \* the balance in the beginning
    Price,          \* of every product
    MaxDay,         \* bounds the clock
    MaxMoves,       \* bounds the changes of the time zone
    AdLimit,        \* AD_DAILY_LIMIT
    None

RewardKinds == {"attendance", "routine_reward", "mood_reward"}

\* The services that load the profile before they wait for the lock.
LoadsFirst == {"claim_attendance", "check_in", "routine_reward", "mood_reward"}

ASSUME ShopAssumption == SubscriberOnly \subseteq Products /\ None \notin Products
\* What a request names exists: products, slots and sessions are looked up first.
ASSUME RequestAssumption == \A r \in UNION Scripts :
    /\ r.kind = "ssv" => r.session \in Sessions
    /\ r.kind = "purchase" => r.product \in Products
    /\ r.kind = "equip" => r.product \in Products \cup {None}
ASSUME NumberAssumption ==
    /\ RoutineStreaks \subseteq Nat /\ Start \in Nat /\ Price \in Nat \ {0}
    /\ MaxDay \in Nat /\ MaxMoves \in Nat /\ AdLimit \in Nat

VARIABLES
    script,   \* the requests of this behaviour
    profile,  \* the row of profiles: balance and time zone
    ledger,   \* hay_transactions, in the order of their ids
    claimed,  \* user_daily_stats: which rewards of which dates are claimed
    adCount,  \* user_daily_stats.ad_reward_count
    seed,     \* attendance_streak_seeds
    ads,      \* reward_ad_sessions
    rewarded, \* article_progress with rewarded_at
    items,    \* user_items: source of each product
    worn,     \* the product whose row has the slot
    keys,     \* idempotency keys of purchases
    pc, seen, \* each request: where it is, and what its session has loaded
    clock, moves

rows == <<profile, ledger, claimed, adCount, seed, ads, rewarded, items, worn, keys>>
vars == <<script, rows, pc, seen, clock, moves>>

Dates == 0..(MaxDay + 1)
Requests == UNION Scripts

Init ==
    /\ script \in Scripts
    /\ profile = [balance |-> Start, tz |-> 1] /\ ledger = << >>
    /\ claimed = {} /\ adCount = [d \in Dates |-> 0] /\ seed = None
    /\ ads = [s \in Sessions |-> None] /\ rewarded = {}
    /\ items = [p \in Products |-> "none"] /\ worn = None /\ keys = {}
    /\ pc = [r \in Requests |-> "new"] /\ seen = [r \in Requests |-> None]
    /\ clock = 0 /\ moves = 0

-----------------------------------------------------------------------------
(* hay_ledger.apply: the balance it adds to is the one in the session.       *)

Balance(r) == IF seen[r] = None THEN profile.balance ELSE seen[r].balance

Book(r, type, amount, ref) ==
    LET after == Balance(r) + amount IN
    /\ profile' = [profile EXCEPT !.balance = after]
    /\ ledger' = Append(ledger, [type |-> type, amount |-> amount,
                                 after |-> after, ref |-> ref])

Done(r) == pc' = [pc EXCEPT ![r] = "done"] /\ UNCHANGED <<script, seen, clock, moves>>

\* A request that ends without writing: 4xx, a goal that is not met, no
\* entitlement, a crash before the commit.
GiveUp(r) == pc[r] # "done" /\ Done(r) /\ UNCHANGED rows

\* _load_profile: into the identity map, without a lock.
LoadProfile(r) ==
    /\ pc[r] = "new" /\ r.kind \in LoadsFirst \cup {"ad_session"}
    /\ pc' = [pc EXCEPT ![r] = "loaded"]
    /\ seen' = [seen EXCEPT ![r] = profile]
    /\ UNCHANGED <<script, rows, clock, moves>>

-----------------------------------------------------------------------------
(* Rewards of a day.  The cursor is the latest date any reward was given for. *)

Today(r) == clock + seen[r].tz

RewardedDates ==
    {c[2] : c \in claimed} \cup {d \in Dates : adCount[d] > 0}
    \cup {ads[s].date : s \in {t \in Sessions : ads[t] # None /\ ads[t].granted}}

\* Mutant: a cursor for rewards, another for advertisements.
RegressedByRewards(d) == \E c \in claimed : d < c[2]
Regressed(d) == \E e \in RewardedDates : d < e

Claimable(kind, d) == ~Regressed(d) /\ <<kind, d>> \notin claimed

ClaimGoalReward(r) ==
    /\ pc[r] = "loaded" /\ r.kind \in {"routine_reward", "mood_reward"}
    /\ Claimable(r.kind, Today(r))
    /\ claimed' = claimed \cup {<<r.kind, Today(r)>>}
    /\ Book(r, r.kind, 20, Today(r))
    /\ Done(r) /\ UNCHANGED <<adCount, seed, ads, rewarded, items, worn, keys>>

(* The streak of attended days; days of routines before the first check-in   *)
(* count as attended once and for all, by the seed.                          *)
RunUpTo(days, d) == Max({n \in 0..Cardinality(days) : (d - n + 1)..d \subseteq days})
Streak(days, today) ==
    IF today \in days THEN RunUpTo(days, today) ELSE RunUpTo(days, today - 1)

RewardCycle == <<20, 20, 40, 20, 20, 20, 100>>
AttendanceReward(streak) == RewardCycle[((streak - 1) % Len(RewardCycle)) + 1]

SeedsFor(today) ==
    IF seed # None THEN {seed}
    ELSE {[through |-> today - 1, streak |-> n] : n \in RoutineStreaks}

SeedDays(s) == (s.through - s.streak + 1)..s.through
Attended(today) == {d \in 0..today : <<"attendance", d>> \in claimed}

BookAttendance(r, s) ==
    LET today  == Today(r)
        streak == Streak(Attended(today) \cup {today} \cup SeedDays(s), today)
    IN /\ claimed' = claimed \cup {<<"attendance", today>>}
       /\ Book(r, "attendance", AttendanceReward(streak),
               [date |-> today, streak |-> streak, stored |-> seed' = s])

\* economy.claim_attendance: the seed is only looked at.
ClaimAttendance(r) ==
    /\ pc[r] = "loaded" /\ r.kind = "claim_attendance"
    /\ Claimable("attendance", Today(r))
    /\ seed' = seed
    /\ \E s \in SeedsFor(Today(r)) : BookAttendance(r, s)
    /\ Done(r) /\ UNCHANGED <<adCount, ads, rewarded, items, worn, keys>>

\* attendance.check_in: the seed is stored on a date that goes back, too.
CheckIn(r) ==
    /\ pc[r] = "loaded" /\ r.kind = "check_in"
    /\ \E s \in SeedsFor(Today(r)) :
          /\ seed' = s
          /\ IF Claimable("attendance", Today(r)) THEN BookAttendance(r, s)
             ELSE UNCHANGED <<profile, ledger, claimed>>
    /\ Done(r) /\ UNCHANGED <<adCount, ads, rewarded, items, worn, keys>>

-----------------------------------------------------------------------------
(* Advertisements: a session first, the reward when the network calls back.  *)

\* _REUSE_PENDING_SESSION
Kept == [s \in Sessions |->
            IF ads[s] # None /\ ~ads[s].granted /\ ads[s].age # "live"
            THEN None ELSE ads[s]]
Pending(d) == {s \in Sessions : /\ ads[s] # None
                                /\ ads[s].date = d /\ ~ads[s].granted
                                /\ ads[s].age = "live"}

\* Whether an advertisement of the day can still be rewarded.
AdsLeft(d) == ~Regressed(d) /\ adCount[d] < AdLimit

CreateAdSession(r) ==
    /\ pc[r] = "loaded" /\ r.kind = "ad_session"
    /\ AdsLeft(Today(r))
    /\ IF Pending(Today(r)) # {} THEN ads' = Kept
       ELSE \E s \in {t \in Sessions : Kept[t] = None} :
              ads' = [Kept EXCEPT ![s] = [date |-> Today(r), granted |-> FALSE,
                                          tx |-> None, age |-> "live"]]
    /\ Done(r)
    /\ UNCHANGED <<profile, ledger, claimed, adCount, seed, rewarded, items, worn, keys>>

\* grant_from_ssv before the lock: only whose session it is.
ReadAdSession(r) ==
    /\ pc[r] = "new" /\ r.kind = "ssv" /\ ads[r.session] # None
    /\ pc' = [pc EXCEPT ![r] = "read"]
    /\ UNCHANGED <<script, rows, seen, clock, moves>>

Grantable(s) ==
    /\ ads[s] # None /\ ~ads[s].granted /\ ads[s].age = "live"
    /\ AdsLeft(ads[s].date)

\* A transaction id that another session used up violates a constraint and the
\* whole grant is rolled back.
GrantFromSsv(r) ==
    LET s == r.session IN
    /\ pc[r] = "read"
    /\ Grantable(s)
    /\ \A t \in Sessions : ads[t] # None => ads[t].tx # r.tx
    /\ adCount' = [adCount EXCEPT ![ads[s].date] = @ + 1]
    /\ ads' = [ads EXCEPT ![s].granted = TRUE, ![s].tx = r.tx]
    /\ Book(r, "ad_reward", 20, ads[s].date)
    /\ Done(r) /\ UNCHANGED <<claimed, seed, rewarded, items, worn, keys>>

\* Half an hour, then seven days pass.
AdSessionAges(s) ==
    /\ ads[s] # None /\ ads[s].age # "old"
    /\ ads' = [ads EXCEPT ![s].age = IF @ = "live" THEN "expired" ELSE "old"]
    /\ UNCHANGED <<script, profile, ledger, claimed, adCount, seed, rewarded, items,
                   worn, keys, pc, seen, clock, moves>>

CleanupExpiredSessions ==
    /\ \E s \in Sessions : ads[s] # None /\ ads[s].age = "old"
    /\ ads' = [s \in Sessions |-> IF ads[s] # None /\ ads[s].age = "old"
                                  THEN None ELSE ads[s]]
    /\ UNCHANGED <<script, profile, ledger, claimed, adCount, seed, rewarded, items,
                   worn, keys, pc, seen, clock, moves>>

-----------------------------------------------------------------------------
(* Articles and the shop.                                                    *)

RecordArticle(r) ==
    /\ pc[r] = "new" /\ r.kind = "article"
    /\ IF r.article \in rewarded THEN UNCHANGED <<profile, ledger, rewarded>>
       ELSE rewarded' = rewarded \cup {r.article} /\ Book(r, "article_reward", 20, r.article)
    /\ Done(r) /\ UNCHANGED <<claimed, adCount, seed, ads, items, worn, keys>>

\* _owned_ids: a subscription lends, it does not give.
Owned(p) == items[p] = "purchase"

\* The INSERT into user_items fails if the product has a row of any source.
Sell(r) ==
    /\ ~Owned(r.product) /\ items[r.product] = "none"
    /\ r.product \notin SubscriberOnly
    /\ Balance(r) >= Price
    /\ Book(r, "shop_purchase", -Price, r.product)
    /\ items' = [items EXCEPT ![r.product] = "purchase"]

\* With an Idempotency-Key: the lookup is repeated under the lock of the
\* profile row (and again by the primary key of idempotency_keys); a known key
\* is answered from the stored response.
PurchaseWithKey(r) ==
    /\ pc[r] = "checked" /\ r.kind = "purchase" /\ r.key # None
    /\ r.key \notin keys
    /\ Sell(r) /\ keys' = keys \cup {r.key}
    /\ Done(r) /\ UNCHANGED <<claimed, adCount, seed, ads, rewarded, worn>>

\* Without one the row lock comes with the booking, after the look at what is
\* owned.
PurchaseWithoutKey(r) ==
    /\ pc[r] = "checked" /\ r.kind = "purchase" /\ r.key = None
    /\ Sell(r)
    /\ Done(r) /\ UNCHANGED <<claimed, adCount, seed, ads, rewarded, worn, keys>>

CheckPurchase(r) ==
    /\ pc[r] = "new" /\ r.kind = "purchase"
    /\ IF r.key = None THEN ~Owned(r.product) ELSE r.key \notin keys
    /\ pc' = [pc EXCEPT ![r] = "checked"]
    /\ UNCHANGED <<script, rows, seen, clock, moves>>

\* _unequip_row and _apply_targets: what a subscription lent is given back.
Unequipped ==
    IF worn # None /\ items[worn] = "subscription"
    THEN [items EXCEPT ![worn] = "none"] ELSE items

\* Mutant: whatever is taken off is given back.
EquipForgets(r) ==
    /\ pc[r] = "new" /\ r.kind = "equip" /\ r.product # worn
    /\ r.product # None => r.product \in SubscriberOnly \/ Owned(r.product)
    /\ worn' = r.product
    /\ items' = [p \in Products |-> IF p = worn THEN "none"
                   ELSE IF p = r.product /\ items[p] = "none" THEN "subscription"
                   ELSE items[p]]
    /\ Done(r) /\ UNCHANGED <<profile, ledger, claimed, adCount, seed, ads, rewarded, keys>>
PutEquipment(r) ==
    /\ pc[r] = "new" /\ r.kind = "equip" /\ r.product # worn
    /\ r.product # None => r.product \in SubscriberOnly \/ Owned(r.product)
    /\ worn' = r.product
    /\ items' = [p \in Products |->
                   IF p = r.product /\ items[p] = "none" THEN "subscription"
                   ELSE Unequipped[p]]
    /\ Done(r) /\ UNCHANGED <<profile, ledger, claimed, adCount, seed, ads, rewarded, keys>>

-----------------------------------------------------------------------------
(* Around the service.                                                       *)

\* A behaviour without dated requests has one day.
Dated == \E r \in script : r.kind \in LoadsFirst \cup {"ad_session"}

DayPasses ==
    /\ Dated /\ clock < MaxDay /\ clock' = clock + 1
    /\ UNCHANGED <<script, rows, pc, seen, moves>>

ChangeTimezone ==
    /\ Dated /\ moves < MaxMoves /\ moves' = moves + 1
    /\ profile' = [profile EXCEPT !.tz = 1 - @]
    /\ UNCHANGED <<script, ledger, claimed, adCount, seed, ads, rewarded, items, worn,
                   keys, pc, seen, clock>>

Serve(r) ==
    \/ LoadProfile(r) \/ GiveUp(r)
    \/ ClaimGoalReward(r) \/ ClaimAttendance(r) \/ CheckIn(r)
    \/ CreateAdSession(r) \/ ReadAdSession(r) \/ GrantFromSsv(r)
    \/ RecordArticle(r)
    \/ CheckPurchase(r) \/ PurchaseWithKey(r) \/ PurchaseWithoutKey(r)
    \/ PutEquipment(r)

Next ==
    \/ \E r \in script : Serve(r)
    \/ \E s \in Sessions : AdSessionAges(s)
    \/ CleanupExpiredSessions \/ DayPasses \/ ChangeTimezone

Spec == Init /\ [][Next]_vars

-----------------------------------------------------------------------------
(* Properties.                                                               *)

Entries(types) == {i \in DOMAIN ledger : ledger[i].type \in types}
DateOf(i) == IF ledger[i].type = "attendance" THEN ledger[i].ref.date ELSE ledger[i].ref

\* The balance after the first n bookings.
BalanceAfter(n) == IF n = 0 THEN Start ELSE ledger[n].after

\* The balance in the profile is the sum of what was ever booked, and every
\* booking shows the sum up to it as balance_after.  MCHayEconomyLost.cfg shows
\* that this does not hold: two requests that loaded the profile before the lock.
BalanceIsLedgerSum ==
    /\ \A i \in DOMAIN ledger : ledger[i].after = BalanceAfter(i - 1) + ledger[i].amount
    /\ profile.balance = BalanceAfter(Len(ledger))

\* A reward of a day is given once, by whichever endpoint and in whichever time
\* zone the day is reached again, no day rewards more advertisements than the
\* limit and no article rewards twice.  Rewards are given for dates in their
\* order: going back to another time zone opens no earlier day, also with an
\* advertisement session issued there before.
RewardsForward ==
    /\ \A i, j \in Entries(RewardKinds) :
          ledger[i].type = ledger[j].type /\ DateOf(i) = DateOf(j) => i = j
    /\ \A d \in Dates : Cardinality({i \in Entries({"ad_reward"}) : DateOf(i) = d}) <= AdLimit
    /\ \A i, j \in Entries({"article_reward"}) : ledger[i].ref = ledger[j].ref => i = j
    /\ \A i, j \in Entries(RewardKinds \cup {"ad_reward"}) : i < j => DateOf(i) <= DateOf(j)

\* A product was paid for exactly once if the user owns it and never otherwise,
\* whatever purchases overlap and whatever is put on and taken off between.
PaidForOwned ==
    \A p \in Products :
        Cardinality({i \in Entries({"shop_purchase"}) : ledger[i].ref = p})
            = IF Owned(p) THEN 1 ELSE 0

=============================================================================
