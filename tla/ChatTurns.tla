------------------------------ MODULE ChatTurns ------------------------------
(***************************************************************************)
(* Chat requests of one user: POST /chat/messages (app/services/chat.py)   *)
(* with the inference lease and the publish check of                       *)
(* app/services/chat_turns.py.  A request checks for a stored reply without *)
(* a lock, takes the lease in a short transaction under the user's         *)
(* advisory lock, runs its inference with no transaction, and publishes in *)
(* a second transaction under the lock.  Between the three anything can    *)
(* happen: a retry with the same key, a takeover of the expired lease, an  *)
(* account deletion, a crash.                                              *)
(*                                                                         *)
(* now() in a statement is the start of its transaction, which is before   *)
(* the wait for the lock: what a request knows of the expiry of a lease is *)
(* what held then.                                                         *)
(***************************************************************************)
EXTENDS Integers, Sequences

CONSTANTS
    Requests,   \* HTTP requests, the retries among them
    Keys,       \* Idempotency-Key values
    KeyOf,      \* the key of each request
    NoOne,      \* nobody holds the lease or the lock
    Limit,      \* daily_token_limit
    MaxCost     \* bound on the tokens a normal turn is charged

ASSUME KeyAssumption   == KeyOf \in [Requests -> Keys] /\ NoOne \notin Requests
ASSUME LimitAssumption == Limit \in Nat \ {0} /\ MaxCost \in Nat \ {0}

VARIABLES
    req,        \* each request: how far it got and what it captured
    lease,      \* the chat_active_turns row
    lock,       \* who holds the advisory lock across steps
    revision,   \* chat_contexts.context_revision
    lastSeq,    \* chat_contexts.last_committed_turn_seq
    used,       \* user_daily_stats.tokens_used of the day
    stored,     \* idempotency_keys: what is stored under each key
    barrier,    \* privacy_subject_barriers.state
    turns       \* history: the committed turns, in order

vars == <<req, lease, lock, revision, lastSeq, used, stored, barrier, turns>>
published == <<revision, lastSeq, used, turns>>

Stage   == {"new", "checked", "thinking", "publishing", "committing",
            "failed", "replied", "over"}
Request == [stage: Stage, seq: Nat, base: Nat, balance: Nat, cost: Nat,
            seenExpired: Requests \cup {NoOne}, late: BOOLEAN]
Lease   == [holder: Requests \cup {NoOne}, expired: BOOLEAN]
Reply   == {"none", "succeeded", "redacted"}
Turn    == [key: Keys, seq: Nat, base: Nat, balance: Nat, cost: Nat, used: Nat]

NoLease == [holder |-> NoOne, expired |-> FALSE]

Init ==
    /\ req      = [r \in Requests |->
                     [stage |-> "new", seq |-> 0, base |-> 0, balance |-> 0,
                      cost |-> 0, seenExpired |-> NoOne, late |-> FALSE]]
    /\ lease    = NoLease
    /\ lock     = NoOne
    /\ revision = 0
    /\ lastSeq  = 0
    /\ used     = 0
    /\ stored   = [k \in Keys |-> "none"]
    /\ barrier  = "active"
    /\ turns    = << >>

-----------------------------------------------------------------------------
GoesTo(r, stage) == req' = [req EXCEPT ![r].stage = stage]

\* 0) No lock yet: a stored reply is replayed, a redacted one is refused.
Check(r) ==
    /\ req[r].stage = "new"
    /\ \/ /\ barrier = "active" /\ stored[KeyOf[r]] = "none"
          /\ req' = [req EXCEPT ![r].stage = "checked",
                                ![r].seenExpired = IF lease.expired
                                                   THEN lease.holder ELSE NoOne]
       \/ barrier = "active" /\ stored[KeyOf[r]] = "succeeded" /\ GoesTo(r, "replied")
       \/ barrier # "active" /\ GoesTo(r, "over")
       \/ barrier = "active" /\ stored[KeyOf[r]] = "redacted" /\ GoesTo(r, "over")
    /\ UNCHANGED <<lease, lock, stored, barrier, published>>

\* _ACQUIRE: no row, or a row that had expired when the transaction began.
MayAcquire(r) == lease.holder \in {NoOne, req[r].seenExpired}

\* Phase 1, under the lock: the lease and the balance are captured together.
Accept(r) ==
    /\ req[r].stage = "checked" /\ lock = NoOne
    /\ MayAcquire(r)
    /\ lease' = [holder |-> r, expired |-> FALSE]
    /\ req'   = [req EXCEPT ![r].stage   = "thinking",
                            ![r].seq     = lastSeq + 1,
                            ![r].base    = revision,
                            ![r].balance = used]
    /\ UNCHANGED <<lock, stored, barrier, published>>

\* A turn is in progress, or (without the safety guard) the day's limit is
\* reached: the transaction is rolled back and takes no lease.
Refuse(r) ==
    /\ req[r].stage = "checked" /\ lock = NoOne
    /\ ~MayAcquire(r) \/ used >= Limit
    /\ GoesTo(r, "over")
    /\ UNCHANGED <<lease, lock, stored, barrier, published>>

\* The inference ends and the publishing transaction begins.  A fixed safety
\* reply is free and ignores the limit, a normal one needed a balance.
Infer(r, cost) ==
    /\ req[r].stage = "thinking"
    /\ cost > 0 => req[r].balance < Limit
    /\ req' = [req EXCEPT ![r].stage = "publishing",
                          ![r].cost  = cost,
                          ![r].late  = lease.holder = r /\ lease.expired]
    /\ UNCHANGED <<lease, lock, stored, barrier, published>>

\* Mutant: only the expiry is verified, not whose lease it is.
VerifiedByExpiry(r) == ~req[r].late

\* verify_publish: token, expiry and context revision.
Verified(r) ==
    /\ lease.holder = r
    /\ ~req[r].late
    /\ revision = req[r].base

Release(r) == lease' = IF lease.holder = r THEN NoLease ELSE lease

\* A reply stored meanwhile under the same key is returned instead.
Duplicate(r) ==
    /\ \/ stored[KeyOf[r]] = "succeeded" /\ GoesTo(r, "replied")
       \/ stored[KeyOf[r]] = "redacted" /\ GoesTo(r, "over")
    /\ Release(r)
    /\ UNCHANGED lock

Rejected(r) ==
    /\ GoesTo(r, "failed")
    /\ UNCHANGED <<lease, lock>>

EntersCommit(r) ==
    /\ GoesTo(r, "committing")
    /\ lock' = r
    /\ UNCHANGED lease

\* Phase 2 of a normal reply: lease, then barrier, then key.
CheckNormal(r) ==
    \/ ~(Verified(r) /\ barrier = "active") /\ Rejected(r)
    \/ Verified(r) /\ barrier = "active" /\ Duplicate(r)
    \/ Verified(r) /\ barrier = "active" /\ stored[KeyOf[r]] = "none"
       /\ EntersCommit(r)

\* _publish_fixed_guard: barrier, then key, then lease; a redacted reply is
\* refused before the lease is released.
CheckFixed(r) ==
    \/ barrier # "active" /\ Rejected(r)
    \/ barrier = "active" /\ stored[KeyOf[r]] = "redacted" /\ Rejected(r)
    \/ barrier = "active" /\ stored[KeyOf[r]] = "succeeded" /\ Duplicate(r)
    \/ barrier = "active" /\ stored[KeyOf[r]] = "none" /\ ~Verified(r) /\ Rejected(r)
    \/ barrier = "active" /\ stored[KeyOf[r]] = "none" /\ Verified(r)
       /\ EntersCommit(r)

PublishCheck(r) ==
    /\ req[r].stage = "publishing" /\ lock = NoOne
    /\ \/ req[r].cost > 0 /\ CheckNormal(r)
       \/ req[r].cost = 0 /\ CheckFixed(r)
    /\ UNCHANGED <<stored, barrier, published>>

\* Messages, balance, revision, reply and the end of the lease commit
\* together.  The client may never see the answer and ask again.
Commit(r) ==
    /\ req[r].stage = "committing"
    /\ turns' = Append(turns, [key |-> KeyOf[r], seq |-> req[r].seq,
                               base |-> req[r].base, balance |-> req[r].balance,
                               cost |-> req[r].cost, used |-> used])
    /\ used'     = used + req[r].cost
    /\ revision' = revision + 1
    /\ lastSeq'  = req[r].seq
    /\ stored'   = [stored EXCEPT ![KeyOf[r]] = "succeeded"]
    /\ lock'     = NoOne
    /\ Release(r)
    /\ GoesTo(r, "replied")
    /\ UNCHANGED barrier

\* Any exception or cancellation before the commit rolls back ...
Fail(r) ==
    /\ req[r].stage \in {"thinking", "publishing", "committing"}
    /\ GoesTo(r, "failed")
    /\ lock' = IF lock = r THEN NoOne ELSE lock
    /\ UNCHANGED <<lease, stored, barrier, published>>

\* ... and the request's own lease is then released in another transaction.
CleanUp(r) ==
    /\ req[r].stage = "failed"
    /\ Release(r)
    /\ GoesTo(r, "over")
    /\ UNCHANGED <<lock, stored, barrier, published>>

\* The input cannot be made to fit: the request ends with its lease released in
\* the transaction that finds out.
GiveUp(r) ==
    /\ req[r].stage = "thinking" /\ lock = NoOne
    /\ Release(r)
    /\ GoesTo(r, "over")
    /\ UNCHANGED <<lock, stored, barrier, published>>

\* The process dies, or the clean-up fails: the lease stays until it expires.
Crash(r) ==
    /\ req[r].stage \in {"thinking", "publishing", "committing", "failed"}
    /\ GoesTo(r, "over")
    /\ lock' = IF lock = r THEN NoOne ELSE lock
    /\ UNCHANGED <<lease, stored, barrier, published>>

LeaseExpires ==
    /\ lease.holder # NoOne /\ ~lease.expired
    /\ lease' = [lease EXCEPT !.expired = TRUE]
    /\ UNCHANGED <<req, lock, stored, barrier, published>>

\* begin_subject_deletion takes the same advisory lock.
BeginDeletion ==
    /\ barrier = "active" /\ lock = NoOne
    /\ barrier' = "deleting"
    /\ stored'  = [k \in Keys |-> IF stored[k] = "none" THEN "none"
                                  ELSE "redacted"]
    /\ UNCHANGED <<req, lease, lock, published>>

AbortDeletion ==
    /\ barrier = "deleting" /\ lock = NoOne
    /\ barrier' = "active"
    /\ UNCHANGED <<req, lease, lock, stored, published>>

-----------------------------------------------------------------------------
RequestStep(r) ==
    \/ Check(r) \/ Accept(r) \/ Refuse(r)
    \/ \E cost \in 0 .. MaxCost: Infer(r, cost)
    \/ PublishCheck(r) \/ Commit(r)
    \/ Fail(r) \/ CleanUp(r) \/ GiveUp(r) \/ Crash(r)

Next ==
    \/ \E r \in Requests: RequestStep(r)
    \/ LeaseExpires \/ BeginDeletion \/ AbortDeletion

Spec == Init /\ [][Next]_vars

-----------------------------------------------------------------------------
TypeOK ==
    /\ req      \in [Requests -> Request]
    /\ lease    \in Lease
    /\ lock     \in Requests \cup {NoOne}
    /\ revision \in Nat
    /\ lastSeq  \in Nat
    /\ used     \in Nat
    /\ stored   \in [Keys -> Reply]
    /\ barrier  \in {"active", "deleting"}
    /\ turns    \in Seq(Turn)

\* However often a request is retried, in parallel or after a crash, its key
\* gets one turn: messages are not stored and tokens not charged twice.
OneTurnPerKey ==
    \A i, j \in DOMAIN turns: turns[i].key = turns[j].key => i = j

\* Turns are numbered without gap or repetition, each on the context its request
\* captured.
TurnsInOrder ==
    \A i \in DOMAIN turns: turns[i].seq = i /\ turns[i].base = i - 1

\* A charged turn was admitted below the limit, on exactly the balance that is
\* charged when it commits.
ChargedAsAdmitted ==
    \A i \in DOMAIN turns: turns[i].cost > 0 =>
        turns[i].used = turns[i].balance /\ turns[i].balance < Limit

\* A turn is published as it was admitted: nothing was published between its
\* lease and it, and parallel requests do not spend the same balance (the comment
\* at app/services/chat.py:1653).
TurnsAsAdmitted == OneTurnPerKey /\ TurnsInOrder /\ ChargedAsAdmitted

\* No turn is stored once the account's deletion has begun, even one that was
\* checked before.
NoTurnDuringDeletion ==
    [][turns' # turns => barrier = "active"]_vars
=============================================================================
