---------------------------- MODULE ChatInference ----------------------------
(***************************************************************************)
(* What a request of ChatTurns does between its lease and its publication  *)
(* (app/services/chat.py, app/services/agent/runtime.py): the guard judges *)
(* the message, the input is prepared from sources that others keep        *)
(* rewriting, a history that no longer fits makes it reserve a summary and *)
(* wait for it or answer from less, and the agent drafts a reply, with     *)
(* tools or without.  None of it holds a transaction, so what was read is  *)
(* compared again when the reply is published, as it is with retention     *)
(* enabled (context_retention_v2_enabled).                                 *)
(*                                                                         *)
(* Every step is a step of ChatTurns or leaves its variables alone:        *)
(* InferenceSpec implements Spec (ChatTurnsProofs).                        *)
(***************************************************************************)
EXTENDS ChatTurns, FiniteSets

CONSTANTS
    MayWait,    \* requests with a pressure deadline under retention
    MaxAtOnce   \* bound on the requests in inference at the same time

ASSUME WaitAssumption == MayWait \subseteq Requests /\ MaxAtOnce \in Nat

\* What a reply rests on: the published contract, the recalled memories and the
\* diary entry it refers to.  A behaviour follows one of them; that another one
\* is found changed at the publication is a Fail.
Sources == {"contract", "memory", "diary"}
Reading == {"unread", "current", "outdated"}

VARIABLES
    inf,        \* each request: where its inference is and what it rests on
    source,     \* the source this behaviour follows
    covered     \* turns the published summary covers

inferenceVars == <<vars, inf, source, covered>>

Place     == {"idle", "judging", "preparing", "waiting", "reducing", "drafting",
              "finishing", "answered"}
Inference == [at: Place, tries: Nat, resumed: BOOLEAN, reduced: BOOLEAN,
              baseline: Nat, needed: Nat, read: Reading]

Idle == [at |-> "idle", tries |-> 0, resumed |-> FALSE, reduced |-> FALSE,
         baseline |-> 0, needed |-> 0, read |-> "unread"]

InferenceInit ==
    /\ Init
    /\ inf     = [r \in Requests |-> Idle]
    /\ source \in Sources
    /\ covered = 0

-----------------------------------------------------------------------------
world == <<source, covered>>

\* r's inference is over, with a reply or without.
Forget(r) == inf' = [inf EXCEPT ![r] = Idle]

At(r, place) == req[r].stage = "thinking" /\ inf[r].at = place

Ask(r) ==
    /\ Check(r) \/ Refuse(r)
    /\ UNCHANGED <<inf, world>>

Admit(r) ==
    /\ Accept(r)
    /\ Cardinality({q \in Requests: inf[q] # Idle}) < MaxAtOnce
    /\ inf' = [inf EXCEPT ![r] = [Idle EXCEPT !.at = "judging"]]
    /\ UNCHANGED world

\* Another route than "normal": a fixed reply, which rests on none of the sources.
JudgeFixed(r) ==
    /\ At(r, "judging")
    /\ Infer(r, 0)
    /\ inf' = [inf EXCEPT ![r].at = "answered"]
    /\ UNCHANGED world

\* The normal route needs a balance.
Prepares(r) == At(r, "preparing") \/ (At(r, "judging") /\ req[r].balance < Limit)

\* The input fits.  No contract is used while a correction is pending, and no
\* memory when the recall comes late or finds none.  What one request recalls is
\* taken for what another does: a single row.
Prepare(r) ==
    /\ Prepares(r)
    /\ \E read \in IF source = "diary" THEN {"unread"} ELSE {"unread", "current"}:
         inf' = [inf EXCEPT ![r] = [Idle EXCEPT !.at = "drafting", !.read = read]]
    /\ UNCHANGED <<vars, world>>

-----------------------------------------------------------------------------
\* verify_publish and the barrier.  The lease is judged by the time its
\* transaction began, so an expired one may pass still or fail already.
Holds(r) ==
    /\ lease.holder = r /\ revision = req[r].base
    /\ barrier = "active"

\* The history does not fit, and the required input alone would.  request_pressure
\* asks for a summary through the last committed reply (Checkpoints models the jobs
\* that make it); no turn is stored and the lease is kept.
PauseToWait(r) ==
    /\ Prepares(r) /\ inf[r].tries = 0
    /\ lock = NoOne /\ Holds(r)
    /\ r \in MayWait
    /\ revision > 0
    /\ \E through \in 0 .. covered:
         inf' = [inf EXCEPT ![r].at = "waiting", ![r].baseline = through,
                            ![r].needed = revision]
    /\ UNCHANGED <<vars, world>>

\* Waiting is impossible or pointless: nothing can be asked for, the summary
\* stalls or the request has waited already.
PauseToReduce(r) ==
    /\ Prepares(r) /\ ~inf[r].reduced
    /\ lock = NoOne /\ Holds(r)
    /\ inf' = [inf EXCEPT ![r].at = "reducing"]
    /\ UNCHANGED <<vars, world>>

\* Nor can it be reduced, or the judgement failed: 503, with the lease released
\* in the transaction of the reservation, or without one if it can never fit.
Unavailable(r) ==
    /\ Prepares(r)
    /\ GiveUp(r)
    /\ Forget(r)
    /\ UNCHANGED world

\* Mutant: a summary that reaches far enough ends the wait, the one that was read too.
AnySummary(r) == covered >= inf[r].needed

\* _wait_for_context_progress: a newer summary that reaches what was asked for.
Progress(r) == covered > inf[r].baseline /\ covered >= inf[r].needed

Resume(r) ==
    /\ At(r, "waiting") /\ lock = NoOne
    /\ Progress(r) /\ Holds(r)
    /\ inf' = [inf EXCEPT ![r].at = "preparing", ![r].tries = @ + 1, ![r].resumed = TRUE]
    /\ UNCHANGED <<vars, world>>

\* Too late: prepared again, once, from a history cut to fit.
Reduce(r) ==
    /\ At(r, "waiting") \/ At(r, "reducing")
    /\ lock = NoOne /\ Holds(r)
    /\ inf' = [inf EXCEPT ![r].at = "preparing", ![r].tries = @ + 1, ![r].reduced = TRUE]
    /\ UNCHANGED <<vars, world>>

-----------------------------------------------------------------------------
Answer(r, cost, read) ==
    /\ Infer(r, cost)
    /\ inf' = [inf EXCEPT ![r].at = "answered", ![r].read = read]
    /\ UNCHANGED world

\* run_turn, first call: an answer, the one it is asked for again without tools if
\* it was cut short or failed for a passing reason; or it asks for tools, which
\* read in sessions of their own.  A tool that fails or has no time left leaves an
\* empty result.
Decide(r) ==
    /\ At(r, "drafting")
    /\ \/ \E cost \in 1 .. MaxCost: Answer(r, cost, inf[r].read)
       \/ /\ \E read \in IF source = "diary" THEN {"unread", "current"} ELSE {inf[r].read}:
               inf' = [inf EXCEPT ![r].at = "finishing", ![r].read = read]
          /\ UNCHANGED <<vars, world>>

\* The final call refers to an entry its tools returned or to none; a reference
\* to any other replaces the reply.
Finish(r) ==
    /\ At(r, "finishing")
    /\ \E cost \in 1 .. MaxCost,
          read \in {inf[r].read} \cup (IF source = "diary" THEN {"unread"} ELSE {}):
         Answer(r, cost, read)

\* The results of the tools, or the words asking for a shorter reply, make the
\* input too large: a summary is reserved and the request gives up.
Outgrow(r) ==
    /\ req[r].stage = "thinking" /\ inf[r].at \in {"drafting", "finishing"}
    /\ GiveUp(r)
    /\ Forget(r)
    /\ UNCHANGED world

-----------------------------------------------------------------------------
\* What the publishing transaction compares ...
Grounded(r) == source # "diary" => inf[r].read # "outdated"

\* ... and a reference to an entry that is gone is dropped with the reply's text.
Referable(r) == IF inf[r].read = "outdated" THEN "unread" ELSE inf[r].read

EnterPublish(r) ==
    /\ req[r].cost > 0 => Grounded(r)
    /\ PublishCheck(r)
    /\ inf' = [inf EXCEPT ![r] = IF req'[r].stage = "committing"
                                 THEN [@ EXCEPT !.read = Referable(r)] ELSE Idle]
    /\ UNCHANGED world

\* The reply rests on something that changed: 503, or 409 after a wait.
Outdated(r) ==
    /\ req[r].stage = "publishing" /\ lock = NoOne
    /\ req[r].cost > 0 /\ ~Grounded(r)
    /\ Rejected(r)
    /\ Forget(r)
    /\ UNCHANGED <<stored, barrier, published, world>>

Publish(r) ==
    /\ Commit(r)
    /\ Forget(r)
    /\ UNCHANGED world

Leave(r) ==
    /\ Fail(r) \/ CleanUp(r) \/ Crash(r)
    /\ Forget(r)
    /\ UNCHANGED world

-----------------------------------------------------------------------------
\* Mutant: the rows of recalled memories are compared and not locked.
WritableUnlocked == lock # NoOne => source = "memory"

\* The publishing transaction holds the context row, which a contract is
\* published under, the advisory lock, which a diary entry is deleted under, and
\* the rows of the memories it rests on.
Writable == lock # NoOne => source = "memory" /\ inf[lock].read = "unread"

Rewrite ==
    /\ Writable
    /\ \E r \in Requests: inf[r].read = "current"
    /\ inf' = [r \in Requests |-> IF inf[r].read = "current"
                                  THEN [inf[r] EXCEPT !.read = "outdated"] ELSE inf[r]]
    /\ UNCHANGED <<vars, world>>

\* The jobs of Checkpoints publish, one page at a time and for any request.
Summarise ==
    /\ lock = NoOne
    /\ \E through \in covered + 1 .. revision: covered' = through
    /\ UNCHANGED <<vars, inf, source>>

Others ==
    /\ LeaseExpires \/ BeginDeletion \/ AbortDeletion
    /\ UNCHANGED <<inf, world>>

InferenceStep(r) ==
    \/ Ask(r) \/ Admit(r) \/ JudgeFixed(r)
    \/ Prepare(r) \/ PauseToWait(r) \/ PauseToReduce(r) \/ Unavailable(r)
    \/ Resume(r) \/ Reduce(r)
    \/ Decide(r) \/ Finish(r) \/ Outgrow(r)
    \/ EnterPublish(r) \/ Outdated(r) \/ Publish(r) \/ Leave(r)

InferenceNext ==
    \/ \E r \in Requests: InferenceStep(r)
    \/ Rewrite \/ Summarise \/ Others

InferenceSpec == InferenceInit /\ [][InferenceNext]_inferenceVars

-----------------------------------------------------------------------------
\* A reply that is stored rests, when it commits, on the contract and the memories
\* of that moment and refers to no deleted diary entry, though all were read before
\* seconds of inference; and no turn is stored while the account is deleted.
PublishedOnCurrent ==
    /\ NoTurnDuringDeletion
    /\ [][turns' # turns => inf[lock].read # "outdated"]_inferenceVars

\* An input that does not fit is prepared at most three times ("준비를 끝내지 못한 채
\* 시도가 끝나는 경우는 없어야 한다", app/services/chat.py:2365), and who resumes has a
\* summary that is newer than the one it read and reaches what it asked for.
PressureSound ==
    \A r \in Requests:
        /\ inf[r].tries <= 2
        /\ inf[r].resumed /\ ~inf[r].reduced =>
               inf[r].baseline < covered /\ inf[r].needed <= covered
=============================================================================
