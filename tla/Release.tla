------------------------------- MODULE Release -------------------------------
(* The one promotion of the prepared conversation contexts.  Summaries and     *)
(* contracts of every account are built privately beside the live service,     *)
(* audited in one long snapshot without locks, and made public by one short    *)
(* transaction.  The live service is never stopped: a trigger on every audited *)
(* table makes each writing transaction count its change on its account's      *)
(* clock, and the promotion compares the clocks with those of the audit.       *)
EXTENDS Naturals, Sequences, FiniteSets, TLC

CONSTANTS
    Subjects,       \* the accounts
    History,        \* history[u]: messages at the beginning, or NoAccount
    Writers,        \* transactions of the live service, each runs once
    Builders,       \* workers of the preparation
    Operators,      \* runs of the release command, at the same time
    Plans,          \* what each writer does, and how many commands are given
    MaxTries,       \* attempts to promote on one audit (3 in the code)
    MaxDeaths,      \* bound on the jobs that die
    NoAccount

WriteKinds == {"message", "edit", "row", "cursor", "signup"}

ASSUME ReleaseAssumption ==
    /\ History \in [Subjects -> Nat \union {NoAccount}] /\ NoAccount \notin Nat
    /\ Plans \subseteq [does : [Writers -> [kind : WriteKinds, subject : Subjects]], commands : Nat]
    /\ Writers \intersect Builders = {} /\ MaxTries \in Nat \ {0}

VARIABLES
    plan,       \* the plan of this behaviour
    data,       \* data[u]: the account's committed rows, DOMAIN the accounts there are
    txn,        \* txn[w]: a transaction of a writer or a builder
    preps,      \* the preparations, in the order they began; one at most is current
    pointer,    \* context_retention_active_preparation
    clock,      \* clock[u]: boundary and revision (with its events), DOMAIN the enrolled
    art,        \* art[u]: messages the private chain covers, and covers with sealed rows
    target,     \* target[u]: the boundary jobs were queued for
    deaths,     \* the dead jobs: preparation, subject and boundary
    op,         \* op[o]: an operator's command and what it remembers
    commands    \* commands given so far

releaseVars == <<plan, data, txn, preps, pointer, clock, art, target, deaths, op, commands>>
live == <<plan, data, txn>>
made == <<clock, art, target, deaths>>

-----------------------------------------------------------------------------
(* What a preparation and an audit know of an account.                         *)

Accounts == DOMAIN data

\* The messages of one account up to a boundary (prefix_record), and the
\* records of all accounts up to their last committed turn (live_manifest).
Record(u, t) == [through |-> t, messages |-> SubSeq(data[u].messages, 1, t)]
ManifestNow  == [u \in Accounts |-> Record(u, Len(data[u].messages))]

Current  == Len(preps)
Building == Current > 0 /\ preps[Current].state = "building"
Manifest == preps[Current].manifest

\* _enroll_source_revisions_fenced: a boundary that grows is a new revision.
Enrolled(u, t) ==
    [through |-> t,
     rev |-> IF u \notin DOMAIN clock THEN 0
             ELSE clock[u].rev + (IF clock[u].through = t THEN 0 ELSE 1)]

Idle == [stage |-> "idle"]

-----------------------------------------------------------------------------
(* Locks.  A stage tells what a transaction holds until it ends.               *)

Txs      == Writers \union Builders
InFlight == {w \in Txs : txn[w].stage \notin {"idle", "done"}}
On(u)    == {w \in InFlight : txn[w].subject = u}

\* The clock of an account, for a change and for a mere look at the boundary.
ClockUnlocked(u)  == ~\E w \in On(u) : txn[w].stage \in {"counted", "noted"}
ClockUnchanged(u) == ~\E w \in On(u) : txn[w].stage = "counted"
ClocksTaken       == \E o \in Operators : op[o].stage = "fenced"

\* The preparation's row: exclusive for an operator, shared for a transaction
\* that found a clock taken and for a builder.
RowTaken  == \E o \in Operators : op[o].stage \in {"aborting", "locked", "fenced"}
RowShared == \E w \in InFlight : txn[w].stage = "shared" \/ txn[w].kind = "artifact"
RowFree   == ~RowTaken /\ ~RowShared

\* The sentinel every writer shares and a registration takes; the table lock of
\* a starting operator; the advisory lock of the three transitions.
FenceFree    == \A w \in InFlight : txn[w].stage = "open"
TableFree    == ~\E o \in Operators : op[o].stage = "collected"
AdvisoryFree == ~RowTaken

-----------------------------------------------------------------------------
ReleaseInit ==
    /\ plan \in Plans
    /\ data = [u \in {v \in Subjects : History[v] # NoAccount} |->
                   [messages |-> [i \in 1..History[u] |-> 0], rows |-> 0,
                    canonical |-> History[u] = 0]]
    /\ txn = [w \in Txs |-> Idle]
    /\ preps = << >> /\ pointer = 0
    /\ clock = << >> /\ art = << >> /\ target = << >> /\ deaths = {}
    /\ op = [o \in Operators |-> Idle]
    /\ commands = 0

-----------------------------------------------------------------------------
(* Writers.  The rows are changed, then the trigger shares the sentinel; two   *)
(* transactions do not change the same rows at once.                           *)

Opened(w, kind, u, at) ==
    txn' = [txn EXCEPT ![w] = [stage |-> "open", kind |-> kind, subject |-> u, at |-> at]]

Alone(kind, u) == ~\E w \in On(u) : txn[w].kind = kind

BeginWrite(w) ==
    LET kind == plan.does[w].kind
        u    == plan.does[w].subject
    IN  /\ w \in Writers /\ txn[w].stage = "idle" /\ Alone(kind, u)
        /\ \/ kind = "signup" /\ u \notin Accounts /\ Opened(w, kind, u, 0)
           \/ kind \in {"row", "cursor"} /\ u \in Accounts /\ Opened(w, kind, u, 0)
           \/ kind = "message" /\ u \in Accounts
              /\ Opened(w, kind, u, Len(data[u].messages) + 1)
           \/ kind = "edit" /\ u \in Accounts
              /\ \E i \in DOMAIN data[u].messages : Opened(w, kind, u, i)
        /\ UNCHANGED <<plan, data, preps, pointer, made, op, commands>>

\* A builder shares the preparation's row and finds it building
\* (require_binding) before it inserts the next part of a chain.
BeginArtifact(w, u) ==
    /\ w \in Builders /\ txn[w].stage = "idle" /\ ~RowTaken /\ Building
    /\ u \in DOMAIN target /\ Alone("artifact", u)
    /\ \E to \in art[u].built + 1 .. target[u] : Opened(w, "artifact", u, to)
    /\ UNCHANGED <<plan, data, preps, pointer, made, op, commands>>

\* Whether the trigger counts the change, given the boundary of the account.
Counts(w, through) ==
    CASE txn[w].kind = "cursor" -> FALSE
      [] txn[w].kind \in {"message", "edit"} -> txn[w].at <= through
      [] OTHER -> TRUE

Goes(w, stage) == txn' = [txn EXCEPT ![w].stage = stage]

\* The clock row is locked without waiting; a lock that is taken leads to the
\* preparation's row.
LookAtClock(w) ==
    LET u == txn[w].subject
    IN  IF Counts(w, clock[u].through)
        THEN Goes(w, IF ClockUnlocked(u) /\ ~ClocksTaken THEN "counted" ELSE "waiting")
        ELSE Goes(w, IF ClockUnchanged(u) /\ ~ClocksTaken THEN "noted" ELSE "waiting")

\* The rest of the trigger's first pass.
Trigger(w) ==
    /\ txn[w].stage = "open"
    /\ IF ~Building THEN Goes(w, "clear")
       ELSE IF txn[w].subject \in DOMAIN clock THEN LookAtClock(w)
       ELSE Goes(w, IF txn[w].kind = "cursor" THEN "clear" ELSE "waiting")
    /\ UNCHANGED <<plan, data, preps, pointer, made, op, commands>>

\* The trigger's second pass waits for a promotion that holds the row, and
\* finds the preparation building or over.
Share(w) ==
    /\ txn[w].stage = "waiting" /\ ~RowTaken
    /\ Goes(w, IF Building THEN "shared" ELSE "clear")
    /\ UNCHANGED <<plan, data, preps, pointer, made, op, commands>>

\* Mutant: a change that found the clock taken is not recorded.
RecordedByClock(w) ==
    txn[w].stage = "counted" /\ txn[w].subject \in DOMAIN clock

\* The revision on the clock, or an event beside it.
Recorded(w) ==
    /\ txn[w].stage \in {"counted", "shared"} /\ txn[w].subject \in DOMAIN clock
    /\ Counts(w, clock[txn[w].subject].through)

Applied(w) ==
    LET u == txn[w].subject
    IN  CASE txn[w].kind = "signup" ->
                [v \in Accounts \union {u} |->
                     IF v = u THEN [messages |-> << >>, rows |-> 0, canonical |-> TRUE]
                     ELSE data[v]]
          [] txn[w].kind = "message" -> [data EXCEPT ![u].messages = Append(@, 0)]
          [] txn[w].kind = "edit"    -> [data EXCEPT ![u].messages[txn[w].at] = @ + 1]
          [] txn[w].kind = "row"     -> [data EXCEPT ![u].rows = @ + 1]
          [] OTHER -> data

Over(w) == txn' = [txn EXCEPT ![w] = [stage |-> IF w \in Builders THEN "idle" ELSE "done"]]

Commit(w) ==
    /\ txn[w].stage \in {"clear", "counted", "noted", "shared"}
    /\ data' = Applied(w)
    /\ clock' = IF Recorded(w) THEN [clock EXCEPT ![txn[w].subject].rev = @ + 1] ELSE clock
    /\ art' = IF txn[w].kind = "artifact" THEN [art EXCEPT ![txn[w].subject].built = txn[w].at]
              ELSE art
    /\ Over(w)
    /\ UNCHANGED <<plan, preps, pointer, target, deaths, op, commands>>

Rollback(w) ==
    /\ w \in InFlight
    /\ Over(w)
    /\ UNCHANGED <<plan, data, preps, pointer, made, op, commands>>

\* A job of the preparation dies, at work on it or after it was aborted.
JobDies(u) ==
    /\ Current > 0 /\ preps[Current].state \in {"building", "aborted"}
    /\ u \in DOMAIN target /\ target[u] > art[u].built /\ Cardinality(deaths) < MaxDeaths
    /\ deaths' = deaths \union {[prep |-> Current, subject |-> u, through |-> target[u]]}
    /\ target' = [target EXCEPT ![u] = art[u].built]
    /\ UNCHANGED <<live, preps, pointer, clock, art, op, commands>>

-----------------------------------------------------------------------------
(* The commands that start, extend and abort a preparation.                    *)

Given(o) == op[o].stage = "idle" /\ commands < plan.commands /\ commands' = commands + 1
Becomes(o, r) == op' = [op EXCEPT ![o] = r]

\* No preparation is in the way, and no record comes back unchanged whose job
\* died in an aborted one.
Resolved ==
    /\ \A i \in 1..Current : preps[i].state = "aborted"
    /\ ~\E d \in deaths : d.subject \in Accounts
           /\ d.subject \in DOMAIN preps[d.prep].manifest
           /\ preps[d.prep].manifest[d.subject] = ManifestNow[d.subject]

\* A start takes the table lock, whatever preparation there is, and then reads
\* everything in one snapshot.
StartCollect(o) ==
    /\ Given(o) /\ TableFree
    /\ Becomes(o, [stage |-> "collected", manifest |-> ManifestNow, clear |-> Resolved])
    /\ UNCHANGED <<live, preps, pointer, made>>

Prepares(o, prep, manifest) ==
    Becomes(o, [stage |-> "preparing", prep |-> prep, manifest |-> manifest,
                todo |-> DOMAIN manifest])

\* It waits for the advisory lock, and only then looks whether its snapshot has
\* anything in the way; it drains the writers that found no preparation, and
\* writes its own.
StartCommit(o) ==
    LET manifest == op[o].manifest
    IN  /\ op[o].stage = "collected" /\ AdvisoryFree /\ op[o].clear /\ FenceFree
        /\ preps' = Append(preps, [state |-> "building", version |-> 0, manifest |-> manifest])
        /\ clock' = [u \in DOMAIN manifest |-> [through |-> manifest[u].through, rev |-> 0]]
        /\ art' = [u \in DOMAIN manifest |-> [built |-> 0, sealed |-> 0]]
        /\ target' = [u \in DOMAIN manifest |-> 0]
        /\ Prepares(o, Current + 1, manifest)
        /\ UNCHANGED <<live, pointer, deaths, commands>>

StartRefused(o) ==
    /\ op[o].stage = "collected" /\ AdvisoryFree /\ ~(op[o].clear /\ FenceFree)
    /\ Becomes(o, Idle)
    /\ UNCHANGED <<live, preps, pointer, made, commands>>

\* One account: its prefix is what was collected; texts that are missing are
\* filled in from certified ones, and the jobs are queued.
PrepareUser(o, u) ==
    LET record == op[o].manifest[u]
    IN  /\ op[o].stage = "preparing" /\ u \in op[o].todo
        /\ op[o].prep = Current /\ Building /\ ~RowTaken
        /\ ~\E w \in On(u) : txn[w].kind \in {"message", "edit"}
        /\ Record(u, record.through) = record
        /\ [prep |-> Current, subject |-> u, through |-> record.through] \notin deaths
        /\ data' = [data EXCEPT ![u].canonical = TRUE]
        /\ clock' = IF data[u].canonical THEN clock ELSE [clock EXCEPT ![u].rev = @ + 1]
        /\ target' = [target EXCEPT ![u] = IF record.through > @ THEN record.through ELSE @]
        /\ op' = [op EXCEPT ![o].todo = @ \ {u}]
        /\ UNCHANGED <<plan, txn, preps, pointer, art, deaths, commands>>

PrepareEnds(o) ==
    /\ op[o].stage = "preparing" /\ op[o].todo = {}
    /\ Becomes(o, Idle)
    /\ UNCHANGED <<live, preps, pointer, made, commands>>

\* A catch-up checks the prefixes of the old targets before it changes them.
PrefixesKept ==
    \A u \in DOMAIN Manifest : Record(u, Manifest[u].through) = Manifest[u]

CatchUpCollect(o) ==
    /\ Given(o) /\ Building /\ PrefixesKept
    /\ Becomes(o, [stage |-> "catching", prep |-> Current, original |-> Manifest,
                   manifest |-> ManifestNow])
    /\ UNCHANGED <<live, preps, pointer, made>>

CatchUpCommit(o) ==
    LET manifest == op[o].manifest
    IN  /\ op[o].stage = "catching" /\ op[o].prep = Current /\ Building
        /\ Manifest = op[o].original /\ RowFree /\ TableFree /\ FenceFree
        /\ preps' = [preps EXCEPT ![Current].manifest = manifest, ![Current].version = @ + 1]
        /\ clock' = [u \in DOMAIN manifest |-> Enrolled(u, manifest[u].through)]
        /\ art' = [u \in DOMAIN manifest |->
                       IF u \in DOMAIN art THEN art[u] ELSE [built |-> 0, sealed |-> 0]]
        /\ target' = [u \in DOMAIN manifest |-> IF u \in DOMAIN target THEN target[u] ELSE 0]
        /\ Prepares(o, Current, manifest)
        /\ UNCHANGED <<live, pointer, deaths, commands>>

\* An abort waits for the advisory lock and takes the row, if nobody has it.
LockForAbort(o) ==
    /\ Given(o) /\ Building /\ AdvisoryFree /\ RowFree
    /\ Becomes(o, [stage |-> "aborting"])
    /\ UNCHANGED <<live, preps, pointer, made>>

\* It cancels the jobs that wait and leaves those at work.
Abort(o) ==
    /\ op[o].stage = "aborting" /\ TableFree
    /\ preps' = [preps EXCEPT ![Current].state = "aborted", ![Current].version = @ + 1]
    /\ \E running \in SUBSET DOMAIN target :
           target' = [u \in DOMAIN target |->
                          IF u \in running THEN target[u] ELSE art[u].built]
    /\ Becomes(o, Idle)
    /\ UNCHANGED <<live, pointer, clock, art, deaths, commands>>

-----------------------------------------------------------------------------
(* The promotion: rows sealed, one long audit without locks, and up to         *)
(* MaxTries short transactions, between them a new look at what changed.       *)

SealRows ==
    /\ art' = [u \in DOMAIN art |-> [art[u] EXCEPT !.sealed = art[u].built]]
    /\ clock' = [u \in DOMAIN clock |->
                     IF art[u].sealed = art[u].built THEN clock[u]
                     ELSE [clock[u] EXCEPT !.rev = @ + 1]]

Seal(o) ==
    /\ Given(o) /\ Building /\ ~RowTaken
    /\ SealRows
    /\ Becomes(o, [stage |-> "sealed", prep |-> Current])
    /\ UNCHANGED <<live, preps, pointer, target, deaths>>

\* What the audit proves of one account, and what it notes.
Complete(u) ==
    /\ Record(u, Manifest[u].through) = Manifest[u]
    /\ data[u].canonical /\ art[u].built >= Manifest[u].through
    /\ clock[u].through = Manifest[u].through

Seen(u) ==
    [clock |-> clock[u], record |-> Record(u, clock[u].through), rows |-> data[u].rows,
     built |-> art[u].built]

\* One snapshot; an account that is not registered fails it.
Audit(o) ==
    /\ op[o].stage = "sealed" /\ op[o].prep = Current /\ Building
    /\ Accounts = DOMAIN clock /\ \A u \in Accounts : Complete(u)
    /\ Becomes(o, [stage |-> "audited", prep |-> Current, tries |-> 1,
                   version |-> preps[Current].version, todo |-> {},
                   seen |-> [u \in Accounts |-> Seen(u)]])
    /\ UNCHANGED <<live, preps, pointer, made, commands>>

Unchanged(o) ==
    op[o].prep = Current /\ Building /\ op[o].version = preps[Current].version

LockRow(o) ==
    /\ op[o].stage = "audited" /\ AdvisoryFree /\ RowFree /\ Unchanged(o) /\ pointer = 0
    /\ op' = [op EXCEPT ![o].stage = "locked"]
    /\ UNCHANGED <<live, preps, pointer, made, commands>>

Dirty(o) == {u \in DOMAIN clock : clock[u] # op[o].seen[u].clock}

\* Mutant: rows are sealed once, before the audit.
SealedBefore == TRUE

AllSealed == \A u \in DOMAIN art : art[u].sealed = art[u].built

\* Accounts that came since may be part of the release with nothing to prepare.
NewAreEmpty == \A u \in Accounts \ DOMAIN clock : data[u].messages = << >>

\* The clocks are locked without waiting and compared.
Compare(o) ==
    /\ op[o].stage = "locked" /\ \A u \in DOMAIN clock : ClockUnlocked(u)
    /\ IF Dirty(o) = {}
       THEN AllSealed /\ NewAreEmpty /\ op' = [op EXCEPT ![o].stage = "fenced"]
       ELSE /\ op[o].tries < MaxTries
            /\ Becomes(o, [op[o] EXCEPT !.stage = "dirty", !.tries = @ + 1,
                                       !.todo = Dirty(o)])
    /\ UNCHANGED <<live, preps, pointer, made, commands>>

\* One statement: the state, the pointer and the settings; jobs that wait are
\* cancelled.
Publish(o) ==
    /\ op[o].stage = "fenced" /\ TableFree
    /\ preps' = [preps EXCEPT ![Current].state = "active", ![Current].version = @ + 1]
    /\ pointer' = Current
    /\ target' = [u \in DOMAIN target |-> art[u].built]
    /\ Becomes(o, Idle)
    /\ UNCHANGED <<live, clock, art, deaths, commands>>

RefreshSeal(o) ==
    /\ op[o].stage = "dirty" /\ op[o].prep = Current /\ Building /\ ~RowTaken
    /\ SealRows
    /\ op' = [op EXCEPT ![o].stage = "refreshing"]
    /\ UNCHANGED <<live, preps, pointer, target, deaths, commands>>

\* Every account that changed is proved again, each in its own snapshot.
RefreshOne(o, u) ==
    /\ op[o].stage = "refreshing" /\ u \in op[o].todo /\ Unchanged(o) /\ Complete(u)
    /\ Becomes(o, [op[o] EXCEPT !.seen[u] = Seen(u), !.todo = @ \ {u},
                       !.stage = IF op[o].todo = {u} THEN "audited" ELSE "refreshing"])
    /\ UNCHANGED <<live, preps, pointer, made, commands>>

\* A check that fails, a lock that is busy, the end of the process: what is open
\* is rolled back.
Fails(o) ==
    /\ op[o].stage # "idle"
    /\ Becomes(o, Idle)
    /\ UNCHANGED <<live, preps, pointer, made, commands>>

\* Mutant: only the statements before the publication have a time limit.
LimitedBefore == {"locked"}

\* The transaction of a promotion has a time limit for each lock and each statement.
Limited == {"locked", "fenced"}

\* A promotion reaches its time limit, or the server ends an abort that waits for
\* the table of a start that waits for the abort.
TimesOut(o) ==
    /\ op[o].stage \in Limited \/ (op[o].stage = "aborting" /\ ~TableFree)
    /\ Fails(o)

-----------------------------------------------------------------------------
ReleaseNext ==
    \/ \E w \in Txs : BeginWrite(w) \/ Trigger(w) \/ Share(w) \/ Commit(w) \/ Rollback(w)
    \/ \E w \in Builders, u \in Subjects : BeginArtifact(w, u)
    \/ \E u \in Subjects : JobDies(u)
    \/ \E o \in Operators :
           \/ StartCollect(o) \/ StartCommit(o) \/ StartRefused(o) \/ PrepareEnds(o)
           \/ CatchUpCollect(o) \/ CatchUpCommit(o) \/ LockForAbort(o) \/ Abort(o)
           \/ Seal(o) \/ Audit(o) \/ LockRow(o) \/ Compare(o) \/ Publish(o)
           \/ RefreshSeal(o) \/ Fails(o) \/ TimesOut(o)
           \/ \E u \in Subjects : PrepareUser(o, u) \/ RefreshOne(o, u)

ReleaseSpec == ReleaseInit /\ [][ReleaseNext]_releaseVars

\* Transactions of the service go on, and so do those of an operator that hold
\* the table or the row; nothing forces the other steps of a command, nor its end.
ReleaseLiveSpec ==
    /\ ReleaseSpec
    /\ \A w \in Txs : /\ WF_releaseVars(Trigger(w)) /\ WF_releaseVars(Share(w))
                      /\ WF_releaseVars(Commit(w))
    /\ \A o \in Operators : /\ WF_releaseVars(StartCommit(o) \/ StartRefused(o))
                            /\ WF_releaseVars(Publish(o)) /\ WF_releaseVars(Abort(o))
                            /\ WF_releaseVars(TimesOut(o))

-----------------------------------------------------------------------------
(* Properties.                                                                 *)

\* What is promoted is what was audited: at the moment of publication the
\* messages up to the boundary, the memory rows and the private summaries of
\* every account are those the audit read, and an account it did not read has
\* no messages.  From the comparison to that moment nothing changes, not even
\* the messages after the boundary, whose room was checked in between.
PromotedAsAudited ==
    [][\A o \in Operators : op[o].stage = "fenced" =>
           /\ data' = data /\ art' = art
           /\ pointer' # pointer => \A u \in Accounts :
                  IF u \in DOMAIN op[o].seen THEN Seen(u) = op[o].seen[u]
                  ELSE data[u].messages = << >>]_releaseVars

\* Every row up to the boundary of the promoted release is sealed.
SealedWhenActive ==
    pointer > 0 =>
        \A u \in DOMAIN preps[pointer].manifest :
            art[u].sealed >= preps[pointer].manifest[u].through

\* At most one preparation is building or active, and the pointer names the
\* active one.
OneRelease ==
    /\ \A i, j \in 1..Current : i # j => "aborted" \in {preps[i].state, preps[j].state}
    /\ \A i \in 1..Current : preps[i].state = "active" <=> pointer = i

\* Readers of the promoted release see one whole chain: they skip rows that are
\* not sealed, and follow the pointer.
OneSealedRelease == OneRelease /\ SealedWhenActive

\* No command keeps the service waiting for ever: a transaction that has changed
\* rows ends, also if it waits for the row of a promotion or of an abort that
\* waits for the table of a start, which waits for their advisory lock.
WritersFinish ==
    \A w \in Writers : txn[w].stage = "open" ~> txn[w].stage = "done"
=============================================================================
