---------------------------- MODULE BackfillJobs ----------------------------
(***************************************************************************)
(* One backfill job of BackfillEngine (gateway/core/backfill.py), its      *)
(* manifest (gateway/core/backfill_manifest.py) and the requests that      *)
(* submit and cancel it (gateway/api/backfill.py).                         *)
(*                                                                         *)
(* A job fetches and publishes chunks, one per symbol and day: day after   *)
(* day, the symbols of a day at once.  It then polls for the               *)
(* acknowledgements Heber writes after its commits.  Every save dumps the  *)
(* whole job when it is called and lands later, so the saves of two        *)
(* coroutines may land in either order.  `saving` holds what each writer   *)
(* has under way; a write that lands and the return to its caller are one  *)
(* step.                                                                   *)
(*                                                                         *)
(* The feed is date-bounded: the others end in submit as UNRECOVERABLE and *)
(* have no run (no entry of the production table is date-bounded at this   *)
(* commit).  The identity of a chunk's records (count and both digests) is *)
(* one value, a time is how often a publication of the chunk has begun.    *)
(*                                                                         *)
(* Left out: manifests of another version or damaged by hand; counts and   *)
(* messages; alerts; what normalises and wraps records; a wait for         *)
(* acknowledgements of length 0, which polls once and ends; other jobs,    *)
(* except that they may hold the semaphore of the feed: a run holds it     *)
(* while it polls, for ever if need be, so a run in "waiting" need not     *)
(* leave it.                                                               *)
(***************************************************************************)
EXTENDS Naturals, FiniteSets

CONSTANTS
  Symbols,        \* the symbols of the request
  Days,           \* how many date chunks it has
  Proofs,         \* identities the provider's records of a chunk may have
  Unstable,       \* bound: symbols whose records may differ between two fetches
  NoProof,
  NoJob,
  MaxSubmits,     \* bound: submissions
  MaxCancels,     \* bound: cancellations
  MaxTroubles     \* bound: ends of the process, fetches, saves and reads that raise and
                  \* short publications of one behaviour

ASSUME BackfillAssumption ==
  /\ Symbols # {} /\ IsFiniteSet(Symbols) /\ Days \in Nat \ {0}
  /\ NoProof \notin Proofs
  /\ MaxSubmits \in Nat /\ MaxCancels \in Nat /\ MaxTroubles \in Nat

Chunks == Symbols \X (1 .. Days)
Run == <<"run">>
Submission == <<"submit">>
Cancellation == <<"cancel">>
Writers == Chunks \cup {Run, Submission, Cancellation}

VARIABLES
  up,             \* the process runs and start() has returned
  job,            \* the BackfillJob in memory, or NoJob
  store,          \* the manifest in Redis, or NoJob
  saving,         \* what each writer has on its way to the manifest
  task,           \* where the job's task is; "none": done or never started
  at,             \* where the coroutine of each chunk is
  errors,         \* symbols_progress: the symbols with an error
  seen,           \* acknowledgements read in this round
  all_verified,
  alerted,
  request,        \* where the submission under way is
  acks,           \* Heber's latest acknowledgement of each chunk
  committed,      \* the identities Heber has committed
  delivered,      \* the identities that reach Heber complete
  published,      \* how often a publication of each chunk began
  saveLost,       \* a save has raised
  submits, cancels, troubles

run == <<task, at, errors>>
poll == <<seen, all_verified, alerted>>
heber == <<acks, committed, delivered, published>>
bounds == <<submits, cancels, troubles>>
vars == <<up, job, store, saving, run, poll, request, heber, saveLost, bounds>>

NewChunk ==
  [status |-> "pending", proof |-> NoProof, published_at |-> 0, acknowledged |-> FALSE]
NewJob ==
  [status |-> "QUEUED", reason |-> "none", completed |-> FALSE,
   chunks |-> [c \in Chunks |-> NewChunk]]
NoSaves == [w \in Writers |-> NoJob]
Idle == [c \in Chunks |-> "idle"]
NewRound == seen' = {} /\ all_verified' = TRUE
NewPoll == NewRound /\ alerted' = FALSE
NoAck == [proof |-> NoProof, at |-> 0]

(* Whether every chunk of j has its publication on record. *)
PublicationEvidenceComplete(j) ==
  \A c \in Chunks :
    /\ j.chunks[c].status \in {"published", "verified"}
    /\ j.chunks[c].proof # NoProof
    /\ j.chunks[c].published_at # 0

(* Variant: the digests of an acknowledgement are not compared. *)
AckMatchesAny(j, c) ==
  acks[c] # NoAck /\ j.chunks[c].published_at # 0 /\ acks[c].at >= j.chunks[c].published_at

(* Whether Heber's acknowledgement of c is of what j says was published, and later. *)
AckMatches(j, c) ==
  /\ acks[c] # NoAck
  /\ acks[c].proof = j.chunks[c].proof
  /\ j.chunks[c].published_at # 0
  /\ acks[c].at >= j.chunks[c].published_at

Blocked(j, status, reason) == [j EXCEPT !.status = status, !.reason = reason]
Reopened(j) ==
  [j EXCEPT !.status = "AWAITING_ACK", !.reason = "missing_heber_acknowledgement"]
Requeued(j) ==
  [j EXCEPT !.status = "QUEUED", !.reason = "none", !.completed = FALSE]

Init ==
  /\ up = TRUE /\ job = NoJob /\ store = NoJob /\ saving = NoSaves
  /\ task = "none" /\ at = Idle /\ errors = {}
  /\ seen = {} /\ all_verified = TRUE /\ alerted = FALSE
  /\ request = "idle"
  /\ acks = [c \in Chunks |-> NoAck]
  /\ committed = [c \in Chunks |-> {}] /\ delivered = [c \in Chunks |-> {}]
  /\ published = [c \in Chunks |-> 0]
  /\ saveLost = FALSE
  /\ submits = 0 /\ cancels = 0 /\ troubles = 0

-----------------------------------------------------------------------------
(* Saves *)

(* w dumps j and sends it off; the coroutine waits until it has landed. *)
Save(w, j) == job' = j /\ saving' = [saving EXCEPT ![w] = j]

(* The write of w has landed. *)
Lands(w) ==
  /\ saving[w] # NoJob
  /\ store' = saving[w]
  /\ saving' = [saving EXCEPT ![w] = NoJob]

(* The write of w raises: it landed without an answer, or it did not. *)
Raises(w) ==
  /\ saving[w] # NoJob /\ troubles < MaxTroubles
  /\ store' \in {store, saving[w]}
  /\ saving' = [saving EXCEPT ![w] = NoJob]
  /\ troubles' = troubles + 1 /\ saveLost' = TRUE
  /\ UNCHANGED <<submits, cancels>>

(* Writers W are stopped: the last of their writes may have landed. *)
Dropped(W) == {store} \cup {saving[w] : w \in {x \in W : saving[x] # NoJob}}

-----------------------------------------------------------------------------
(* Submission.  A lock admits one submission of a job at a time. *)

(* Variant: a job is taken up again while its task runs. *)
SubmitAnyway ==
  /\ up /\ request = "idle" /\ submits < MaxSubmits
  /\ request' = "loading"
  /\ submits' = submits + 1
  /\ UNCHANGED <<up, job, store, saving, run, poll, heber, saveLost, cancels, troubles>>

(* A task that runs is answered with its job; otherwise the manifest is read. *)
SubmitBegins ==
  /\ up /\ request = "idle" /\ task = "none" /\ submits < MaxSubmits
  /\ request' = "loading"
  /\ submits' = submits + 1
  /\ UNCHANGED <<up, job, store, saving, run, poll, heber, saveLost, cancels, troubles>>

(* A verified manifest is only verified again; any other is queued afresh. *)
SubmitLoads ==
  /\ request = "loading"
  /\ LET j == IF store = NoJob THEN NewJob
              ELSE IF store.status = "VERIFIED" THEN Reopened(store) ELSE Requeued(store)
     IN  /\ Save(Submission, j)
         /\ request' = IF j.status = "AWAITING_ACK" THEN "reopening" ELSE "saving"
  /\ UNCHANGED <<up, store, run, poll, heber, saveLost, bounds>>

SubmitSaved ==
  /\ request \in {"saving", "reopening"} /\ Lands(Submission)
  /\ task' = IF request = "saving" THEN "waiting" ELSE "evidence"
  /\ errors' = {}
  /\ request' = "idle"
  /\ UNCHANGED <<up, job, at, poll, heber, saveLost, bounds>>

SubmitRaises ==
  /\ request \in {"saving", "reopening"} /\ Raises(Submission)
  /\ request' = "idle"
  /\ UNCHANGED <<up, job, run, poll, heber>>

-----------------------------------------------------------------------------
(* The run *)

Busy(c) == at[c] \notin {"idle", "done"}

(* Variant: a chunk waits for the others of its day, too. *)
InTurnAfterAll(c) == \A d \in Chunks \ {c} : d[2] <= c[2] => at[d] = "done"

(* A day is taken up once the day before it is over. *)
InTurn(c) == \A d \in Chunks : d[2] < c[2] => at[d] = "done"

(* The run ends for a reason: the status is saved and the task is over. *)
Block(status, reason) ==
  /\ Save(Run, Blocked(job, status, reason))
  /\ task' = "blocking"

(* The semaphore is taken; Heber is ready, or its readiness is missing, stale or another's. *)
RunStarts ==
  /\ task = "waiting"
  /\ \/ /\ Save(Run, [job EXCEPT !.status = "RUNNING"])
        /\ task' = "starting"
     \/ Block("FAILED", "heber_readiness")
  /\ UNCHANGED <<up, store, at, errors, poll, request, heber, saveLost, bounds>>

RunSaved ==
  /\ task \in {"starting", "blocking", "cancelling", "closing", "alerting"} /\ Lands(Run)
  /\ task' = CASE task = "starting" -> "days"
              [] task = "closing" -> "evidence"
              [] task = "alerting" -> "verify"
              [] OTHER -> "none"
  /\ at' = IF task = "starting" THEN Idle ELSE at
  /\ UNCHANGED <<up, job, errors, poll, request, heber, saveLost, bounds>>

(* A save of the task itself that raises ends the task, whatever it was. *)
RunRaises ==
  /\ task \in {"starting", "blocking", "cancelling", "closing", "alerting"} /\ Raises(Run)
  /\ task' = "none"
  /\ NewPoll
  /\ UNCHANGED <<up, job, at, errors, request, heber>>

ChunkFails(c) ==
  /\ Save(c, [job EXCEPT !.chunks[c].status = "failed"])
  /\ errors' = errors \cup {c[1]}
  /\ at' = [at EXCEPT ![c] = "failing"]

(* What a fetch of c may bring. *)
Fetched(c) == {p \in Proofs : c[1] \in Unstable \/ p = CHOOSE q \in Proofs : TRUE}

(* An acknowledged chunk is done.  Otherwise its records are fetched and checked: their  *)
(* identity must be the one on record, and is on record before anything is published.    *)
ProcessChunk(c) ==
  /\ task = "days" /\ InTurn(c) /\ at[c] = "idle"
  /\ \/ /\ job.chunks[c].acknowledged
        /\ at' = [at EXCEPT ![c] = "done"]
        /\ UNCHANGED <<job, saving, errors>>
     \/ /\ ~job.chunks[c].acknowledged
        /\ \/ \E p \in Fetched(c) \ {job.chunks[c].proof} :
                job.chunks[c].proof # NoProof /\ ChunkFails(c)
           \/ \E p \in Fetched(c) :
                /\ job.chunks[c].proof \in {NoProof, p}
                /\ Save(c, [job EXCEPT !.chunks[c].proof = p,
                                       !.chunks[c].status = "validated"])
                /\ at' = [at EXCEPT ![c] = "recording"]
                /\ UNCHANGED errors
  /\ UNCHANGED <<up, store, task, poll, request, heber, saveLost, bounds>>

(* The provider raises, or its records are not valid ones of the chunk. *)
FetchFails(c) ==
  /\ task = "days" /\ InTurn(c) /\ at[c] = "idle" /\ ~job.chunks[c].acknowledged
  /\ troubles < MaxTroubles
  /\ troubles' = troubles + 1
  /\ ChunkFails(c)
  /\ UNCHANGED <<up, store, task, poll, request, heber, saveLost, submits, cancels>>

ChunkSaved(c) ==
  /\ at[c] \in {"recording", "noting", "failing"} /\ Lands(c)
  /\ \/ /\ at[c] = "recording"
        /\ at' = [at EXCEPT ![c] = "publishing"]
        /\ published' = [published EXCEPT ![c] = @ + 1]
        /\ job' = [job EXCEPT !.chunks[c].published_at = published'[c]]
     \/ /\ at[c] # "recording"
        /\ at' = [at EXCEPT ![c] = "done"]
        /\ UNCHANGED <<job, published>>
  /\ UNCHANGED <<up, task, errors, poll, request, acks, committed, delivered, saveLost, bounds>>

(* A save of a chunk that raises fails the chunk; one that raises while the chunk is failed *)
(* reaches the run as an error of the symbol.                                               *)
ChunkRaises(c) ==
  /\ at[c] \in {"recording", "noting", "failing"} /\ saving[c] # NoJob /\ troubles < MaxTroubles
  /\ store' \in {store, saving[c]}
  /\ troubles' = troubles + 1 /\ saveLost' = TRUE
  /\ \/ at[c] # "failing" /\ ChunkFails(c)
     \/ /\ at[c] = "failing"
        /\ at' = [at EXCEPT ![c] = "done"]
        /\ saving' = [saving EXCEPT ![c] = NoJob]
        /\ UNCHANGED <<job, errors>>
  /\ UNCHANGED <<up, task, poll, request, heber, submits, cancels>>

(* The sinks take every record. *)
PublishAll(c) ==
  /\ at[c] = "publishing"
  /\ delivered' = [delivered EXCEPT ![c] = @ \cup {job.chunks[c].proof}]
  /\ Save(c, [job EXCEPT !.chunks[c].status = "published"])
  /\ at' = [at EXCEPT ![c] = "noting"]
  /\ UNCHANGED <<up, store, task, errors, poll, request, acks, committed, published, saveLost, bounds>>

(* The sinks confirm fewer records than there are; what they buffered may arrive later. *)
PublishSome(c) ==
  /\ at[c] = "publishing" /\ troubles < MaxTroubles
  /\ troubles' = troubles + 1
  /\ delivered' \in {delivered, [delivered EXCEPT ![c] = @ \cup {job.chunks[c].proof}]}
  /\ Save(c, [job EXCEPT !.chunks[c].status = "partial"])
  /\ errors' = errors \cup {c[1]}
  /\ at' = [at EXCEPT ![c] = "noting"]
  /\ UNCHANGED <<up, store, task, poll, request, acks, committed, published, saveLost, submits, cancels>>

(* The outbox is above the threshold of a backfill: nothing is handed over. *)
PublishRefused(c) ==
  /\ at[c] = "publishing" /\ troubles < MaxTroubles
  /\ troubles' = troubles + 1
  /\ ChunkFails(c)
  /\ UNCHANGED <<up, store, task, poll, request, heber, saveLost, submits, cancels>>

(* All chunks are over: a symbol with an error blocks the job. *)
RunEnds ==
  /\ task = "days" /\ \A c \in Chunks : at[c] = "done"
  /\ \/ errors = Symbols /\ Block("FAILED", "chunk_failure")
     \/ errors \notin {{}, Symbols} /\ Block("PARTIAL", "chunk_failure")
     \/ /\ errors = {}
        /\ Save(Run, [job EXCEPT !.status = "AWAITING_ACK", !.completed = TRUE])
        /\ task' = "closing"
  /\ UNCHANGED <<up, store, at, errors, poll, request, heber, saveLost, bounds>>

-----------------------------------------------------------------------------
(* Verification *)

(* Nothing is polled for without the evidence of every publication. *)
VerifyBegins ==
  /\ task = "evidence"
  /\ IF PublicationEvidenceComplete(job)
     THEN /\ task' = "verify"
          /\ NewPoll
          /\ UNCHANGED <<job, saving>>
     ELSE Block("PARTIAL", "evidence_incomplete") /\ UNCHANGED poll
  /\ UNCHANGED <<up, store, at, errors, request, heber, saveLost, bounds>>

(* One acknowledgement is read: it certifies its chunk, or the round is not complete. *)
ReadAck(c) ==
  /\ task = "verify" /\ c \notin seen
  /\ seen' = seen \cup {c}
  /\ all_verified' = (all_verified /\ AckMatches(job, c))
  /\ job' = IF AckMatches(job, c)
            THEN [job EXCEPT !.chunks[c].acknowledged = TRUE,
                             !.chunks[c].status = "verified"]
            ELSE job
  /\ UNCHANGED <<up, store, saving, run, alerted, request, heber, saveLost, bounds>>

(* The read raises: the round is not complete. *)
ReadAckFails(c) ==
  /\ task = "verify" /\ c \notin seen /\ troubles < MaxTroubles
  /\ seen' = seen \cup {c} /\ all_verified' = FALSE
  /\ troubles' = troubles + 1
  /\ UNCHANGED <<up, job, store, saving, run, alerted, request, heber, saveLost, submits, cancels>>

RoundEnds ==
  /\ task = "verify" /\ seen = Chunks
  /\ NewRound
  /\ \/ /\ all_verified
        /\ Save(Run, [job EXCEPT !.status = "VERIFIED", !.reason = "none"])
        /\ task' = "blocking" /\ alerted' = FALSE
     \/ /\ ~all_verified /\ ~alerted
        /\ Save(Run, Blocked(job, "PARTIAL", "missing_heber_acknowledgement"))
        /\ task' = "alerting" /\ alerted' = TRUE
     \/ /\ ~all_verified
        /\ UNCHANGED <<job, saving, task, alerted>>
  /\ UNCHANGED <<up, store, at, errors, request, heber, saveLost, bounds>>

-----------------------------------------------------------------------------
(* Cancellation.  It takes no lock; only a queued or running job is cancelled. *)

(* Variant: the coroutines of the chunks are not cancelled with the run. *)
CancelRunOnly ==
  /\ up /\ job # NoJob /\ cancels < MaxCancels /\ saving[Cancellation] = NoJob
  /\ job.status \in {"QUEUED", "RUNNING"}
  /\ cancels' = cancels + 1
  /\ job' = Blocked(job, "CANCELLED", "cancelled")
  /\ saving' = [saving EXCEPT ![Cancellation] = job', ![Run] = NoJob]
  /\ task' = "none"
  /\ UNCHANGED <<up, store, at, errors, poll, request, heber, saveLost, submits, troubles>>

(* The task of the job is cancelled where it waits.  A run that has its chunks under way *)
(* saves CANCELLED too; a run that waits, or saves RUNNING, just ends.                   *)
Cancel ==
  /\ up /\ job # NoJob /\ cancels < MaxCancels /\ saving[Cancellation] = NoJob
  /\ job.status \in {"QUEUED", "RUNNING"}
  /\ cancels' = cancels + 1
  /\ LET gone == Blocked(job, "CANCELLED", "cancelled")
         kept == [w \in Writers |-> IF w = Submission THEN saving[w] ELSE NoJob]
     IN  /\ job' = gone
         /\ store' \in Dropped(Writers \ {Submission})
         /\ saving' = [kept EXCEPT ![Cancellation] = gone,
                                   ![Run] = IF task = "days" THEN gone ELSE NoJob]
  /\ task' = IF task = "days" THEN "cancelling" ELSE "none"
  /\ at' = Idle
  /\ UNCHANGED <<up, errors, poll, request, heber, saveLost, submits, troubles>>

(* Its save has landed, or raises: the request fails, and the job is cancelled all the same. *)
CancelEnds ==
  /\ saving[Cancellation] # NoJob
  /\ store' \in {store, saving[Cancellation]}
  /\ saving' = [saving EXCEPT ![Cancellation] = NoJob]
  /\ UNCHANGED <<up, job, run, poll, request, heber, saveLost, bounds>>

-----------------------------------------------------------------------------
(* The process *)

Ends(manifests) ==
  /\ up /\ troubles < MaxTroubles
  /\ troubles' = troubles + 1
  /\ up' = FALSE
  /\ store' \in manifests
  /\ job' = NoJob /\ saving' = NoSaves
  /\ task' = "none" /\ at' = Idle /\ errors' = {}
  /\ request' = "idle" /\ NewPoll
  /\ UNCHANGED <<heber, saveLost, submits, cancels>>

Crash == Ends(Dropped(Writers))

(* shutdown() cancels the tasks once the requests are over: a run in its chunks saves that. *)
Shutdown ==
  /\ request = "idle" /\ saving[Cancellation] = NoJob
  /\ Ends(IF task = "days" THEN {Blocked(job, "CANCELLED", "cancelled")} ELSE Dropped(Writers))

(* start(): what was interrupted has failed, what was verified is verified again, and what *)
(* awaits acknowledgements without a reason is given one.                                  *)
Restored(j) ==
  CASE j.status \in {"QUEUED", "RUNNING"} -> Blocked(j, "FAILED", "restart_interrupted")
    [] j.status = "VERIFIED" -> Reopened(j)
    [] j.status = "AWAITING_ACK" /\ j.reason = "none" -> Reopened(j)
    [] OTHER -> j

(* Variant: a job that was reported PARTIAL is not taken up again. *)
ResumesAwaiting(j) ==
  j.completed /\ j.status = "AWAITING_ACK" /\ j.reason \in {"none", "missing_heber_acknowledgement"}

(* Whether the polling of j is taken up again. *)
Resumes(j) ==
  /\ j.completed /\ j.status \in {"AWAITING_ACK", "PARTIAL"}
  /\ j.reason \in {"none", "missing_heber_acknowledgement"}

Start ==
  /\ ~up
  /\ up' = TRUE
  /\ IF store = NoJob
     THEN UNCHANGED <<job, store, task>>
     ELSE /\ store' = Restored(store)
          /\ IF Resumes(store')
             THEN job' = [store' EXCEPT !.status = "AWAITING_ACK"] /\ task' = "evidence"
             ELSE job' = store' /\ UNCHANGED task
  /\ UNCHANGED <<saving, at, errors, poll, request, heber, saveLost, bounds>>

-----------------------------------------------------------------------------
(* Heber, external: it commits what reached it complete and then acknowledges it. *)

HeberCommits(c) ==
  /\ \E p \in delivered[c] :
       /\ acks' = [acks EXCEPT ![c] = [proof |-> p, at |-> published[c]]]
       /\ committed' = [committed EXCEPT ![c] = @ \cup {p}]
  /\ acks' # acks
  /\ UNCHANGED <<up, job, store, saving, run, poll, request, delivered, published, saveLost, bounds>>

-----------------------------------------------------------------------------
ChunkStep(c) ==
  \/ ProcessChunk(c) \/ FetchFails(c) \/ ChunkSaved(c) \/ ChunkRaises(c)
  \/ PublishAll(c) \/ PublishSome(c) \/ PublishRefused(c)

RunStep ==
  \/ RunSaved \/ RunRaises \/ RunEnds
  \/ VerifyBegins \/ RoundEnds
  \/ \E c \in Chunks : ReadAck(c) \/ ReadAckFails(c)

RequestStep ==
  \/ SubmitLoads \/ SubmitSaved \/ SubmitRaises \/ CancelEnds

Next ==
  \/ SubmitBegins \/ Cancel \/ Crash \/ Shutdown \/ Start
  \/ RequestStep \/ RunStarts \/ RunStep
  \/ \E c \in Chunks : ChunkStep(c) \/ HeberCommits(c)

Spec == Init /\ [][Next]_vars

(* The event loop runs whatever is ready and Redis answers or times out; a stopped process *)
(* is started again.  Nobody need submit or cancel, Heber need not commit, and the         *)
(* semaphore need not be free: no fairness is asked of RunStarts.                          *)
Fairness ==
  /\ WF_vars(RequestStep) /\ WF_vars(RunStep) /\ WF_vars(Start)
  /\ \A c \in Chunks : WF_vars(ChunkStep(c))

FairSpec == Spec /\ Fairness

-----------------------------------------------------------------------------
Statuses == {"QUEUED", "RUNNING", "AWAITING_ACK", "PARTIAL", "FAILED", "VERIFIED", "CANCELLED"}
Reasons == {"none", "missing_heber_acknowledgement", "evidence_incomplete", "heber_readiness",
            "chunk_failure", "restart_interrupted", "cancelled"}
ChunkStatuses == {"pending", "validated", "published", "partial", "failed", "verified"}
JobType ==
  [status : Statuses, reason : Reasons, completed : BOOLEAN,
   chunks : [Chunks -> [status : ChunkStatuses, proof : Proofs \cup {NoProof},
                        published_at : 0 .. MaxSubmits, acknowledged : BOOLEAN]]]

ASSUME NoJobAssumption == NoJob \notin JobType

(* Types, and: a coroutine of a chunk runs only in its turn of a run, and waits for a save *)
(* exactly when one of its own is on its way.                                             *)
TypeOK ==
  /\ up \in BOOLEAN
  /\ job = NoJob \/ job \in JobType
  /\ store = NoJob \/ store \in JobType
  /\ \A w \in Writers : saving[w] = NoJob \/ saving[w] \in JobType
  /\ \A c \in Chunks : Busy(c) => task = "days" /\ InTurn(c)
  /\ \A c \in Chunks : saving[c] # NoJob <=> at[c] \in {"recording", "noting", "failing"}
  /\ saving[Run] # NoJob <=>
       task \in {"starting", "blocking", "cancelling", "closing", "alerting"}
  /\ task # "none" => up /\ job # NoJob
  /\ \A c \in Chunks : published[c] \in 0 .. MaxSubmits /\ committed[c] \subseteq delivered[c]

(* CHANGELOG.md:114: a job is verified, in memory or in its manifest, only if Heber has *)
(* committed, for every chunk, exactly the records the job names.                       *)
VerifiedIsCommitted ==
  \A j \in {job, store} :
    j # NoJob /\ j.status = "VERIFIED" =>
      \A c \in Chunks : j.chunks[c].proof \in committed[c]

(* cancel() stops the task where it waits, and its status is set without the lock: no chunk *)
(* is published for a job that is cancelled, over or not yet started.                       *)
PublishedWhileRunning ==
  [][\A c \in Chunks : published'[c] # published[c] => job.status = "RUNNING"]_vars

(* The manifest waits for acknowledgements.  One whose reason is "cancelled" was cancelled  *)
(* while its submission was being saved, and has run all the same; a process that starts    *)
(* does not take it up (the manifest names a reason that start() does not know), so it      *)
(* counts only while its task lives.                                                        *)
Awaited ==
  /\ store # NoJob /\ store.completed
  /\ store.status \in {"AWAITING_ACK", "PARTIAL"}
  /\ \/ store.reason \in {"none", "missing_heber_acknowledgement"}
     \/ store.reason = "cancelled" /\ task # "none"

(* CHANGELOG.md:114: a job that waits for acknowledgements does not go on waiting while all  *)
(* of them are there, over any restart but that of a job whose cancellation its run has      *)
(* overtaken, and unless a save raised: that ends the task that polls.                       *)
Reconciled == []<>~(Awaited /\ ~saveLost /\ \A c \in Chunks : AckMatches(store, c))
=============================================================================
