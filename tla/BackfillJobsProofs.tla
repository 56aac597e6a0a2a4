------------------------- MODULE BackfillJobsProofs -------------------------
(***************************************************************************)
(* Safety of module BackfillJobs for any number of symbols, days,          *)
(* submissions, cancellations and troubles.                                *)
(*                                                                         *)
(* A job is called verified at the end of a round of acknowledgements that *)
(* were read one by one, and dumps of it are on their way to the manifest  *)
(* from many writers.  The invariant therefore speaks of every dump, says  *)
(* what a round under way has found (RoundHolds), and that nothing is      *)
(* running that could put other records under the name of a verified job   *)
(* (Unverified).                                                           *)
(***************************************************************************)
EXTENDS BackfillJobs, Sequences, TLAPS

Jobs == JobType \cup {NoJob}
TaskPlaces == {"none", "waiting", "starting", "blocking", "cancelling", "closing", "alerting",
               "days", "evidence", "verify"}
RunSaves == {"starting", "blocking", "cancelling", "closing", "alerting"}
ChunkPlaces == {"idle", "recording", "publishing", "noting", "failing", "done"}
ChunkSaves == {"recording", "noting", "failing"}
Identities == Proofs \cup {NoProof}

Types ==
  /\ up \in BOOLEAN /\ all_verified \in BOOLEAN /\ alerted \in BOOLEAN /\ saveLost \in BOOLEAN
  /\ job \in Jobs /\ store \in Jobs
  /\ saving \in [Writers -> Jobs]
  /\ task \in TaskPlaces
  /\ at \in [Chunks -> ChunkPlaces]
  /\ errors \subseteq Symbols /\ seen \subseteq Chunks
  /\ request \in {"idle", "loading", "saving", "reopening"}
  /\ acks \in [Chunks -> [proof : Identities, at : 0 .. MaxSubmits]]
  /\ committed \in [Chunks -> SUBSET Identities]
  /\ delivered \in [Chunks -> SUBSET Identities]
  /\ published \in [Chunks -> 0 .. MaxSubmits]
  /\ submits \in 0 .. MaxSubmits /\ cancels \in 0 .. MaxCancels /\ troubles \in 0 .. MaxTroubles

(* A job has one task or one submission under way, and nothing runs in a    *)
(* process that is down.                                                   *)
Turns ==
  /\ request # "idle" => task = "none" /\ up
  /\ task # "none" => up /\ job # NoJob
  /\ saving[Run] # NoJob <=> task \in RunSaves
  /\ \A c \in Chunks :
       /\ Busy(c) => task = "days" /\ InTurn(c)
       /\ saving[c] # NoJob <=> at[c] \in ChunkSaves

(* A chunk is published at most once for each submission. *)
Unpublished(c) ==
  \/ request \in {"loading", "saving"}
  \/ task \in {"waiting", "starting"}
  \/ task = "days" /\ at[c] \in {"idle", "recording"}

Counted ==
  \A c \in Chunks : /\ published[c] <= submits
                    /\ Unpublished(c) => published[c] < submits

Downstream ==
  \A c \in Chunks : /\ committed[c] \subseteq delivered[c]
                    /\ acks[c] # NoAck => acks[c].proof \in committed[c]

(* A job, a manifest or a dump that says verified names committed records.  *)
Truthful(j) ==
  j # NoJob /\ j.status = "VERIFIED" => \A c \in Chunks : j.chunks[c].proof \in committed[c]

AllTruthful ==
  /\ Truthful(job) /\ Truthful(store)
  /\ \A w \in Writers : Truthful(saving[w])

(* Whatever is running, or about to run, is not called verified. *)
Running == task \notin {"none", "blocking"} \/ request \in {"saving", "reopening"}

Unverified == Running => job # NoJob /\ job.status # "VERIFIED"

(* The chunks run under a job that says so. *)
UnderWay == task \in {"starting", "days"} => job.status = "RUNNING"

(* What the round of acknowledgements has found so far. *)
RoundHolds ==
  task \in {"verify", "alerting"} /\ all_verified =>
    \A c \in seen : job.chunks[c].proof \in committed[c]

IInv ==
  /\ Types /\ Turns /\ Counted /\ Downstream
  /\ AllTruthful /\ Unverified /\ UnderWay /\ RoundHolds

-----------------------------------------------------------------------------
(* Jobs *)

ChunkType ==
  [status : ChunkStatuses, proof : Identities,
   published_at : 0 .. MaxSubmits, acknowledged : BOOLEAN]

LEMMA JobFields ==
  ASSUME NEW j \in JobType
  PROVE  /\ j.status \in Statuses /\ j.reason \in Reasons /\ j.completed \in BOOLEAN
         /\ j.chunks \in [Chunks -> ChunkType]
         /\ j # NoJob /\ j \in Jobs
BY NoJobAssumption DEF JobType, ChunkType, Identities, Jobs

LEMMA JobOf == \A j \in Jobs : j # NoJob => j \in JobType
BY DEF Jobs

(* A change of the status, of its reason or of completed is of the job only. *)
LEMMA StatusUpdate ==
  ASSUME NEW j \in JobType, NEW s \in Statuses
  PROVE  /\ [j EXCEPT !.status = s] \in JobType
         /\ [j EXCEPT !.status = s, !.completed = TRUE] \in JobType
         /\ [j EXCEPT !.status = s].status = s
         /\ [j EXCEPT !.status = s, !.completed = TRUE].status = s
         /\ [j EXCEPT !.status = s].chunks = j.chunks
         /\ [j EXCEPT !.status = s, !.completed = TRUE].chunks = j.chunks
BY DEF JobType

LEMMA BlockedUpdate ==
  ASSUME NEW j \in JobType, NEW s \in Statuses, NEW r \in Reasons
  PROVE  /\ Blocked(j, s, r) \in JobType
         /\ Blocked(j, s, r).status = s /\ Blocked(j, s, r).reason = r
         /\ Blocked(j, s, r).completed = j.completed /\ Blocked(j, s, r).chunks = j.chunks
BY DEF JobType, Blocked

LEMMA Resubmitted ==
  ASSUME NEW j \in JobType
  PROVE  /\ Reopened(j) \in JobType /\ Requeued(j) \in JobType
         /\ Reopened(j).status = "AWAITING_ACK" /\ Requeued(j).status = "QUEUED"
         /\ Reopened(j).chunks = j.chunks
BY DEF JobType, Reopened, Requeued, Statuses, Reasons

(* The literals of the statuses and reasons the code uses. *)
LEMMA Literals ==
  /\ "QUEUED" \in Statuses /\ "RUNNING" \in Statuses /\ "AWAITING_ACK" \in Statuses
  /\ "PARTIAL" \in Statuses /\ "FAILED" \in Statuses /\ "VERIFIED" \in Statuses
  /\ "CANCELLED" \in Statuses
  /\ "none" \in Reasons /\ "missing_heber_acknowledgement" \in Reasons
  /\ "evidence_incomplete" \in Reasons /\ "heber_readiness" \in Reasons
  /\ "chunk_failure" \in Reasons /\ "restart_interrupted" \in Reasons
  /\ "cancelled" \in Reasons
BY DEF Statuses, Reasons

(* A change of one chunk leaves the status alone. *)
LEMMA ChunkStatusUpdate ==
  ASSUME NEW j \in JobType, NEW c \in Chunks, NEW s \in ChunkStatuses
  PROVE  /\ [j EXCEPT !.chunks[c].status = s] \in JobType
         /\ [j EXCEPT !.chunks[c].status = s].status = j.status
BY DEF JobType

LEMMA ProofUpdate ==
  ASSUME NEW j \in JobType, NEW c \in Chunks, NEW p \in Proofs
  PROVE  /\ [j EXCEPT !.chunks[c].proof = p, !.chunks[c].status = "validated"] \in JobType
         /\ [j EXCEPT !.chunks[c].proof = p, !.chunks[c].status = "validated"].status = j.status
<1> DEFINE ch == [j.chunks[c] EXCEPT !.proof = p, !.status = "validated"]
<1>1. j.chunks \in [Chunks -> ChunkType]
  BY JobFields
<1>2. ch \in ChunkType
  BY <1>1 DEF ChunkType, ChunkStatuses, Identities
<1>3. [j.chunks EXCEPT ![c] = ch] \in [Chunks -> ChunkType]
  BY <1>1, <1>2
<1>4. [j EXCEPT !.chunks[c].proof = p, !.chunks[c].status = "validated"]
        = [j EXCEPT !.chunks = [j.chunks EXCEPT ![c] = ch]]
  BY <1>1 DEF JobType, ChunkType
<1>5. [j EXCEPT !.chunks = [j.chunks EXCEPT ![c] = ch]] \in JobType
  BY <1>3 DEF JobType, ChunkType, Identities
<1> QED BY <1>4, <1>5 DEF JobType

LEMMA PublishedAtUpdate ==
  ASSUME NEW j \in JobType, NEW c \in Chunks, NEW n \in 0 .. MaxSubmits
  PROVE  /\ [j EXCEPT !.chunks[c].published_at = n] \in JobType
         /\ [j EXCEPT !.chunks[c].published_at = n].status = j.status
BY DEF JobType

LEMMA AcknowledgedUpdate ==
  ASSUME NEW j \in JobType, NEW c \in Chunks
  PROVE  LET k == [j EXCEPT !.chunks[c].acknowledged = TRUE, !.chunks[c].status = "verified"]
         IN  /\ k \in JobType
             /\ k.status = j.status
             /\ \A d \in Chunks : k.chunks[d].proof = j.chunks[d].proof
<1> DEFINE ch == [j.chunks[c] EXCEPT !.acknowledged = TRUE, !.status = "verified"]
           k == [j EXCEPT !.chunks[c].acknowledged = TRUE, !.chunks[c].status = "verified"]
<1>1. j.chunks \in [Chunks -> ChunkType]
  BY JobFields
<1>2. ch \in ChunkType /\ ch.proof = j.chunks[c].proof
  BY <1>1 DEF ChunkType, ChunkStatuses
<1>3. [j.chunks EXCEPT ![c] = ch] \in [Chunks -> ChunkType]
  BY <1>1, <1>2
<1>4. k = [j EXCEPT !.chunks = [j.chunks EXCEPT ![c] = ch]]
  BY <1>1 DEF JobType, ChunkType
<1>5. [j EXCEPT !.chunks = [j.chunks EXCEPT ![c] = ch]] \in JobType
  BY <1>3 DEF JobType, ChunkType, Identities
<1>6. k.status = j.status /\ k.chunks = [j.chunks EXCEPT ![c] = ch]
  BY <1>4 DEF JobType
<1>7. \A d \in Chunks : k.chunks[d].proof = j.chunks[d].proof
  BY <1>1, <1>2, <1>6
<1> QED BY <1>4, <1>5, <1>6, <1>7

LEMMA NewJobType == NewJob \in JobType /\ NewJob.status = "QUEUED"
<1>1. NewChunk \in ChunkType
  BY BackfillAssumption DEF NewChunk, ChunkType, ChunkStatuses, Identities
<1> QED BY <1>1 DEF NewJob, JobType, ChunkType, Identities, Statuses, Reasons

LEMMA WritersDiffer ==
  /\ Run \in Writers /\ Submission \in Writers /\ Cancellation \in Writers
  /\ Chunks \subseteq Writers
  /\ Run # Submission /\ Run # Cancellation /\ Submission # Cancellation
  /\ Run \notin Chunks /\ Submission \notin Chunks /\ Cancellation \notin Chunks
<1>1. \A c \in Chunks : Len(c) = 2
  BY DEF Chunks
<1>2. Len(Run) = 1 /\ Len(Submission) = 1 /\ Len(Cancellation) = 1
  BY DEF Run, Submission, Cancellation
<1>3. Run[1] = "run" /\ Submission[1] = "submit" /\ Cancellation[1] = "cancel"
  BY DEF Run, Submission, Cancellation
<1>4. Writers = Chunks \cup {Run, Submission, Cancellation}
  BY DEF Writers
<1> QED BY <1>1, <1>2, <1>3, <1>4

-----------------------------------------------------------------------------
(* Types *)

LEMMA InitTypes == Init => Types
<1> SUFFICES ASSUME Init PROVE Types
  OBVIOUS
<1>1. saving \in [Writers -> Jobs]
  BY DEF Init, NoSaves, Jobs
<1>2. at \in [Chunks -> ChunkPlaces]
  BY DEF Init, Idle, ChunkPlaces
<1>3. acks \in [Chunks -> [proof : Identities, at : 0 .. MaxSubmits]]
  BY BackfillAssumption DEF Init, NoAck, Identities
<1>4. /\ committed \in [Chunks -> SUBSET Identities] /\ delivered \in [Chunks -> SUBSET Identities]
      /\ published \in [Chunks -> 0 .. MaxSubmits]
      /\ submits \in 0 .. MaxSubmits /\ cancels \in 0 .. MaxCancels /\ troubles \in 0 .. MaxTroubles
  BY BackfillAssumption DEF Init
<1>5. job \in Jobs /\ store \in Jobs /\ task \in TaskPlaces
  BY DEF Init, Jobs, TaskPlaces
<1> QED BY <1>1, <1>2, <1>3, <1>4, <1>5 DEF Init, Types

(* A dump of a job. *)
LEMMA SaveTypes ==
  ASSUME Types, NEW w \in Writers, NEW j \in JobType, Save(w, j)
  PROVE  job' \in Jobs /\ saving' \in [Writers -> Jobs]
BY DEF Types, Save, Jobs

LEMMA DroppedTypes ==
  ASSUME Types, NEW W \in SUBSET Writers
  PROVE  Dropped(W) \subseteq Jobs
BY DEF Types, Dropped, Jobs

LEMMA SubmissionTypes ==
  ASSUME Types, Turns, Unverified, Counted,
         \/ SubmitBegins \/ SubmitLoads \/ SubmitSaved \/ SubmitRaises \/ Cancel \/ CancelEnds
  PROVE  Types'
<1> USE BackfillAssumption, WritersDiffer
<1>1. CASE SubmitBegins
  BY <1>1 DEF SubmitBegins, Types, run, poll, heber
<1>2. CASE SubmitLoads
  <2> DEFINE j == IF store = NoJob THEN NewJob
                  ELSE IF store.status = "VERIFIED" THEN Reopened(store) ELSE Requeued(store)
  <2>1. j \in JobType
    <3>1. CASE store = NoJob
      BY <3>1, NewJobType
    <3>2. CASE store # NoJob
      <4>1. store \in JobType
        BY <3>2, JobOf DEF Types
      <4> QED BY <3>2, <4>1, Resubmitted
    <3> QED BY <3>1, <3>2
  <2>2. Save(Submission, j) /\ request' \in {"reopening", "saving"}
    BY <1>2 DEF SubmitLoads
  <2>3. job' \in Jobs /\ saving' \in [Writers -> Jobs]
    BY <2>1, <2>2, SaveTypes
  <2> QED BY <1>2, <2>2, <2>3 DEF SubmitLoads, Types, run, poll, heber, bounds
<1>3. CASE SubmitSaved
  BY <1>3 DEF SubmitSaved, Lands, Types, Jobs, TaskPlaces, poll, heber, bounds
<1>4. CASE SubmitRaises
  BY <1>4 DEF SubmitRaises, Raises, Types, Jobs, run, poll, heber
<1>5. CASE Cancel
  <2>1. job \in JobType
    BY <1>5, JobOf DEF Cancel, Types
  <2>2. Blocked(job, "CANCELLED", "cancelled") \in JobType
    BY <2>1, BlockedUpdate, Literals
  <2>3. saving' \in [Writers -> Jobs] /\ job' \in Jobs
    BY <1>5, <2>2 DEF Cancel, Types, Jobs
  <2>4. store' \in Jobs
    BY <1>5, DroppedTypes DEF Cancel
  <2>5. at' \in [Chunks -> ChunkPlaces] /\ task' \in TaskPlaces
    BY <1>5 DEF Cancel, Idle, ChunkPlaces, TaskPlaces
  <2>6. cancels' \in 0 .. MaxCancels
    BY <1>5 DEF Cancel, Types
  <2> QED BY <1>5, <2>3, <2>4, <2>5, <2>6 DEF Cancel, Types, poll, heber
<1>6. CASE CancelEnds
  BY <1>6 DEF CancelEnds, Types, Jobs, run, poll, heber, bounds
<1> QED BY <1>1, <1>2, <1>3, <1>4, <1>5, <1>6

LEMMA RunTypes ==
  ASSUME Types, Turns, Unverified, Counted, RunStarts \/ RunStep
  PROVE  Types'
<1> USE BackfillAssumption, WritersDiffer
<1>1. task # "none" => job \in JobType
  BY JobOf DEF Types, Turns
<1>2. ASSUME NEW s \in Statuses, NEW r \in Reasons, task # "none", Block(s, r)
      PROVE  job' \in Jobs /\ saving' \in [Writers -> Jobs] /\ task' \in TaskPlaces
  <2>1. Blocked(job, s, r) \in JobType
    BY <1>1, <1>2, BlockedUpdate
  <2> QED BY <1>2, <2>1, SaveTypes DEF Block, TaskPlaces
<1>3. CASE RunStarts
  <2>1. [job EXCEPT !.status = "RUNNING"] \in JobType
    BY <1>1, <1>3, StatusUpdate, Literals DEF RunStarts
  <2>2. job' \in Jobs /\ saving' \in [Writers -> Jobs] /\ task' \in TaskPlaces
    BY <1>2, <1>3, <2>1, SaveTypes, Literals DEF RunStarts, TaskPlaces
  <2> QED BY <1>3, <2>2 DEF RunStarts, Types, poll, heber, bounds
<1>4. CASE RunSaved
  <2>1. at' \in [Chunks -> ChunkPlaces] /\ task' \in TaskPlaces
    BY <1>4 DEF RunSaved, Types, Idle, ChunkPlaces, TaskPlaces
  <2> QED BY <1>4, <2>1 DEF RunSaved, Lands, Types, Jobs, poll, heber, bounds
<1>5. CASE RunRaises
  <2>1. seen' = {} /\ all_verified' = TRUE /\ alerted' = FALSE
    BY <1>5 DEF RunRaises, NewPoll, NewRound
  <2>2. task' \in TaskPlaces /\ store' \in Jobs /\ saving' \in [Writers -> Jobs]
    BY <1>5 DEF RunRaises, Raises, Types, Jobs, TaskPlaces
  <2>3. troubles' \in 0 .. MaxTroubles /\ saveLost' \in BOOLEAN
    BY <1>5 DEF RunRaises, Raises, Types
  <2> QED BY <1>5, <2>1, <2>2, <2>3 DEF RunRaises, Raises, Types, heber
<1>6. CASE RunEnds
  <2>1. [job EXCEPT !.status = "AWAITING_ACK", !.completed = TRUE] \in JobType
    BY <1>1, <1>6, StatusUpdate, Literals DEF RunEnds
  <2>2. job' \in Jobs /\ saving' \in [Writers -> Jobs] /\ task' \in TaskPlaces
    BY <1>2, <1>6, <2>1, SaveTypes, Literals DEF RunEnds, TaskPlaces
  <2> QED BY <1>6, <2>2 DEF RunEnds, Types, poll, heber, bounds
<1>7. CASE VerifyBegins
  <2>1. job' \in Jobs /\ saving' \in [Writers -> Jobs] /\ task' \in TaskPlaces
    BY <1>2, <1>7, Literals DEF VerifyBegins, Types, TaskPlaces
  <2> QED BY <1>7, <2>1 DEF VerifyBegins, NewPoll, NewRound, Types, poll, heber, bounds
<1>8. CASE RoundEnds
  <2>1. /\ Blocked(job, "VERIFIED", "none") \in JobType
        /\ Blocked(job, "PARTIAL", "missing_heber_acknowledgement") \in JobType
    BY <1>1, <1>8, BlockedUpdate, Literals DEF RoundEnds
  <2>2. job' \in Jobs /\ saving' \in [Writers -> Jobs]
    BY <1>8, <2>1, SaveTypes DEF RoundEnds, Types, Blocked
  <2>3. /\ task' \in TaskPlaces /\ alerted' \in BOOLEAN
        /\ seen' = {} /\ all_verified' = TRUE
    BY <1>8 DEF RoundEnds, NewRound, Types, TaskPlaces
  <2> QED BY <1>8, <2>2, <2>3 DEF RoundEnds, Types, heber, bounds
<1>9. ASSUME NEW c \in Chunks, ReadAck(c) PROVE Types'
  <2>1. [job EXCEPT !.chunks[c].acknowledged = TRUE, !.chunks[c].status = "verified"] \in JobType
    BY <1>1, <1>9, AcknowledgedUpdate DEF ReadAck
  <2>2. job' \in Jobs /\ seen' \subseteq Chunks /\ all_verified' \in BOOLEAN
    BY <1>9, <2>1 DEF ReadAck, Types, Jobs, AckMatches
  <2> QED BY <1>9, <2>2 DEF ReadAck, Types, run, heber, bounds
<1>10. ASSUME NEW c \in Chunks, ReadAckFails(c) PROVE Types'
  <2>1. troubles' \in 0 .. MaxTroubles
    BY <1>10 DEF ReadAckFails, Types
  <2> QED BY <1>10, <2>1 DEF ReadAckFails, Types, run, heber
<1> QED BY <1>3, <1>4, <1>5, <1>6, <1>7, <1>8, <1>9, <1>10 DEF RunStep

LEMMA ChunkTypes ==
  ASSUME Types, Turns, Unverified, Counted, NEW c \in Chunks, ChunkStep(c) \/ HeberCommits(c)
  PROVE  Types'
<1> USE BackfillAssumption, WritersDiffer
<1>1. at[c] # "idle" /\ at[c] # "done" => task = "days"
  BY DEF Turns, Busy
<1>2. task = "days" => job \in JobType
  BY JobOf DEF Types, Turns
<1>3. ASSUME task = "days", NEW s \in ChunkStatuses
      PROVE  [job EXCEPT !.chunks[c].status = s] \in JobType
  BY <1>2, <1>3, ChunkStatusUpdate
<1>4. ASSUME ChunkFails(c), task = "days"
      PROVE  /\ job' \in Jobs /\ saving' \in [Writers -> Jobs]
             /\ errors' \subseteq Symbols /\ at' \in [Chunks -> ChunkPlaces]
  <2>1. "failed" \in ChunkStatuses
    BY DEF ChunkStatuses
  <2>2. [job EXCEPT !.chunks[c].status = "failed"] \in JobType
    BY <1>3, <1>4, <2>1
  <2>3. job' \in Jobs /\ saving' \in [Writers -> Jobs]
    BY <1>4, <2>2, SaveTypes DEF ChunkFails
  <2>4. c[1] \in Symbols
    BY DEF Chunks
  <2> QED BY <1>4, <2>3, <2>4 DEF ChunkFails, Types, ChunkPlaces
<1>5. CASE ProcessChunk(c)
  <2>1. CASE UNCHANGED <<job, saving, errors>> /\ at' = [at EXCEPT ![c] = "done"]
    BY <1>5, <2>1 DEF ProcessChunk, Types, ChunkPlaces, poll, heber, bounds
  <2>2. CASE ChunkFails(c)
    BY <1>5, <2>2, <1>4 DEF ProcessChunk, Types, poll, heber, bounds
  <2>3. ASSUME NEW p \in Proofs,
               Save(c, [job EXCEPT !.chunks[c].proof = p, !.chunks[c].status = "validated"]),
               at' = [at EXCEPT ![c] = "recording"], UNCHANGED errors
        PROVE  Types'
    <3>2. [job EXCEPT !.chunks[c].proof = p, !.chunks[c].status = "validated"] \in JobType
      BY <1>5, <1>2, ProofUpdate DEF ProcessChunk
    <3>3. job' \in Jobs /\ saving' \in [Writers -> Jobs]
      BY <2>3, <3>2, SaveTypes
    <3> QED BY <1>5, <2>3, <3>3 DEF ProcessChunk, Types, ChunkPlaces, poll, heber, bounds
  <2> QED BY <1>5, <2>1, <2>2, <2>3 DEF ProcessChunk, Fetched
<1>13. CASE FetchFails(c)
  <2>1. troubles' \in 0 .. MaxTroubles
    BY <1>13 DEF FetchFails, Types
  <2> QED BY <1>4, <1>13, <2>1 DEF FetchFails, Types, poll, heber
<1>6. CASE ChunkSaved(c)
  <2>1. store' \in Jobs /\ saving' \in [Writers -> Jobs]
    BY <1>6 DEF ChunkSaved, Lands, Types, Jobs
  <2>2. at' \in [Chunks -> ChunkPlaces]
    BY <1>6 DEF ChunkSaved, Types, ChunkPlaces
  <2>3. published' \in [Chunks -> 0 .. MaxSubmits] /\ job' \in Jobs
    <3>1. CASE at[c] # "recording"
      BY <1>6, <3>1 DEF ChunkSaved, Types
    <3>2. CASE at[c] = "recording"
      <4>1. published[c] < submits
        BY <1>1, <3>2 DEF Counted, Unpublished
      <4>2. published[c] + 1 \in 0 .. MaxSubmits
        BY <4>1 DEF Types
      <4>3. published' = [published EXCEPT ![c] = published[c] + 1]
        BY <1>6, <3>2 DEF ChunkSaved
      <4>4. published' \in [Chunks -> 0 .. MaxSubmits] /\ published'[c] \in 0 .. MaxSubmits
        BY <4>2, <4>3 DEF Types
      <4>5. job' = [job EXCEPT !.chunks[c].published_at = published'[c]]
        BY <1>6, <3>2 DEF ChunkSaved
      <4>6. job' \in JobType
        BY <1>1, <1>2, <3>2, <4>4, <4>5, PublishedAtUpdate
      <4> QED BY <4>4, <4>6 DEF Jobs
    <3> QED BY <3>1, <3>2
  <2> QED BY <1>6, <2>1, <2>2, <2>3 DEF ChunkSaved, Types, poll, bounds
<1>7. CASE ChunkRaises(c)
  <2>1. store' \in Jobs
    BY <1>7 DEF ChunkRaises, Types
  <2>2. troubles' \in 0 .. MaxTroubles
    BY <1>7 DEF ChunkRaises, Types
  <2>3. CASE ChunkFails(c)
    BY <1>1, <1>4, <1>7, <2>1, <2>2, <2>3 DEF ChunkRaises, Types, poll, heber
  <2>4. CASE ~ChunkFails(c)
    BY <1>7, <2>1, <2>2, <2>4 DEF ChunkRaises, Types, Jobs, ChunkPlaces, poll, heber
  <2> QED BY <2>3, <2>4
<1>8. at[c] = "publishing" => job.chunks[c].proof \in Identities
  BY <1>1, <1>2 DEF JobType, Identities
<1>9. CASE PublishAll(c)
  <2>1. "published" \in ChunkStatuses
    BY DEF ChunkStatuses
  <2>2. job' \in Jobs /\ saving' \in [Writers -> Jobs]
    BY <1>1, <1>3, <1>9, <2>1, SaveTypes DEF PublishAll
  <2>3. delivered' \in [Chunks -> SUBSET Identities]
    BY <1>8, <1>9 DEF PublishAll, Types
  <2> QED BY <1>9, <2>2, <2>3 DEF PublishAll, Types, ChunkPlaces, poll, bounds
<1>10. CASE PublishSome(c)
  <2>1. "partial" \in ChunkStatuses /\ c[1] \in Symbols
    BY DEF ChunkStatuses, Chunks
  <2>2. job' \in Jobs /\ saving' \in [Writers -> Jobs]
    BY <1>1, <1>3, <1>10, <2>1, SaveTypes DEF PublishSome
  <2>3. delivered' \in [Chunks -> SUBSET Identities]
    BY <1>8, <1>10 DEF PublishSome, Types
  <2>4. troubles' \in 0 .. MaxTroubles
    BY <1>10 DEF PublishSome, Types
  <2> QED BY <1>10, <2>1, <2>2, <2>3, <2>4 DEF PublishSome, Types, ChunkPlaces, poll
<1>11. CASE PublishRefused(c)
  <2>1. troubles' \in 0 .. MaxTroubles
    BY <1>11 DEF PublishRefused, Types
  <2> QED BY <1>1, <1>4, <1>11, <2>1 DEF PublishRefused, Types, poll, heber
<1>12. CASE HeberCommits(c)
  <2>1. PICK p \in delivered[c] :
          /\ acks' = [acks EXCEPT ![c] = [proof |-> p, at |-> published[c]]]
          /\ committed' = [committed EXCEPT ![c] = @ \cup {p}]
    BY <1>12 DEF HeberCommits
  <2>2. p \in Identities
    BY DEF Types
  <2>3. acks' \in [Chunks -> [proof : Identities, at : 0 .. MaxSubmits]]
    BY <2>1, <2>2 DEF Types
  <2>4. committed' \in [Chunks -> SUBSET Identities]
    BY <2>1, <2>2 DEF Types
  <2> QED BY <1>12, <2>3, <2>4 DEF HeberCommits, Types, run, poll, bounds
<1> QED BY <1>5, <1>6, <1>7, <1>9, <1>10, <1>11, <1>12, <1>13 DEF ChunkStep

LEMMA ProcessTypes ==
  ASSUME Types, Turns, Crash \/ Shutdown \/ Start
  PROVE  Types'
<1> USE BackfillAssumption, WritersDiffer
<1>1. ASSUME NEW M \in SUBSET Jobs, Ends(M) PROVE Types'
  <2>1. saving' \in [Writers -> Jobs] /\ at' \in [Chunks -> ChunkPlaces]
    BY <1>1 DEF Ends, NoSaves, Jobs, Idle, ChunkPlaces
  <2>2. troubles' \in 0 .. MaxTroubles
    BY <1>1 DEF Ends, Types
  <2>3. store' \in Jobs /\ job' \in Jobs /\ task' \in TaskPlaces
    BY <1>1 DEF Ends, Jobs, TaskPlaces
  <2> QED BY <1>1, <2>1, <2>2, <2>3 DEF Ends, NewPoll, NewRound, Types, poll, heber
<1>2. CASE Crash
  BY <1>1, <1>2, DroppedTypes DEF Crash
<1>3. CASE Shutdown
  <2>1. CASE task = "days"
    <3>1. job \in JobType
      BY <2>1, JobOf DEF Types, Turns
    <3>2. Blocked(job, "CANCELLED", "cancelled") \in Jobs
      BY <3>1, BlockedUpdate, Literals DEF Jobs
    <3> QED BY <1>1, <1>3, <2>1, <3>2 DEF Shutdown
  <2>2. CASE task # "days"
    BY <1>1, <1>3, <2>2, DroppedTypes DEF Shutdown
  <2> QED BY <2>1, <2>2
<1>4. CASE Start
  <2>1. CASE store = NoJob
    BY <1>4, <2>1 DEF Start, Types, poll, heber, bounds
  <2>2. CASE store # NoJob
    <3>1. store \in JobType
      BY <2>2, JobOf DEF Types
    <3>2. Restored(store) \in JobType
      BY <3>1, BlockedUpdate, Resubmitted, Literals DEF Restored
    <3>3. [Restored(store) EXCEPT !.status = "AWAITING_ACK"] \in JobType
      BY <3>2, StatusUpdate, Literals
    <3>4. /\ store' = Restored(store)
          /\ job' \in {store', [store' EXCEPT !.status = "AWAITING_ACK"]}
          /\ task' \in {task, "evidence"}
      BY <1>4, <2>2 DEF Start
    <3>5. store' \in Jobs /\ job' \in Jobs /\ task' \in TaskPlaces
      BY <3>2, <3>3, <3>4 DEF Jobs, Types, TaskPlaces
    <3> QED BY <1>4, <3>5 DEF Start, Types, poll, heber, bounds
  <2> QED BY <2>1, <2>2
<1> QED BY <1>2, <1>3, <1>4

LEMMA NextTypes == Types /\ Turns /\ Unverified /\ Counted /\ [Next]_vars => Types'
<1> SUFFICES ASSUME Types, Turns, Unverified, Counted, [Next]_vars PROVE Types'
  OBVIOUS
<1>1. CASE UNCHANGED vars
  BY <1>1 DEF vars, Types, run, poll, heber, bounds
<1> QED BY <1>1, SubmissionTypes, RunTypes, ChunkTypes, ProcessTypes DEF Next, RequestStep

-----------------------------------------------------------------------------
(* Turns, and how often a chunk is published *)

LEMMA InitTurns == Init => Turns /\ Counted /\ Downstream
<1> SUFFICES ASSUME Init PROVE Turns /\ Counted /\ Downstream
  OBVIOUS
<1>1. \A w \in Writers : saving[w] = NoJob
  BY DEF Init, NoSaves
<1>2. Turns
  BY <1>1, WritersDiffer DEF Init, Turns, RunSaves, ChunkSaves, Busy, Idle
<1>3. Counted /\ Downstream
  BY DEF Init, Counted, Downstream, Unpublished
<1> QED BY <1>2, <1>3

(* Steps that leave the chunks and the run's own save alone. *)
LEMMA TurnsApart ==
  ASSUME Types, Turns, UNCHANGED <<at, up>>,
         \A w \in Chunks \cup {Run} : saving'[w] = saving[w],
         task' \in RunSaves <=> task \in RunSaves,
         task = "days" => task' = "days",
         request' # "idle" => task' = "none" /\ up,
         task' # "none" => up /\ job' # NoJob
  PROVE  Turns'
BY DEF Turns, Busy, InTurn

(* Steps of the task while no chunk is under way. *)
LEMMA TurnsOfRun ==
  ASSUME Types, Turns, task' # "days", UNCHANGED <<at, up, request>>,
         task # "days" \/ \A c \in Chunks : at[c] = "done",
         task # "none", job' # NoJob,
         saving'[Run] # NoJob <=> task' \in RunSaves,
         \A w \in Chunks : saving'[w] = saving[w]
  PROVE  Turns'
BY DEF Turns, Busy, InTurn

(* Steps of one chunk, in its turn. *)
LEMMA TurnsOfChunk ==
  ASSUME Types, Turns, NEW c \in Chunks, NEW x \in ChunkPlaces,
         task = "days", InTurn(c), at[c] # "done", at' = [at EXCEPT ![c] = x],
         UNCHANGED <<up, request, task>>, job' # NoJob,
         saving'[c] # NoJob <=> x \in ChunkSaves,
         \A w \in Writers \ {c} : saving'[w] = saving[w]
  PROVE  Turns'
<1>1. saving'[Run] = saving[Run]
  BY WritersDiffer
<1>2. \A d \in Chunks : d[2] \in 1 .. Days
  BY DEF Chunks
<1>3. ASSUME NEW d \in Chunks, Busy(d)' PROVE InTurn(d)'
  <2>1. InTurn(d)
    BY <1>3 DEF Busy, Turns, Types
  <2>2. ~(c[2] < d[2])
    BY <2>1 DEF InTurn
  <2> QED BY <2>1, <2>2 DEF InTurn, Types
<1>4. ASSUME NEW d \in Chunks PROVE saving'[d] # NoJob <=> at'[d] \in ChunkSaves
  <2>1. CASE d = c
    BY <2>1 DEF Types
  <2>2. CASE d # c
    BY <2>2, WritersDiffer DEF Types, Turns
  <2> QED BY <2>1, <2>2
<1> QED BY <1>1, <1>3, <1>4 DEF Turns, RunSaves

(* Counts change with a submission and a publication only. *)
LEMMA CountedApart ==
  ASSUME Counted, UNCHANGED <<published, submits>>,
         \A c \in Chunks : Unpublished(c)' => Unpublished(c)
  PROVE  Counted'
BY DEF Counted

LEMMA SubmissionTurns ==
  ASSUME Types, Types', Turns, Counted, Unverified,
         \/ SubmitBegins \/ SubmitLoads \/ SubmitSaved \/ SubmitRaises \/ Cancel \/ CancelEnds
  PROVE  Turns' /\ Counted'
<1> USE WritersDiffer
<1>1. CASE SubmitBegins
  <2>1. Turns'
    BY <1>1, TurnsApart DEF SubmitBegins, run
  <2>2. Counted'
    BY <1>1 DEF SubmitBegins, Counted, Unpublished, Types, heber, run
  <2> QED BY <2>1, <2>2
<1>2. CASE SubmitLoads
  <2>1. /\ \A w \in Chunks \cup {Run} : saving'[w] = saving[w]
        /\ request = "loading" /\ request' \in {"reopening", "saving"}
        /\ UNCHANGED <<at, up, task, published, submits>>
    BY <1>2 DEF SubmitLoads, Save, Types, run, heber, bounds
  <2>2. task = "none" /\ up
    BY <2>1 DEF Turns
  <2>3. Turns'
    BY <2>1, <2>2, TurnsApart
  <2>4. Counted'
    BY <2>1, <2>2, CountedApart DEF Unpublished
  <2> QED BY <2>3, <2>4
<1>3. CASE SubmitSaved
  <2>1. /\ \A w \in Chunks \cup {Run} : saving'[w] = saving[w]
        /\ request \in {"saving", "reopening"} /\ request' = "idle"
        /\ task' = (IF request = "saving" THEN "waiting" ELSE "evidence")
        /\ UNCHANGED <<at, up, job, published, submits>>
    BY <1>3 DEF SubmitSaved, Lands, Types, heber, bounds
  <2>2. task = "none" /\ up /\ job # NoJob
    BY <2>1 DEF Turns, Unverified, Running
  <2>3. Turns'
    BY <2>1, <2>2, TurnsApart DEF RunSaves
  <2>4. Counted'
    BY <2>1, <2>2, CountedApart DEF Unpublished
  <2> QED BY <2>3, <2>4
<1>4. CASE SubmitRaises
  <2>1. /\ \A w \in Chunks \cup {Run} : saving'[w] = saving[w]
        /\ request \in {"saving", "reopening"} /\ request' = "idle"
        /\ UNCHANGED <<at, up, job, task, published, submits>>
    BY <1>4 DEF SubmitRaises, Raises, Types, run, heber
  <2>2. task = "none" /\ up
    BY <2>1 DEF Turns
  <2>3. Turns'
    BY <2>1, <2>2, TurnsApart DEF RunSaves
  <2>4. Counted'
    BY <2>1, <2>2, CountedApart DEF Unpublished
  <2> QED BY <2>3, <2>4
<1>5. CASE Cancel
  <2> DEFINE gone == Blocked(job, "CANCELLED", "cancelled")
  <2>1. gone \in JobType /\ gone # NoJob
    BY <1>5, JobOf, BlockedUpdate, Literals, NoJobAssumption DEF Cancel, Types
  <2>2. /\ \A c \in Chunks : saving'[c] = NoJob
        /\ saving'[Run] = IF task = "days" THEN gone ELSE NoJob
        /\ job' = gone
    BY <1>5 DEF Cancel
  <2>3. /\ task' = (IF task = "days" THEN "cancelling" ELSE "none")
        /\ at' = Idle /\ up /\ UNCHANGED <<up, request, published, submits>>
    BY <1>5 DEF Cancel, heber
  <2>4. \A c \in Chunks : ~Busy(c)' /\ at'[c] \notin ChunkSaves
    BY <2>3 DEF Busy, Idle, ChunkSaves
  <2>5. Turns'
    BY <2>1, <2>2, <2>3, <2>4 DEF Turns, RunSaves
  <2>6. Counted'
    BY <2>3, CountedApart DEF Unpublished
  <2> QED BY <2>5, <2>6
<1>6. CASE CancelEnds
  <2>1. /\ \A w \in Chunks \cup {Run} : saving'[w] = saving[w]
        /\ UNCHANGED <<at, up, job, task, request, published, submits>>
    BY <1>6 DEF CancelEnds, Types, run, heber, bounds
  <2>2. Turns'
    BY <2>1, TurnsApart DEF Turns
  <2>3. Counted'
    BY <2>1, CountedApart DEF Unpublished
  <2> QED BY <2>2, <2>3
<1> QED BY <1>1, <1>2, <1>3, <1>4, <1>5, <1>6

LEMMA RunTurns ==
  ASSUME Types, Types', Turns, Counted, Unverified, RunStarts \/ RunStep
  PROVE  Turns' /\ Counted'
<1> USE WritersDiffer
<1>1. task # "none" => job \in JobType
  BY JobOf DEF Types, Turns
<1>2. ASSUME NEW s \in Statuses, NEW r \in Reasons, task # "none", Block(s, r)
      PROVE  /\ job' # NoJob /\ saving'[Run] # NoJob /\ task' = "blocking"
             /\ \A w \in Chunks : saving'[w] = saving[w]
  BY <1>1, <1>2, BlockedUpdate, NoJobAssumption DEF Block, Save, Types
<1>3. ASSUME NEW j \in JobType, Save(Run, j)
      PROVE  /\ job' # NoJob /\ saving'[Run] # NoJob
             /\ \A w \in Chunks : saving'[w] = saving[w]
  BY <1>3, NoJobAssumption DEF Save, Types
<1>4. CASE RunStarts
  <2>1. [job EXCEPT !.status = "RUNNING"] \in JobType
    BY <1>1, <1>4, StatusUpdate, Literals DEF RunStarts
  <2>2. /\ job' # NoJob /\ saving'[Run] # NoJob /\ task' \in {"starting", "blocking"}
        /\ \A w \in Chunks : saving'[w] = saving[w]
    BY <1>2, <1>3, <1>4, <2>1, Literals DEF RunStarts
  <2>3. task = "waiting" /\ UNCHANGED <<at, up, request, published, submits>>
    BY <1>4 DEF RunStarts, heber, bounds
  <2>4. Turns'
    BY <2>2, <2>3, TurnsOfRun DEF RunSaves
  <2>5. Counted'
    BY <2>2, <2>3, CountedApart DEF Unpublished
  <2> QED BY <2>4, <2>5
<1>5. CASE RunSaved
  <2>1. /\ task \in RunSaves /\ UNCHANGED <<up, request, job, published, submits>>
        /\ task' = CASE task = "starting" -> "days"
                     [] task = "closing" -> "evidence"
                     [] task = "alerting" -> "verify"
                     [] OTHER -> "none"
        /\ at' = IF task = "starting" THEN Idle ELSE at
        /\ saving'[Run] = NoJob /\ \A w \in Chunks : saving'[w] = saving[w]
    BY <1>5 DEF RunSaved, Lands, RunSaves, Types, heber, bounds
  <2>2. job # NoJob /\ up /\ request = "idle"
    BY <2>1 DEF Turns, RunSaves
  <2>3. \A c \in Chunks : at[c] \notin ChunkSaves /\ ~Busy(c) /\ saving[c] = NoJob
    BY <2>1 DEF Turns, Busy, RunSaves, ChunkSaves
  <2>4. \A c \in Chunks : at'[c] \notin ChunkSaves /\ ~Busy(c)'
    BY <2>1, <2>3 DEF Busy, Idle, ChunkSaves
  <2>5. task' \notin RunSaves
    BY <2>1 DEF RunSaves
  <2>6. Turns'
    BY <2>1, <2>2, <2>3, <2>4, <2>5 DEF Turns
  <2>7. Counted'
    BY <2>1, CountedApart DEF Unpublished, Idle, RunSaves
  <2> QED BY <2>6, <2>7
<1>6. CASE RunRaises
  <2>1. /\ task \in RunSaves /\ UNCHANGED <<at, up, request, job, published, submits>>
        /\ task' = "none"
        /\ saving'[Run] = NoJob /\ \A w \in Chunks : saving'[w] = saving[w]
    BY <1>6 DEF RunRaises, Raises, RunSaves, Types, heber
  <2>2. task # "none" /\ task # "days" /\ job' # NoJob /\ task' \notin RunSaves
    BY <2>1 DEF Turns, RunSaves
  <2>3. Turns'
    BY <2>1, <2>2, TurnsOfRun
  <2>4. Counted'
    BY <2>1, CountedApart DEF Unpublished
  <2> QED BY <2>3, <2>4
<1>7. CASE RunEnds
  <2>1. [job EXCEPT !.status = "AWAITING_ACK", !.completed = TRUE] \in JobType
    BY <1>1, <1>7, StatusUpdate, Literals DEF RunEnds
  <2>2. /\ job' # NoJob /\ saving'[Run] # NoJob /\ task' \in {"closing", "blocking"}
        /\ \A w \in Chunks : saving'[w] = saving[w]
    BY <1>2, <1>3, <1>7, <2>1, Literals DEF RunEnds
  <2>3. /\ task = "days" /\ \A c \in Chunks : at[c] = "done"
        /\ UNCHANGED <<at, up, request, published, submits>>
    BY <1>7 DEF RunEnds, heber, bounds
  <2>4. Turns'
    BY <2>2, <2>3, TurnsOfRun DEF RunSaves
  <2>5. Counted'
    BY <2>2, <2>3, CountedApart DEF Unpublished
  <2> QED BY <2>4, <2>5
<1>8. CASE VerifyBegins
  <2>1. task = "evidence" /\ UNCHANGED <<at, up, request, published, submits>>
    BY <1>8 DEF VerifyBegins, heber, bounds
  <2>2. \/ task' = "verify" /\ UNCHANGED <<job, saving>>
        \/ /\ job' # NoJob /\ saving'[Run] # NoJob /\ task' = "blocking"
           /\ \A w \in Chunks : saving'[w] = saving[w]
    BY <1>2, <1>8, <2>1, Literals DEF VerifyBegins
  <2>3. job # NoJob /\ saving[Run] = NoJob
    BY <2>1 DEF Turns, RunSaves
  <2>4. Turns'
    BY <2>1, <2>2, <2>3, TurnsOfRun DEF RunSaves
  <2>5. Counted'
    BY <2>1, <2>2, CountedApart DEF Unpublished
  <2> QED BY <2>4, <2>5
<1>9. CASE RoundEnds
  <2>1. task = "verify" /\ UNCHANGED <<at, up, request, published, submits>>
    BY <1>9 DEF RoundEnds, heber, bounds
  <2>2. /\ Blocked(job, "VERIFIED", "none") \in JobType
        /\ Blocked(job, "PARTIAL", "missing_heber_acknowledgement") \in JobType
    BY <1>1, <2>1, BlockedUpdate, Literals
  <2>3. \/ UNCHANGED <<job, saving, task>>
        \/ /\ job' # NoJob /\ saving'[Run] # NoJob /\ task' \in {"blocking", "alerting"}
           /\ \A w \in Chunks : saving'[w] = saving[w]
    BY <1>3, <1>9, <2>2 DEF RoundEnds, Blocked
  <2>4. job # NoJob /\ saving[Run] = NoJob
    BY <2>1 DEF Turns, RunSaves
  <2>5. Turns'
    BY <2>1, <2>3, <2>4, TurnsOfRun DEF RunSaves
  <2>6. Counted'
    BY <2>1, <2>3, CountedApart DEF Unpublished
  <2> QED BY <2>5, <2>6
<1>10. ASSUME NEW c \in Chunks, ReadAck(c) \/ ReadAckFails(c) PROVE Turns' /\ Counted'
  <2>1. task = "verify" /\ UNCHANGED <<at, up, request, task, saving, published, submits>>
    BY <1>10 DEF ReadAck, ReadAckFails, run, heber, bounds
  <2>2. job \in JobType /\ job # NoJob
    BY <1>1, <2>1, NoJobAssumption
  <2>3. job' # NoJob
    <3>1. [job EXCEPT !.chunks[c].acknowledged = TRUE, !.chunks[c].status = "verified"] \in JobType
      BY <2>2, AcknowledgedUpdate
    <3>2. \/ job' = job
          \/ job' = [job EXCEPT !.chunks[c].acknowledged = TRUE, !.chunks[c].status = "verified"]
      BY <1>10 DEF ReadAck, ReadAckFails
    <3> QED BY <2>2, <3>1, <3>2, NoJobAssumption
  <2>4. Turns'
    BY <2>1, <2>3, TurnsApart DEF Turns
  <2>5. Counted'
    BY <2>1, CountedApart DEF Unpublished
  <2> QED BY <2>4, <2>5
<1> QED BY <1>4, <1>5, <1>6, <1>7, <1>8, <1>9, <1>10 DEF RunStep

LEMMA ChunkTurns ==
  ASSUME Types, Types', Turns, Counted, Unverified,
         NEW c \in Chunks, ChunkStep(c) \/ HeberCommits(c)
  PROVE  Turns' /\ Counted'
<1> USE WritersDiffer
<1>1. task = "days" => job \in JobType
  BY JobOf DEF Types, Turns
<1>2. at[c] \notin {"idle", "done"} => task = "days" /\ InTurn(c)
  BY DEF Turns, Busy
(* The chunk goes to x with or without a dump, and is counted if it was published. *)
<1>3. ASSUME NEW x \in ChunkPlaces, task = "days", InTurn(c), at[c] # "done",
             at' = [at EXCEPT ![c] = x], UNCHANGED <<up, request, task, submits>>,
             job' # NoJob, saving'[c] # NoJob <=> x \in ChunkSaves,
             \A w \in Writers \ {c} : saving'[w] = saving[w],
             x \in {"publishing", "noting", "failing", "done"} \/ at[c] \in {"idle", "recording"},
             \/ published' = published
             \/ /\ at[c] = "recording" /\ x = "publishing"
                /\ published' = [published EXCEPT ![c] = @ + 1]
      PROVE  Turns' /\ Counted'
  <2>1. Turns'
    BY <1>3, TurnsOfChunk
  <2>2. request = "idle"
    BY <1>3 DEF Turns
  <2>3. \A d \in Chunks : Unpublished(d)' => Unpublished(d)
    BY <1>3, <2>2 DEF Unpublished, Types
  <2>4. CASE published' = published
    <3>1. UNCHANGED <<published, submits>>
      BY <1>3, <2>4
    <3> QED BY <2>1, <2>3, <3>1, CountedApart DEF Unpublished
  <2>5. CASE /\ at[c] = "recording" /\ x = "publishing"
             /\ published' = [published EXCEPT ![c] = @ + 1]
    <3>1. published[c] < submits
      BY <1>3, <2>5 DEF Counted, Unpublished
    <3>2. ~Unpublished(c)'
      BY <1>3, <2>2, <2>5 DEF Unpublished, Types
    <3>3. \A d \in Chunks : published[d] \in Nat
      BY DEF Types
    <3>4. submits \in Nat
      BY DEF Types
    <3>5. submits' = submits /\ published'[c] = published[c] + 1
      BY <1>3, <2>5 DEF Types
    <3>6. \A d \in Chunks \ {c} : published'[d] = published[d]
      BY <2>5 DEF Types
    <3>7. ASSUME NEW d \in Chunks
          PROVE  published'[d] <= submits' /\ (Unpublished(d)' => published'[d] < submits')
      <4>1. CASE d = c
        BY <3>1, <3>2, <3>3, <3>4, <3>5, <4>1
      <4>2. CASE d # c
        BY <2>3, <3>5, <3>6, <4>2 DEF Counted
      <4> QED BY <4>1, <4>2
    <3> QED BY <2>1, <3>7 DEF Counted, Unpublished
  <2> QED BY <1>3, <2>1, <2>4, <2>5
<1>4. ASSUME NEW j \in JobType, Save(c, j)
      PROVE  job' # NoJob /\ saving'[c] # NoJob /\ \A w \in Writers \ {c} : saving'[w] = saving[w]
  BY <1>4, NoJobAssumption DEF Save, Types
<1>5. ASSUME NEW s \in ChunkStatuses, task = "days", Save(c, [job EXCEPT !.chunks[c].status = s])
      PROVE  job' # NoJob /\ saving'[c] # NoJob /\ \A w \in Writers \ {c} : saving'[w] = saving[w]
  BY <1>1, <1>4, <1>5, ChunkStatusUpdate
<1>6. {"published", "partial", "failed"} \subseteq ChunkStatuses
  BY DEF ChunkStatuses
<1>7. CASE ProcessChunk(c) \/ FetchFails(c)
  <2>1. /\ task = "days" /\ InTurn(c) /\ at[c] = "idle"
        /\ UNCHANGED <<up, request, task, submits, published>>
    BY <1>7 DEF ProcessChunk, FetchFails, heber, bounds
  <2>2. saving[c] = NoJob /\ job # NoJob
    BY <2>1 DEF Turns, ChunkSaves
  <2>3. CASE UNCHANGED <<job, saving, errors>> /\ at' = [at EXCEPT ![c] = "done"]
    BY <1>3, <2>1, <2>2, <2>3 DEF ChunkPlaces, ChunkSaves
  <2>4. CASE ChunkFails(c)
    BY <1>3, <1>5, <1>6, <2>1, <2>4 DEF ChunkFails, ChunkPlaces, ChunkSaves
  <2>5. ASSUME NEW p \in Proofs,
               Save(c, [job EXCEPT !.chunks[c].proof = p, !.chunks[c].status = "validated"]),
               at' = [at EXCEPT ![c] = "recording"]
        PROVE  Turns' /\ Counted'
    <3>1. job' # NoJob /\ saving'[c] # NoJob /\ \A w \in Writers \ {c} : saving'[w] = saving[w]
      BY <1>1, <1>4, <2>1, <2>5, ProofUpdate
    <3> QED BY <1>3, <2>1, <2>5, <3>1 DEF ChunkPlaces, ChunkSaves
  <2> QED BY <1>7, <2>3, <2>4, <2>5 DEF ProcessChunk, Fetched, FetchFails
<1>8. CASE ChunkSaved(c)
  <2>1. /\ at[c] \in ChunkSaves /\ UNCHANGED <<up, request, task, submits>>
        /\ saving'[c] = NoJob /\ \A w \in Writers \ {c} : saving'[w] = saving[w]
    BY <1>8 DEF ChunkSaved, Lands, ChunkSaves, Types, bounds
  <2>2. task = "days" /\ InTurn(c) /\ at[c] # "done" /\ job # NoJob
    BY <1>2, <2>1 DEF ChunkSaves, Turns
  <2>3. CASE at[c] = "recording"
    <3>1. /\ at' = [at EXCEPT ![c] = "publishing"]
          /\ published' = [published EXCEPT ![c] = @ + 1]
          /\ job' = [job EXCEPT !.chunks[c].published_at = published'[c]]
      BY <1>8, <2>3 DEF ChunkSaved
    <3>2. published'[c] \in 0 .. MaxSubmits
      BY DEF Types
    <3>3. job' # NoJob
      BY <1>1, <2>2, <3>1, <3>2, PublishedAtUpdate, NoJobAssumption
    <3> QED BY <1>3, <2>1, <2>2, <2>3, <3>1, <3>3 DEF ChunkPlaces, ChunkSaves
  <2>4. CASE at[c] # "recording"
    <3>1. at' = [at EXCEPT ![c] = "done"] /\ UNCHANGED <<job, published>>
      BY <1>8, <2>4 DEF ChunkSaved
    <3> QED BY <1>3, <2>1, <2>2, <3>1 DEF ChunkPlaces, ChunkSaves
  <2> QED BY <2>3, <2>4
<1>9. CASE ChunkRaises(c)
  <2>1. /\ at[c] \in ChunkSaves /\ UNCHANGED <<up, request, task, submits, published>>
        /\ ~ChunkFails(c) =>
             /\ saving' = [saving EXCEPT ![c] = NoJob] /\ UNCHANGED job
             /\ at' = [at EXCEPT ![c] = "done"]
    BY <1>9 DEF ChunkRaises, ChunkSaves, heber
  <2>2. task = "days" /\ InTurn(c) /\ at[c] # "done" /\ job # NoJob
    BY <1>2, <2>1 DEF ChunkSaves, Turns
  <2>3. CASE ChunkFails(c)
    BY <1>3, <1>5, <1>6, <2>1, <2>2, <2>3 DEF ChunkFails, ChunkPlaces, ChunkSaves
  <2>4. CASE ~ChunkFails(c)
    <3>1. saving'[c] = NoJob /\ \A w \in Writers \ {c} : saving'[w] = saving[w]
      BY <2>1, <2>4 DEF Types
    <3> QED BY <1>3, <2>1, <2>2, <2>4, <3>1 DEF ChunkPlaces, ChunkSaves
  <2> QED BY <2>3, <2>4
<1>10. CASE PublishAll(c) \/ PublishSome(c) \/ PublishRefused(c)
  <2>1. at[c] = "publishing" /\ UNCHANGED <<up, request, task, submits, published>>
    BY <1>10 DEF PublishAll, PublishSome, PublishRefused, heber, bounds
  <2>2. task = "days" /\ InTurn(c) /\ at[c] # "done"
    BY <1>2, <2>1
  <2>3. \E s \in {"published", "partial", "failed"}, x \in {"noting", "failing"} :
          Save(c, [job EXCEPT !.chunks[c].status = s]) /\ at' = [at EXCEPT ![c] = x]
    BY <1>10 DEF PublishAll, PublishSome, PublishRefused, ChunkFails
  <2> QED BY <1>3, <1>5, <1>6, <2>1, <2>2, <2>3 DEF ChunkPlaces, ChunkSaves
<1>11. CASE HeberCommits(c)
  <2>1. UNCHANGED <<at, up, request, task, saving, job, published, submits>>
    BY <1>11 DEF HeberCommits, run, bounds
  <2>2. Turns'
    BY <2>1, TurnsApart DEF Turns
  <2>3. Counted'
    BY <2>1, CountedApart DEF Unpublished
  <2> QED BY <2>2, <2>3
<1> QED BY <1>7, <1>8, <1>9, <1>10, <1>11 DEF ChunkStep

LEMMA ProcessTurns ==
  ASSUME Types, Types', Turns, Counted, Crash \/ Shutdown \/ Start
  PROVE  Turns' /\ Counted'
<1> USE WritersDiffer
<1>1. ASSUME NEW M, Ends(M) PROVE Turns' /\ Counted'
  <2>1. /\ \A w \in Writers : saving'[w] = NoJob
        /\ \A c \in Chunks : at'[c] = "idle"
        /\ task' = "none" /\ request' = "idle" /\ UNCHANGED <<published, submits>>
    BY <1>1 DEF Ends, NoSaves, Idle, heber
  <2>2. Turns'
    BY <2>1 DEF Turns, Busy, RunSaves, ChunkSaves
  <2>3. Counted'
    BY <2>1, CountedApart DEF Unpublished
  <2> QED BY <2>2, <2>3
<1>2. CASE Start
  <2>1. /\ ~up /\ up' = TRUE /\ UNCHANGED <<saving, at, request, published, submits>>
        /\ task' \in {task, "evidence"}
    BY <1>2 DEF Start, heber, bounds
  <2>2. task = "none" /\ request = "idle" /\ saving[Run] = NoJob
    BY <2>1 DEF Turns, RunSaves
  <2>3. task' # "none" => job' # NoJob
    <3>1. ASSUME store # NoJob PROVE job' # NoJob
      <4>1. store \in JobType
        BY <3>1, JobOf DEF Types
      <4>2. Restored(store) \in JobType
        BY <4>1, BlockedUpdate, Resubmitted, Literals DEF Restored
      <4>3. [Restored(store) EXCEPT !.status = "AWAITING_ACK"] \in JobType
        BY <4>2, StatusUpdate, Literals
      <4>4. job' \in {Restored(store), [Restored(store) EXCEPT !.status = "AWAITING_ACK"]}
        BY <1>2, <3>1 DEF Start
      <4> QED BY <4>2, <4>3, <4>4, NoJobAssumption
    <3> QED BY <1>2, <2>2, <3>1 DEF Start
  <2>4. Turns'
    BY <2>1, <2>2, <2>3 DEF Turns, Busy, RunSaves
  <2>5. Counted'
    BY <2>1, <2>2, CountedApart DEF Unpublished
  <2> QED BY <2>4, <2>5
<1> QED BY <1>1, <1>2 DEF Crash, Shutdown

LEMMA NextTurns ==
  Types /\ Types' /\ Turns /\ Counted /\ Unverified /\ [Next]_vars => Turns' /\ Counted'
<1> SUFFICES ASSUME Types, Types', Turns, Counted, Unverified, [Next]_vars
             PROVE  Turns' /\ Counted'
  OBVIOUS
<1>1. CASE UNCHANGED vars
  BY <1>1 DEF vars, Turns, Counted, Busy, InTurn, Unpublished, run, poll, heber, bounds
<1> QED BY <1>1, SubmissionTurns, RunTurns, ChunkTurns, ProcessTurns DEF Next, RequestStep

-----------------------------------------------------------------------------
(* Heber, and what verified means *)

Grows == \A c \in Chunks : committed[c] \subseteq committed'[c]

LEMMA NextDownstream == Types /\ Downstream /\ [Next]_vars => Downstream' /\ Grows
<1> SUFFICES ASSUME Types, Downstream, [Next]_vars PROVE Downstream' /\ Grows
  OBVIOUS
<1>1. CASE UNCHANGED <<acks, committed, delivered>>
  BY <1>1 DEF Downstream, Grows
<1>2. ASSUME NEW c \in Chunks, PublishAll(c) \/ PublishSome(c) PROVE Downstream' /\ Grows
  <2>1. UNCHANGED <<acks, committed>>
    BY <1>2 DEF PublishAll, PublishSome
  <2>2. \A d \in Chunks : delivered[d] \subseteq delivered'[d]
    BY <1>2 DEF PublishAll, PublishSome, Types
  <2> QED BY <2>1, <2>2 DEF Downstream, Grows
<1>3. ASSUME NEW c \in Chunks, HeberCommits(c) PROVE Downstream' /\ Grows
  <2>1. PICK p \in delivered[c] :
          /\ acks' = [acks EXCEPT ![c] = [proof |-> p, at |-> published[c]]]
          /\ committed' = [committed EXCEPT ![c] = @ \cup {p}]
    BY <1>3 DEF HeberCommits
  <2>2. UNCHANGED delivered
    BY <1>3 DEF HeberCommits
  <2>3. Grows
    BY <2>1 DEF Grows, Types
  <2>4. committed'[c] \subseteq delivered'[c] /\ acks'[c].proof \in committed'[c]
    BY <2>1, <2>2 DEF Downstream, Types
  <2>5. ASSUME NEW d \in Chunks
        PROVE  /\ committed'[d] \subseteq delivered'[d]
               /\ acks'[d] # NoAck => acks'[d].proof \in committed'[d]
    <3>1. CASE d = c
      BY <2>4, <3>1
    <3>2. CASE d # c
      <4>1. committed'[d] = committed[d] /\ acks'[d] = acks[d]
        BY <2>1, <3>2 DEF Types
      <4> QED BY <2>2, <4>1 DEF Downstream
    <3> QED BY <3>1, <3>2
  <2> QED BY <2>3, <2>5 DEF Downstream
<1>4. CASE UNCHANGED vars
  BY <1>1, <1>4 DEF vars, heber
<1>5. ASSUME SubmitBegins \/ Cancel \/ Crash \/ Shutdown \/ Start \/ RequestStep
      PROVE  UNCHANGED <<acks, committed, delivered>>
  BY <1>5 DEF SubmitBegins, Cancel, Crash, Shutdown, Ends, Start, RequestStep, SubmitLoads,
       SubmitSaved, SubmitRaises, CancelEnds, heber
<1>6. ASSUME RunStarts \/ RunStep PROVE UNCHANGED <<acks, committed, delivered>>
  BY <1>6 DEF RunStep, RunStarts, RunSaved, RunRaises, RunEnds, VerifyBegins, RoundEnds, ReadAck,
       ReadAckFails, heber
<1>7. ASSUME NEW c \in Chunks,
             ProcessChunk(c) \/ FetchFails(c) \/ ChunkSaved(c) \/ ChunkRaises(c)
               \/ PublishRefused(c)
      PROVE  UNCHANGED <<acks, committed, delivered>>
  BY <1>7 DEF ProcessChunk, FetchFails, ChunkSaved, ChunkRaises, PublishRefused, heber
<1> QED BY <1>1, <1>2, <1>3, <1>4, <1>5, <1>6, <1>7 DEF Next, ChunkStep

(* Where a job, a manifest or a dump comes from: it is an old one, or does  *)
(* not say verified.                                                        *)
Known == {NoJob, job, store} \cup {saving[w] : w \in Writers}
Fresh(j) == j \in Known \/ j.status # "VERIFIED"

LEMMA TruthfulStep ==
  ASSUME Types, Grows, AllTruthful, Fresh(job'), Fresh(store'),
         \A w \in Writers : Fresh(saving'[w])
  PROVE  AllTruthful'
<1>1. ASSUME NEW j, Fresh(j), j # NoJob, j.status = "VERIFIED", NEW c \in Chunks
      PROVE  j.chunks[c].proof \in committed'[c]
  BY <1>1 DEF Fresh, Known, AllTruthful, Truthful, Grows
<1> QED BY <1>1 DEF AllTruthful, Truthful

LEMMA RoundKept ==
  ASSUME Types, Grows, RoundHolds, UNCHANGED <<job, seen, all_verified>>,
         task' \in {"verify", "alerting"} => task \in {"verify", "alerting"}
  PROVE  RoundHolds'
BY DEF RoundHolds, Grows, Types

Goal == AllTruthful' /\ Unverified' /\ RoundHolds'

LEMMA SubmissionGoal ==
  ASSUME Types, Types', Turns, AllTruthful, Unverified, RoundHolds, Grows,
         \/ SubmitBegins \/ SubmitLoads \/ SubmitSaved \/ SubmitRaises \/ Cancel \/ CancelEnds
  PROVE  Goal
<1> USE WritersDiffer
<1>1. CASE SubmitBegins
  <2>1. UNCHANGED <<job, store, saving, task, seen, all_verified>> /\ request' = "loading"
    BY <1>1 DEF SubmitBegins, run, poll
  <2>2. AllTruthful'
    BY <2>1, TruthfulStep DEF Fresh, Known
  <2>3. Unverified' /\ RoundHolds'
    BY <2>1, RoundKept DEF Unverified, Running
  <2> QED BY <2>2, <2>3 DEF Goal
<1>2. CASE SubmitLoads
  <2>1. /\ UNCHANGED <<store, task, seen, all_verified>> /\ request = "loading"
        /\ job' # NoJob => job'.status \in {"QUEUED", "AWAITING_ACK"}
        /\ job' # NoJob
        /\ saving' = [saving EXCEPT ![Submission] = job']
    <3>1. store # NoJob => store \in JobType
      BY JobOf DEF Types
    <3>2. job' = IF store = NoJob THEN NewJob
                 ELSE IF store.status = "VERIFIED" THEN Reopened(store) ELSE Requeued(store)
      BY <1>2 DEF SubmitLoads, Save
    <3>3. job' \in JobType /\ job'.status \in {"QUEUED", "AWAITING_ACK"}
      BY <3>1, <3>2, NewJobType, Resubmitted
    <3> QED BY <1>2, <3>3, NoJobAssumption DEF SubmitLoads, Save, run, poll
  <2>2. \A w \in Writers : Fresh(saving'[w])
    BY <2>1 DEF Fresh, Known, Types
  <2>3. AllTruthful'
    BY <2>1, <2>2, TruthfulStep DEF Fresh, Known
  <2>4. task = "none"
    BY <2>1 DEF Turns
  <2>5. Unverified' /\ RoundHolds'
    BY <2>1, <2>4 DEF Unverified, Running, RoundHolds
  <2> QED BY <2>3, <2>5 DEF Goal
<1>3. CASE SubmitSaved
  <2>1. /\ UNCHANGED <<job, seen, all_verified>> /\ request' = "idle"
        /\ request \in {"saving", "reopening"} /\ task' \in {"waiting", "evidence"}
        /\ store' = saving[Submission] /\ saving' = [saving EXCEPT ![Submission] = NoJob]
    BY <1>3 DEF SubmitSaved, Lands, poll
  <2>2. \A w \in Writers : Fresh(saving'[w])
    BY <2>1 DEF Fresh, Known, Types
  <2>3. AllTruthful'
    BY <2>1, <2>2, TruthfulStep DEF Fresh, Known
  <2>4. Unverified' /\ RoundHolds'
    BY <2>1 DEF Unverified, Running, RoundHolds
  <2> QED BY <2>3, <2>4 DEF Goal
<1>4. CASE SubmitRaises \/ CancelEnds
  <2>1. PICK w \in {Submission, Cancellation} :
          store' \in {store, saving[w]} /\ saving' = [saving EXCEPT ![w] = NoJob]
    BY <1>4 DEF SubmitRaises, CancelEnds, Raises
  <2>2. UNCHANGED <<job, task, seen, all_verified>> /\ request' \in {request, "idle"}
    BY <1>4 DEF SubmitRaises, CancelEnds, run, poll
  <2>3. \A v \in Writers : Fresh(saving'[v])
    BY <2>1 DEF Fresh, Known, Types
  <2>4. AllTruthful'
    BY <2>1, <2>2, <2>3, TruthfulStep DEF Fresh, Known
  <2>5. Unverified' /\ RoundHolds'
    BY <2>2, RoundKept DEF Unverified, Running
  <2> QED BY <2>4, <2>5 DEF Goal
<1>5. CASE Cancel
  <2> DEFINE gone == Blocked(job, "CANCELLED", "cancelled")
  <2>1. gone \in JobType /\ gone # NoJob /\ gone.status = "CANCELLED"
    <3>1. job \in JobType
      BY <1>5, JobOf DEF Cancel, Types
    <3> QED BY <3>1, BlockedUpdate, Literals, NoJobAssumption
  <2>2. /\ job' = gone /\ store' \in Dropped(Writers \ {Submission})
        /\ \A w \in Writers : saving'[w] \in {NoJob, gone, saving[w]}
        /\ task' \in {"none", "cancelling"}
    BY <1>5 DEF Cancel
  <2>3. Fresh(job') /\ Fresh(store') /\ \A w \in Writers : Fresh(saving'[w])
    BY <2>1, <2>2 DEF Fresh, Known, Dropped
  <2>4. AllTruthful'
    BY <2>3, TruthfulStep
  <2>5. Unverified' /\ RoundHolds'
    BY <2>1, <2>2 DEF Unverified, Running, RoundHolds
  <2> QED BY <2>4, <2>5 DEF Goal
<1> QED BY <1>1, <1>2, <1>3, <1>4, <1>5

LEMMA RunGoal ==
  ASSUME Types, Types', Turns, Downstream, AllTruthful, Unverified, RoundHolds, Grows, RunStarts \/ RunStep
  PROVE  Goal
<1> USE WritersDiffer
<1>1. task # "none" => job \in JobType
  BY JobOf DEF Types, Turns
<1>2. request # "idle" => task = "none"
  BY DEF Turns
<1>3. ASSUME NEW j \in JobType, Save(Run, j), j.status # "VERIFIED", UNCHANGED store
      PROVE  AllTruthful' /\ job' = j /\ job' # NoJob
  <2>1. Fresh(job') /\ Fresh(store') /\ \A w \in Writers : Fresh(saving'[w])
    BY <1>3 DEF Save, Fresh, Known, Types
  <2> QED BY <1>3, <2>1, TruthfulStep, NoJobAssumption DEF Save
<1>4. ASSUME NEW s \in Statuses, NEW r \in Reasons, s # "VERIFIED", task # "none", Block(s, r),
             UNCHANGED <<store, request>>
      PROVE  Goal
  <2>1. Blocked(job, s, r) \in JobType /\ Blocked(job, s, r).status = s
    BY <1>1, <1>4, BlockedUpdate
  <2>2. AllTruthful'
    BY <1>3, <1>4, <2>1 DEF Block
  <2>3. task' = "blocking" /\ request' = "idle"
    BY <1>2, <1>4 DEF Block, Types
  <2> QED BY <2>2, <2>3 DEF Goal, Unverified, Running, RoundHolds
<1>5. CASE RunStarts
  <2>1. CASE Block("FAILED", "heber_readiness")
    BY <1>4, <1>5, <2>1, Literals DEF RunStarts
  <2>2. CASE Save(Run, [job EXCEPT !.status = "RUNNING"]) /\ task' = "starting"
    <3>1. /\ [job EXCEPT !.status = "RUNNING"] \in JobType
          /\ [job EXCEPT !.status = "RUNNING"].status = "RUNNING"
      BY <1>1, <1>5, StatusUpdate, Literals DEF RunStarts
    <3>2. AllTruthful' /\ job' # NoJob /\ job'.status = "RUNNING"
      BY <1>3, <1>5, <2>2, <3>1 DEF RunStarts
    <3> QED BY <2>2, <3>2 DEF Goal, Unverified, RoundHolds
  <2> QED BY <1>5, <2>1, <2>2 DEF RunStarts
<1>6. CASE RunSaved
  <2>1. /\ task \in RunSaves
        /\ store' \in {store, saving[Run]} /\ saving' = [saving EXCEPT ![Run] = NoJob]
        /\ UNCHANGED <<job, request, seen, all_verified>>
        /\ task' = "verify" => task = "alerting"
        /\ task' # "none" => task # "blocking"
        /\ task' \in {"days", "evidence", "verify", "none"}
    BY <1>6 DEF RunSaved, Lands, RunSaves, poll
  <2>2. \A w \in Writers : Fresh(saving'[w])
    BY <2>1 DEF Fresh, Known, Types
  <2>3. AllTruthful'
    BY <2>1, <2>2, TruthfulStep DEF Fresh, Known
  <2>4. RoundHolds'
    BY <2>1, RoundKept
  <2>5. Unverified'
    BY <2>1, <1>2 DEF Unverified, Running, RunSaves
  <2> QED BY <2>3, <2>4, <2>5 DEF Goal
<1>12. CASE RunRaises
  <2>1. /\ task \in RunSaves /\ task' = "none" /\ UNCHANGED <<job, request>>
        /\ store' \in {store, saving[Run]} /\ saving' = [saving EXCEPT ![Run] = NoJob]
    BY <1>12 DEF RunRaises, Raises, RunSaves
  <2>2. \A w \in Writers : Fresh(saving'[w])
    BY <2>1 DEF Fresh, Known, Types
  <2>3. AllTruthful'
    BY <2>1, <2>2, TruthfulStep DEF Fresh, Known
  <2>4. request' = "idle"
    BY <1>2, <2>1 DEF RunSaves, Types
  <2> QED BY <2>1, <2>3, <2>4 DEF Goal, Unverified, Running, RoundHolds
<1>7. CASE RunEnds
  <2>1. CASE Save(Run, [job EXCEPT !.status = "AWAITING_ACK", !.completed = TRUE]) /\ task' = "closing"
    <3>1. /\ [job EXCEPT !.status = "AWAITING_ACK", !.completed = TRUE] \in JobType
          /\ [job EXCEPT !.status = "AWAITING_ACK", !.completed = TRUE].status = "AWAITING_ACK"
      BY <1>1, <1>7, StatusUpdate, Literals DEF RunEnds
    <3>2. AllTruthful' /\ job' # NoJob /\ job'.status = "AWAITING_ACK"
      BY <1>3, <1>7, <2>1, <3>1 DEF RunEnds
    <3> QED BY <2>1, <3>2 DEF Goal, Unverified, RoundHolds
  <2>2. CASE Block("FAILED", "chunk_failure") \/ Block("PARTIAL", "chunk_failure")
    BY <1>4, <1>7, <2>2, Literals DEF RunEnds
  <2> QED BY <1>7, <2>1, <2>2 DEF RunEnds
<1>8. CASE VerifyBegins
  <2>1. CASE Block("PARTIAL", "evidence_incomplete")
    BY <1>4, <1>8, <2>1, Literals DEF VerifyBegins
  <2>2. CASE task' = "verify" /\ seen' = {} /\ UNCHANGED <<job, saving>>
    <3>1. AllTruthful'
      BY <1>8, <2>2, TruthfulStep DEF VerifyBegins, Fresh, Known
    <3>2. Unverified' /\ RoundHolds'
      BY <1>8, <2>2 DEF VerifyBegins, Unverified, Running, RoundHolds
    <3> QED BY <3>1, <3>2 DEF Goal
  <2> QED BY <1>8, <2>1, <2>2 DEF VerifyBegins, NewPoll, NewRound
<1>9. CASE RoundEnds
  <2>1. /\ task = "verify" /\ seen = Chunks /\ seen' = {} /\ UNCHANGED <<store, request>>
    BY <1>9 DEF RoundEnds, NewRound
  <2>2. RoundHolds'
    BY <2>1 DEF RoundHolds
  <2>3. CASE all_verified /\ Save(Run, Blocked(job, "VERIFIED", "none")) /\ task' = "blocking"
    <3> DEFINE j == Blocked(job, "VERIFIED", "none")
    <3>1. j \in JobType /\ j.chunks = job.chunks
      BY <1>1, <2>1, BlockedUpdate, Literals
    <3>2. \A c \in Chunks : j.chunks[c].proof \in committed'[c]
      BY <2>1, <2>3, <3>1 DEF RoundHolds, Grows
    <3>3. job' = j /\ saving' = [saving EXCEPT ![Run] = j]
      BY <2>3 DEF Save
    <3>4. ASSUME NEW k \in {job', store'} \cup {saving'[w] : w \in Writers}
          PROVE  k = j \/ k = store \/ \E w \in Writers : k = saving[w]
      BY <2>1, <3>3 DEF Types
    <3>5. ASSUME NEW k \in {job', store'} \cup {saving'[w] : w \in Writers},
                 k # NoJob, k.status = "VERIFIED", NEW c \in Chunks
          PROVE  k.chunks[c].proof \in committed'[c]
      BY <3>2, <3>4, <3>5 DEF AllTruthful, Truthful, Grows
    <3>6. AllTruthful'
      BY <3>5 DEF AllTruthful, Truthful
    <3>7. Unverified'
      BY <1>2, <2>1, <2>3 DEF Unverified, Running, Types
    <3> QED BY <2>2, <3>6, <3>7 DEF Goal
  <2>4. CASE /\ Save(Run, Blocked(job, "PARTIAL", "missing_heber_acknowledgement"))
             /\ task' = "alerting"
    <3>1. /\ Blocked(job, "PARTIAL", "missing_heber_acknowledgement") \in JobType
          /\ Blocked(job, "PARTIAL", "missing_heber_acknowledgement").status = "PARTIAL"
      BY <1>1, <2>1, BlockedUpdate, Literals
    <3>2. AllTruthful' /\ job' # NoJob /\ job'.status = "PARTIAL"
      BY <1>3, <2>1, <2>4, <3>1
    <3> QED BY <2>2, <2>4, <3>2 DEF Goal, Unverified
  <2>5. CASE UNCHANGED <<job, saving, task>>
    <3>1. AllTruthful'
      BY <2>1, <2>5, TruthfulStep DEF Fresh, Known
    <3>2. Unverified'
      BY <2>1, <2>5 DEF Unverified, Running
    <3> QED BY <2>2, <3>1, <3>2 DEF Goal
  <2> QED BY <1>9, <2>3, <2>4, <2>5 DEF RoundEnds, Blocked
<1>10. ASSUME NEW c \in Chunks, ReadAck(c) PROVE Goal
  <2> DEFINE k == [job EXCEPT !.chunks[c].acknowledged = TRUE, !.chunks[c].status = "verified"]
  <2>1. /\ task = "verify" /\ UNCHANGED <<store, saving, task, request, committed>>
        /\ seen' = seen \cup {c} /\ all_verified' = (all_verified /\ AckMatches(job, c))
        /\ job' = job \/ job' = k
    BY <1>10 DEF ReadAck, run, heber
  <2>2. /\ job \in JobType /\ job # NoJob /\ job.status # "VERIFIED"
    BY <1>1, <2>1, NoJobAssumption DEF Unverified, Running
  <2>3. /\ k \in JobType /\ k.status = job.status
        /\ \A d \in Chunks : k.chunks[d].proof = job.chunks[d].proof
    BY <2>2, AcknowledgedUpdate
  <2>4. /\ job' # NoJob /\ job'.status # "VERIFIED"
        /\ \A d \in Chunks : job'.chunks[d].proof = job.chunks[d].proof
    BY <2>1, <2>2, <2>3, NoJobAssumption
  <2>5. AllTruthful'
    BY <2>1, <2>4, TruthfulStep DEF Fresh, Known
  <2>6. AckMatches(job, c) => job.chunks[c].proof \in committed[c]
    BY DEF AckMatches, Downstream
  <2>7. RoundHolds'
    BY <2>1, <2>4, <2>6 DEF RoundHolds, Types
  <2>8. Unverified'
    BY <2>4 DEF Unverified
  <2> QED BY <2>5, <2>7, <2>8 DEF Goal
<1>11. ASSUME NEW c \in Chunks, ReadAckFails(c) PROVE Goal
  <2>1. /\ task = "verify" /\ UNCHANGED <<job, store, saving, task, request>>
        /\ all_verified' = FALSE
    BY <1>11 DEF ReadAckFails, run
  <2>2. AllTruthful'
    BY <2>1, TruthfulStep DEF Fresh, Known
  <2> QED BY <2>1, <2>2 DEF Goal, Unverified, Running, RoundHolds
<1> QED BY <1>5, <1>6, <1>7, <1>8, <1>9, <1>10, <1>11, <1>12 DEF RunStep

LEMMA ChunkGoal ==
  ASSUME Types, Types', Turns, AllTruthful, Unverified, RoundHolds, Grows,
         NEW c \in Chunks, ChunkStep(c) \/ HeberCommits(c)
  PROVE  Goal
<1> USE WritersDiffer
<1>1. at[c] \notin {"idle", "done"} => task = "days"
  BY DEF Turns, Busy
<1>2. task = "days" => job \in JobType /\ job.status # "VERIFIED" /\ request = "idle"
  BY JobOf DEF Types, Turns, Unverified, Running
(* The chunks run under a job that is not verified and stays so. *)
<1>3. ASSUME task = "days", UNCHANGED <<task, request>>,
             job' \in JobType, job'.status = job.status,
             store' \in {store, saving[c]},
             \A w \in Writers : saving'[w] \in {saving[w], NoJob, job'}
      PROVE  Goal
  <2>1. Fresh(job') /\ Fresh(store') /\ \A w \in Writers : Fresh(saving'[w])
    BY <1>2, <1>3 DEF Fresh, Known
  <2>2. AllTruthful'
    BY <2>1, TruthfulStep
  <2> QED BY <1>2, <1>3, <2>2, NoJobAssumption DEF Goal, Unverified, Running, RoundHolds
<1>4. ASSUME NEW j \in JobType, Save(c, j), task = "days", UNCHANGED <<task, request>>,
             j.status = job.status, store' \in {store, saving[c]}
      PROVE  Goal
  BY <1>3, <1>4 DEF Save, Types
<1>5. ASSUME NEW s \in {"published", "partial", "failed"},
             Save(c, [job EXCEPT !.chunks[c].status = s]), task = "days",
             UNCHANGED <<task, request>>, store' \in {store, saving[c]}
      PROVE  Goal
  <2>1. s \in ChunkStatuses
    BY DEF ChunkStatuses
  <2> QED BY <1>2, <1>4, <1>5, <2>1, ChunkStatusUpdate
<1>6. CASE ProcessChunk(c) \/ FetchFails(c)
  <2>1. task = "days" /\ UNCHANGED <<task, request, store>>
    BY <1>6 DEF ProcessChunk, FetchFails
  <2>2. CASE UNCHANGED <<job, saving, errors>>
    BY <1>2, <1>3, <2>1, <2>2
  <2>3. CASE ChunkFails(c)
    BY <1>5, <2>1, <2>3 DEF ChunkFails
  <2>4. ASSUME NEW p \in Proofs,
               Save(c, [job EXCEPT !.chunks[c].proof = p, !.chunks[c].status = "validated"])
        PROVE  Goal
    BY <1>2, <1>4, <2>1, <2>4, ProofUpdate
  <2> QED BY <1>6, <2>2, <2>3, <2>4 DEF ProcessChunk, Fetched, FetchFails
<1>7. CASE ChunkSaved(c)
  <2>1. /\ at[c] \in ChunkSaves /\ UNCHANGED <<task, request>> /\ store' = saving[c]
        /\ saving' = [saving EXCEPT ![c] = NoJob]
        /\ job' = job \/ job' = [job EXCEPT !.chunks[c].published_at = published'[c]]
    BY <1>7 DEF ChunkSaved, Lands, ChunkSaves
  <2>2. task = "days" /\ published'[c] \in 0 .. MaxSubmits
    BY <1>1, <2>1 DEF ChunkSaves, Types
  <2>3. job' \in JobType /\ job'.status = job.status
    <3>1. job \in JobType
      BY <1>2, <2>2
    <3>2. /\ [job EXCEPT !.chunks[c].published_at = published'[c]] \in JobType
          /\ [job EXCEPT !.chunks[c].published_at = published'[c]].status = job.status
      <4> DEFINE n == published'[c]
      <4>1. n \in 0 .. MaxSubmits
        BY <2>2
      <4> HIDE DEF n
      <4>2. /\ [job EXCEPT !.chunks[c].published_at = n] \in JobType
            /\ [job EXCEPT !.chunks[c].published_at = n].status = job.status
        BY <3>1, <4>1, PublishedAtUpdate
      <4> QED BY <4>2 DEF n
    <3> QED BY <2>1, <3>1, <3>2
  <2>4. \A w \in Writers : saving'[w] \in {saving[w], NoJob}
    BY <2>1 DEF Types
  <2> QED BY <1>3, <2>1, <2>2, <2>3, <2>4
<1>8. CASE ChunkRaises(c)
  <2>1. /\ at[c] \in ChunkSaves /\ UNCHANGED <<task, request>> /\ store' \in {store, saving[c]}
        /\ \/ ChunkFails(c)
           \/ UNCHANGED job /\ saving' = [saving EXCEPT ![c] = NoJob]
    BY <1>8 DEF ChunkRaises, ChunkSaves
  <2>2. task = "days"
    BY <1>1, <2>1 DEF ChunkSaves
  <2>3. CASE ChunkFails(c)
    BY <1>5, <2>1, <2>2, <2>3 DEF ChunkFails
  <2>4. CASE UNCHANGED job /\ saving' = [saving EXCEPT ![c] = NoJob]
    <3>1. \A w \in Writers : saving'[w] \in {saving[w], NoJob}
      BY <2>4 DEF Types
    <3> QED BY <1>2, <1>3, <2>1, <2>2, <2>4, <3>1
  <2> QED BY <2>1, <2>3, <2>4
<1>9. CASE PublishAll(c) \/ PublishSome(c) \/ PublishRefused(c)
  <2>1. /\ at[c] = "publishing" /\ UNCHANGED <<task, request, store>>
        /\ \E s \in {"published", "partial", "failed"} :
             Save(c, [job EXCEPT !.chunks[c].status = s])
    BY <1>9 DEF PublishAll, PublishSome, PublishRefused, ChunkFails
  <2>2. task = "days"
    BY <1>1, <2>1
  <2> QED BY <1>5, <2>1, <2>2
<1>10. CASE HeberCommits(c)
  <2>1. UNCHANGED <<job, store, saving, task, request, seen, all_verified>>
    BY <1>10 DEF HeberCommits, run, poll
  <2>2. AllTruthful'
    BY <2>1, TruthfulStep DEF Fresh, Known
  <2>3. Unverified' /\ RoundHolds'
    BY <2>1, RoundKept DEF Unverified, Running
  <2> QED BY <2>2, <2>3 DEF Goal
<1> QED BY <1>6, <1>7, <1>8, <1>9, <1>10 DEF ChunkStep

LEMMA ProcessGoal ==
  ASSUME Types, Types', Turns, AllTruthful, Unverified, RoundHolds, Grows,
         Crash \/ Shutdown \/ Start
  PROVE  Goal
<1> USE WritersDiffer
<1>1. ASSUME NEW M, Ends(M), \A j \in M : Fresh(j) PROVE Goal
  <2>1. /\ job' = NoJob /\ \A w \in Writers : saving'[w] = NoJob
        /\ store' \in M /\ task' = "none" /\ request' = "idle"
    BY <1>1 DEF Ends, NoSaves
  <2>2. AllTruthful'
    BY <1>1, <2>1, TruthfulStep DEF Fresh, Known
  <2> QED BY <2>1, <2>2 DEF Goal, Unverified, Running, RoundHolds
<1>2. \A W \in SUBSET Writers : \A j \in Dropped(W) : Fresh(j)
  BY DEF Dropped, Fresh, Known
<1>3. CASE Crash
  BY <1>1, <1>2, <1>3 DEF Crash
<1>4. CASE Shutdown
  <2>1. CASE task = "days"
    <3>1. job \in JobType
      BY <2>1, JobOf DEF Types, Turns
    <3>2. Fresh(Blocked(job, "CANCELLED", "cancelled"))
      <4>1. Blocked(job, "CANCELLED", "cancelled").status = "CANCELLED"
        BY <3>1, BlockedUpdate, Literals
      <4> QED BY <4>1 DEF Fresh
    <3> QED BY <1>1, <1>4, <2>1, <3>2 DEF Shutdown
  <2>2. CASE task # "days"
    BY <1>1, <1>2, <1>4, <2>2 DEF Shutdown
  <2> QED BY <2>1, <2>2
<1>5. CASE Start
  <2>1. task = "none" /\ request = "idle" /\ UNCHANGED <<saving, request>>
    BY <1>5 DEF Start, Turns
  <2>2. CASE store = NoJob
    <3>1. UNCHANGED <<job, store, task>>
      BY <1>5, <2>2 DEF Start
    <3>2. AllTruthful'
      BY <2>1, <3>1, TruthfulStep DEF Fresh, Known
    <3> QED BY <2>1, <3>1, <3>2 DEF Goal, Unverified, Running, RoundHolds
  <2>3. CASE store # NoJob
    <3>1. store \in JobType
      BY <2>3, JobOf DEF Types
    <3>2. Restored(store) \in JobType /\ Restored(store).status # "VERIFIED"
      <4>1. /\ Blocked(store, "FAILED", "restart_interrupted") \in JobType
            /\ Blocked(store, "FAILED", "restart_interrupted").status = "FAILED"
        BY <3>1, BlockedUpdate, Literals
      <4>2. Reopened(store) \in JobType /\ Reopened(store).status = "AWAITING_ACK"
        BY <3>1, Resubmitted
      <4> QED BY <3>1, <4>1, <4>2 DEF Restored
    <3>3. /\ [Restored(store) EXCEPT !.status = "AWAITING_ACK"] \in JobType
          /\ [Restored(store) EXCEPT !.status = "AWAITING_ACK"].status = "AWAITING_ACK"
      BY <3>2, StatusUpdate, Literals
    <3>4. /\ store' = Restored(store)
          /\ job' \in {Restored(store), [Restored(store) EXCEPT !.status = "AWAITING_ACK"]}
          /\ task' \in {task, "evidence"}
      BY <1>5, <2>3 DEF Start
    <3>5. job' # NoJob /\ job'.status # "VERIFIED" /\ store'.status # "VERIFIED"
      BY <3>2, <3>3, <3>4, NoJobAssumption
    <3>6. AllTruthful'
      BY <2>1, <3>5, TruthfulStep DEF Fresh, Known
    <3> QED BY <2>1, <3>4, <3>5, <3>6 DEF Goal, Unverified, RoundHolds
  <2> QED BY <2>2, <2>3
<1> QED BY <1>3, <1>4, <1>5

LEMMA NextUnderWay == Types /\ Turns /\ UnderWay /\ [Next]_vars => UnderWay'
<1> SUFFICES ASSUME Types, Turns, UnderWay, [Next]_vars PROVE UnderWay'
  OBVIOUS
<1>1. CASE UNCHANGED <<task, job>>
  BY <1>1 DEF UnderWay
<1>2. CASE task' \notin {"starting", "days"}
  BY <1>2 DEF UnderWay
<1>3. task # "none" => job \in JobType
  BY JobOf DEF Types, Turns
<1>4. CASE RunStarts
  <2>1. job \in JobType
    BY <1>3, <1>4 DEF RunStarts
  <2>2. [job EXCEPT !.status = "RUNNING"].status = "RUNNING"
    BY <2>1, StatusUpdate, Literals
  <2> QED BY <1>4, <2>2 DEF RunStarts, Block, Save, UnderWay
<1>5. CASE RunSaved
  BY <1>5 DEF RunSaved, UnderWay
<1>6. ASSUME NEW c \in Chunks, ChunkStep(c) PROVE UnderWay'
  <2>1. task = "days" /\ task' = task
    BY <1>6 DEF ChunkStep, ProcessChunk, FetchFails, ChunkSaved, ChunkRaises, PublishAll, PublishSome,
         PublishRefused, Turns, Busy
  <2>2. job \in JobType
    BY <1>3, <2>1
  <2>3. CASE ChunkSaved(c)
    <3>1. published'[c] = published[c] \/ published'[c] = published[c] + 1
      BY <2>3 DEF ChunkSaved, Types
    <3>2. \/ job' = job
          \/ job' = [job EXCEPT !.chunks[c].published_at = published'[c]]
      BY <2>3 DEF ChunkSaved
    <3>3. job'.status = job.status
      BY <2>2, <3>2 DEF JobType
    <3> QED BY <2>1, <3>3 DEF UnderWay
  <2>4. CASE ~ChunkSaved(c)
    <3>1. \/ job' = job
          \/ \E s \in ChunkStatuses : job' = [job EXCEPT !.chunks[c].status = s]
          \/ \E q \in Proofs :
               job' = [job EXCEPT !.chunks[c].proof = q, !.chunks[c].status = "validated"]
      BY <1>6, <2>4 DEF ChunkStep, ProcessChunk, Fetched, FetchFails, ChunkRaises, PublishAll, PublishSome,
           PublishRefused, ChunkFails, Save, ChunkStatuses
    <3>2. job'.status = job.status
      BY <2>2, <3>1 DEF JobType
    <3> QED BY <2>1, <3>2 DEF UnderWay
  <2> QED BY <2>3, <2>4
<1>7. CASE SubmitLoads \/ SubmitSaved \/ Start \/ Cancel \/ Crash \/ Shutdown
  <2>1. task' \notin {"starting", "days"}
    BY <1>7 DEF SubmitLoads, SubmitSaved, Start, Cancel, Crash, Shutdown, Ends, Turns, run
  <2> QED BY <1>2, <2>1
<1>8. CASE RunRaises \/ RunEnds \/ VerifyBegins \/ RoundEnds \/ \E c \in Chunks : ReadAck(c)
  <2>1. task' \notin {"starting", "days"}
    BY <1>8 DEF RunRaises, RunEnds, VerifyBegins, RoundEnds, ReadAck, Block, run
  <2> QED BY <1>2, <2>1
<1>9. CASE \/ SubmitBegins \/ SubmitRaises \/ CancelEnds \/ UNCHANGED vars
           \/ \E c \in Chunks : ReadAckFails(c) \/ HeberCommits(c)
  <2>1. UNCHANGED <<task, job>>
    BY <1>9 DEF SubmitBegins, SubmitRaises, CancelEnds, vars, ReadAckFails, HeberCommits, run
  <2> QED BY <1>1, <2>1
<1> QED BY <1>4, <1>5, <1>6, <1>7, <1>8, <1>9 DEF Next, RequestStep, RunStep

-----------------------------------------------------------------------------
(* The theorems *)

LEMMA InitIInv == Init => IInv
<1> SUFFICES ASSUME Init PROVE IInv
  OBVIOUS
<1>1. Types /\ Turns /\ Counted /\ Downstream
  BY InitTypes, InitTurns
<1>2. AllTruthful /\ Unverified /\ UnderWay /\ RoundHolds
  BY DEF Init, NoSaves, AllTruthful, Truthful, Unverified, Running, UnderWay, RoundHolds
<1> QED BY <1>1, <1>2 DEF IInv

LEMMA NextIInv == IInv /\ [Next]_vars => IInv'
<1> SUFFICES ASSUME IInv, [Next]_vars PROVE IInv'
  OBVIOUS
<1>1. Types' /\ Turns' /\ Counted'
  BY NextTypes, NextTurns DEF IInv
<1>2. Downstream' /\ Grows
  BY NextDownstream DEF IInv
<1>3. AllTruthful' /\ Unverified' /\ RoundHolds'
  <2>1. CASE UNCHANGED vars
    BY <1>2, <2>1, TruthfulStep, RoundKept
       DEF IInv, vars, run, poll, Fresh, Known, Unverified, Running
  <2>2. CASE Next
    BY <1>1, <1>2, <2>2, SubmissionGoal, RunGoal, ChunkGoal, ProcessGoal
       DEF IInv, Next, RequestStep, Goal
  <2> QED BY <2>1, <2>2
<1>4. UnderWay'
  BY NextUnderWay DEF IInv
<1> QED BY <1>1, <1>2, <1>3, <1>4 DEF IInv

(* The inductive invariant holds in every reachable state. *)
THEOREM Invariance == Spec => []IInv
BY InitIInv, NextIInv, PTL DEF Spec

(* Every job, manifest and dump is well formed, a chunk's coroutine runs in *)
(* its turn of a run only, and a writer waits exactly while its save is     *)
(* under way, over any overlap of submission, run, cancellation and restart.*)
THEOREM TypeCorrect == Spec => []TypeOK
<1>1. IInv => TypeOK
  <2> SUFFICES ASSUME IInv PROVE TypeOK
    OBVIOUS
  <2>1. \A c \in Chunks : published[c] \in 0 .. MaxSubmits /\ committed[c] \subseteq delivered[c]
    BY DEF IInv, Types, Downstream
  <2> QED BY <2>1 DEF IInv, Types, Turns, TypeOK, Jobs, RunSaves, ChunkSaves
<1> QED BY <1>1, Invariance, PTL

(* CHANGELOG.md:114: a job is verified, in memory or in its manifest, only  *)
(* if Heber has committed the records it names, in whatever order its saves *)
(* landed and however often the process was restarted.                      *)
THEOREM VerificationIsSound == Spec => []VerifiedIsCommitted
<1>1. IInv => VerifiedIsCommitted
  BY DEF IInv, AllTruthful, Truthful, VerifiedIsCommitted
<1> QED BY <1>1, Invariance, PTL

(* A publication begins only while the job says RUNNING: cancel() sets its  *)
(* status without the lock and stops the task where it waits, so no chunk   *)
(* goes on for a job that is cancelled, over or submitted again.            *)
THEOREM NothingPublishedOutsideARun == Spec => PublishedWhileRunning
<1> DEFINE Step == \A c \in Chunks : published'[c] # published[c] => job.status = "RUNNING"
<1>1. IInv /\ [Next]_vars => Step
  <2> SUFFICES ASSUME IInv, [Next]_vars, NEW c \in Chunks, published'[c] # published[c]
               PROVE  job.status = "RUNNING"
    OBVIOUS
  <2>1. PICK d \in Chunks : ChunkSaved(d)
    <3>1. CASE RequestStep \/ SubmitBegins \/ Cancel \/ Crash \/ Shutdown \/ Start \/ UNCHANGED vars
      BY <3>1 DEF RequestStep, SubmitBegins, SubmitLoads, SubmitSaved, SubmitRaises, Cancel,
           CancelEnds, Crash, Shutdown, Ends, Start, heber, vars
    <3>2. CASE RunStarts \/ RunStep
      BY <3>2 DEF RunStarts, RunStep, RunSaved, RunRaises, RunEnds, VerifyBegins, RoundEnds, ReadAck,
           ReadAckFails, heber
    <3>3. ASSUME NEW d \in Chunks, ChunkStep(d) \/ HeberCommits(d) PROVE ChunkSaved(d)
      BY <3>3 DEF ChunkStep, ProcessChunk, FetchFails, ChunkRaises, PublishAll, PublishSome,
           PublishRefused, HeberCommits, heber
    <3> QED BY <3>1, <3>2, <3>3 DEF Next
  <2>2. task = "days"
    BY <2>1 DEF ChunkSaved, IInv, Turns, Busy
  <2> QED BY <2>2 DEF IInv, UnderWay
<1>2. Spec => [][Step]_vars
  BY <1>1, Invariance, PTL DEF Spec
<1> QED BY <1>2 DEF PublishedWhileRunning
=============================================================================
