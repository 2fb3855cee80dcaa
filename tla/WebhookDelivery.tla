-------------------------- MODULE WebhookDelivery --------------------------
(***************************************************************************)
(* The webhook queue and WebhookService.sendWebhook: one row per try, a    *)
(* POST to Laravel, the row marked as sent or failed, and BullMQ's retries *)
(* with backoff (src/queue/webhook.processor.ts, src/webhook).             *)
(*                                                                         *)
(* The worker handles one job at a time (BullMQ's default concurrency).    *)
(* How long a backoff takes is left open.                                  *)
(***************************************************************************)
EXTENDS Naturals, Sequences

CONSTANTS
  Webhook,     \* webhook jobs, added by dispatchPaidWebhook
  Attempts,    \* tries of a job (attempts: 5)
  MaxStalled,  \* BullMQ's maxStalledCount
  None,        \* no job
  MaxCrashes, MaxFailures  \* bounds on what is explored

ASSUME DeliveryAssumption ==
  /\ Attempts \in Nat \ {0} /\ MaxStalled \in Nat
  /\ None \notin Webhook
  /\ MaxCrashes \in Nat /\ MaxFailures \in Nat

VARIABLES
  jobs,      \* state of each job
  made,      \* attemptsMade of each job
  stalls,    \* its stalled counter
  run,       \* the handler: its step and its job
  rows,      \* the rows of each job in the webhooks table, oldest first
  received,  \* history: whether Laravel got the POST of each row
  crashes, failures  \* counters for the bounds

vars == <<jobs, made, stalls, run, rows, received, crashes, failures>>

JobState == {"absent", "waiting", "active", "delayed", "completed", "failed"}
RowStatus == {"pending", "sent", "failed"}

Idle == [pc |-> "idle", job |-> None]

\* The row of the try under way.
Newest(w) == Len(rows[w])

Init ==
  /\ jobs = [w \in Webhook |-> "absent"]
  /\ made = [w \in Webhook |-> 0]
  /\ stalls = [w \in Webhook |-> 0]
  /\ run = Idle
  /\ rows = [w \in Webhook |-> <<>>]
  /\ received = [w \in Webhook |-> <<>>]
  /\ crashes = 0 /\ failures = 0

-----------------------------------------------------------------------------
(* The queue. *)

\* dispatchPaidWebhook adds the job.
Add(w) ==
  /\ jobs[w] = "absent"
  /\ jobs' = [jobs EXCEPT ![w] = "waiting"]
  /\ UNCHANGED <<made, stalls, run, rows, received, crashes, failures>>

Take(w) ==
  /\ run = Idle
  /\ jobs[w] = "waiting"
  /\ jobs' = [jobs EXCEPT ![w] = "active"]
  /\ run' = [pc |-> "insert", job |-> w]
  /\ UNCHANGED <<made, stalls, rows, received, crashes, failures>>

\* The backoff of a failed try is over.
Promote(w) ==
  /\ jobs[w] = "delayed"
  /\ jobs' = [jobs EXCEPT ![w] = "waiting"]
  /\ UNCHANGED <<made, stalls, run, rows, received, crashes, failures>>

\* Variant: one try too many.
FailAttemptOnceMore(w) ==
  /\ made' = [made EXCEPT ![w] = @ + 1]
  /\ jobs' = [jobs EXCEPT ![w] = IF made[w] < Attempts THEN "delayed" ELSE "failed"]
  /\ run' = Idle

\* Variant: one try too few.
FailAttemptEarly(w) ==
  /\ made' = [made EXCEPT ![w] = @ + 1]
  /\ jobs' = [jobs EXCEPT ![w] = IF made[w] + 2 < Attempts THEN "delayed" ELSE "failed"]
  /\ run' = Idle

\* sendWebhook has thrown: the job is tried again while tries are left.
FailAttempt(w) ==
  /\ made' = [made EXCEPT ![w] = @ + 1]
  /\ jobs' = [jobs EXCEPT ![w] = IF made[w] + 1 < Attempts THEN "delayed" ELSE "failed"]
  /\ run' = Idle

Crash ==
  /\ run # Idle
  /\ crashes < MaxCrashes
  /\ crashes' = crashes + 1
  /\ run' = Idle
  /\ UNCHANGED <<jobs, made, stalls, rows, received, failures>>

\* Variant: reruns are not counted.
RecoverStalledUncounted(w) ==
  /\ jobs[w] = "active" /\ run.job # w
  /\ jobs' = [jobs EXCEPT ![w] = "waiting"]
  /\ UNCHANGED <<made, stalls, run, rows, received, crashes, failures>>

\* Variant: a job that stalled too often is left alone.
RecoverStalledOnce(w) ==
  /\ jobs[w] = "active" /\ run.job # w
  /\ stalls[w] < MaxStalled
  /\ stalls' = [stalls EXCEPT ![w] = @ + 1]
  /\ jobs' = [jobs EXCEPT ![w] = "waiting"]
  /\ UNCHANGED <<made, run, rows, received, crashes, failures>>

\* The stalled check: a rerun is not an attempt.
RecoverStalled(w) ==
  /\ jobs[w] = "active" /\ run.job # w
  /\ IF stalls[w] < MaxStalled
     THEN /\ stalls' = [stalls EXCEPT ![w] = @ + 1]
          /\ jobs' = [jobs EXCEPT ![w] = "waiting"]
     ELSE /\ jobs' = [jobs EXCEPT ![w] = "failed"]
          /\ UNCHANGED stalls
  /\ UNCHANGED <<made, run, rows, received, crashes, failures>>

-----------------------------------------------------------------------------
(* sendWebhook, one action per await and outcome. *)

Error ==
  /\ failures < MaxFailures
  /\ failures' = failures + 1

\* The row of this try is stored.
NewRow(w) ==
  /\ rows' = [rows EXCEPT ![w] = Append(@, "pending")]
  /\ received' = [received EXCEPT ![w] = Append(@, FALSE)]

Mark(w, status) == rows' = [rows EXCEPT ![w][Newest(w)] = status]

Insert ==
  /\ run.pc = "insert"
  /\ NewRow(run.job)
  /\ run' = [run EXCEPT !.pc = "post"]
  /\ UNCHANGED <<jobs, made, stalls, crashes, failures>>

\* The insert stands before the try block. As with every update below, the
\* database may have done it before the error.
InsertFails ==
  /\ run.pc = "insert"
  /\ Error
  /\ FailAttempt(run.job)
  /\ NewRow(run.job) \/ UNCHANGED <<rows, received>>
  /\ UNCHANGED <<stalls, crashes>>

\* Laravel gets the POST and answers it.
Post ==
  LET w == run.job IN
  /\ run.pc = "post"
  /\ received' = [received EXCEPT ![w][Newest(w)] = TRUE]
  /\ run' = [run EXCEPT !.pc = "markSent"]
  /\ UNCHANGED <<jobs, made, stalls, rows, crashes, failures>>

\* Variant: an error of the POST is swallowed.
PostFailsSilently ==
  LET w == run.job IN
  /\ run.pc = "post"
  /\ Error
  /\ \E got \in BOOLEAN : received' = [received EXCEPT ![w][Newest(w)] = got]
  /\ run' = [run EXCEPT !.pc = "markSent"]
  /\ UNCHANGED <<jobs, made, stalls, rows, crashes>>

\* No connection, an error status, or no answer within ten seconds: Laravel
\* may have got the POST or not.
PostFails ==
  LET w == run.job IN
  /\ run.pc = "post"
  /\ Error
  /\ \E got \in BOOLEAN : received' = [received EXCEPT ![w][Newest(w)] = got]
  /\ run' = [run EXCEPT !.pc = "markFailed"]
  /\ UNCHANGED <<jobs, made, stalls, rows, crashes>>

\* The row is marked and the job completes.
MarkSent ==
  /\ run.pc = "markSent"
  /\ Mark(run.job, "sent")
  /\ run' = [run EXCEPT !.pc = "finish"]
  /\ UNCHANGED <<jobs, made, stalls, received, crashes, failures>>

\* The update stands inside the try block.
MarkSentFails ==
  /\ run.pc = "markSent"
  /\ Error
  /\ Mark(run.job, "sent") \/ UNCHANGED rows
  /\ run' = [run EXCEPT !.pc = "markFailed"]
  /\ UNCHANGED <<jobs, made, stalls, received, crashes>>

\* Variant: the error is not thrown again.
MarkFailedQuietly ==
  /\ run.pc = "markFailed"
  /\ Mark(run.job, "failed")
  /\ run' = [run EXCEPT !.pc = "finish"]
  /\ UNCHANGED <<jobs, made, stalls, received, crashes, failures>>

\* The row is marked and the error is thrown again.
MarkFailed ==
  /\ run.pc = "markFailed"
  /\ Mark(run.job, "failed")
  /\ FailAttempt(run.job)
  /\ UNCHANGED <<stalls, received, crashes, failures>>

MarkFailedFails ==
  /\ run.pc = "markFailed"
  /\ Error
  /\ FailAttempt(run.job)
  /\ Mark(run.job, "failed") \/ UNCHANGED rows
  /\ UNCHANGED <<stalls, received, crashes>>

Finish ==
  /\ run.pc = "finish"
  /\ jobs' = [jobs EXCEPT ![run.job] = "completed"]
  /\ run' = Idle
  /\ UNCHANGED <<made, stalls, rows, received, crashes, failures>>

Send ==
  \/ Insert \/ InsertFails \/ Post \/ PostFails \/ MarkSent \/ MarkSentFails
  \/ MarkFailed \/ MarkFailedFails \/ Finish

Next ==
  \/ \E w \in Webhook : Add(w) \/ Take(w) \/ Promote(w) \/ RecoverStalled(w)
  \/ Send \/ Crash

Spec == Init /\ [][Next]_vars

\* The worker, the timers and the stalled check of BullMQ run on; a job is
\* taken in its turn.
FairSpec ==
  /\ Spec
  /\ WF_vars(Send)
  /\ \A w \in Webhook : /\ WF_vars(Promote(w)) /\ WF_vars(RecoverStalled(w))
                        /\ SF_vars(Take(w))

-----------------------------------------------------------------------------
(* Properties. *)

\* The range of each variable, and one row per POST.
TypeOK ==
  /\ jobs \in [Webhook -> JobState]
  /\ made \in [Webhook -> 0..Attempts]
  /\ stalls \in [Webhook -> 0..MaxStalled]
  /\ run \in [pc : {"insert", "post", "markSent", "markFailed", "finish"}, job : Webhook]
             \cup {Idle}
  /\ rows \in [Webhook -> Seq(RowStatus)]
  /\ received \in [Webhook -> Seq(BOOLEAN)]
  /\ \A w \in Webhook : Len(rows[w]) = Len(received[w])
  /\ crashes \in 0..MaxCrashes /\ failures \in 0..MaxFailures

\* Each row that says sent was received by Laravel in that try, whatever was
\* retried and rerun around it.
SentIsReceived ==
  \A w \in Webhook : \A i \in DOMAIN rows[w] :
    rows[w][i] = "sent" => received[w][i]

\* A job that is complete left a row that says sent as its last, and Laravel got
\* the POST of that try: no error ends as a completed job.
CompletedIsSent ==
  \A w \in Webhook : jobs[w] = "completed" =>
    /\ rows[w] # <<>>
    /\ rows[w][Newest(w)] = "sent" /\ received[w][Newest(w)]

\* Laravel is called at most once per attempt and once more per rerun.
TriesBounded ==
  \A w \in Webhook : Len(rows[w]) <= Attempts + stalls[w]

\* Every webhook reaches Laravel, unless there were as many errors as a job has
\* attempts or more crashes than reruns.
EventuallyReceived ==
  \A w \in Webhook :
    jobs[w] = "waiting" ~> \/ \E i \in DOMAIN received[w] : received[w][i]
                          \/ failures >= Attempts \/ crashes > MaxStalled

\* Every webhook ends as completed or failed.
WebhooksSettle ==
  \A w \in Webhook :
    jobs[w] \notin {"absent", "completed", "failed"} ~> jobs[w] \in {"completed", "failed"}

=============================================================================
