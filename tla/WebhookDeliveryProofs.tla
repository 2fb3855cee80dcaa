----------------------- MODULE WebhookDeliveryProofs -----------------------
(***************************************************************************)
(* Theorems about WebhookDelivery, for every number of webhooks, attempts, *)
(* reruns, errors and crashes.                                             *)
(***************************************************************************)
EXTENDS WebhookDelivery, TLAPS

\* The steps at which the row of the try under way is there.
WithRow == {"post", "markSent", "markFailed", "finish"}

-----------------------------------------------------------------------------
(* Types. *)

\* The handler works on an active job, whose row is there once it is stored;
\* a job that has not ended has a try left.
HandlerInv ==
  /\ run # Idle => jobs[run.job] = "active"
  /\ run.pc \in WithRow => Len(rows[run.job]) > 0
  /\ \A w \in Webhook :
       jobs[w] \in {"absent", "waiting", "active", "delayed"} => made[w] < Attempts

TypeInv == TypeOK /\ HandlerInv

\* Replacing an element of a sequence: the updates of a row in sendWebhook.
LEMMA Replaced ==
  ASSUME NEW S, NEW s \in Seq(S), NEW i \in 1..Len(s), NEW x \in S
  PROVE  /\ [s EXCEPT ![i] = x] \in Seq(S)
         /\ Len([s EXCEPT ![i] = x]) = Len(s)
         /\ [s EXCEPT ![i] = x][i] = x
         /\ \A j \in 1..Len(s) : j # i => [s EXCEPT ![i] = x][j] = s[j]
  OBVIOUS

\* Adding an element to a sequence: the insert of a row.
LEMMA Appended ==
  ASSUME NEW S, NEW s \in Seq(S), NEW x \in S
  PROVE  /\ Append(s, x) \in Seq(S)
         /\ Len(Append(s, x)) = Len(s) + 1
         /\ Append(s, x)[Len(s) + 1] = x
         /\ \A i \in 1..Len(s) : Append(s, x)[i] = s[i]
  OBVIOUS

\* The row of a try is stored behind the older ones.
LEMMA NewRowFacts ==
  ASSUME TypeOK, NEW w \in Webhook, NewRow(w)
  PROVE  /\ rows' \in [Webhook -> Seq(RowStatus)]
         /\ received' \in [Webhook -> Seq(BOOLEAN)]
         /\ \A v \in Webhook \ {w} : rows'[v] = rows[v] /\ received'[v] = received[v]
         /\ Len(rows'[w]) = Len(rows[w]) + 1 /\ Len(received'[w]) = Len(rows[w]) + 1
         /\ rows'[w][Len(rows[w]) + 1] = "pending"
         /\ \A i \in 1..Len(rows[w]) :
              rows'[w][i] = rows[w][i] /\ received'[w][i] = received[w][i]
<1>1. /\ rows[w] \in Seq(RowStatus) /\ received[w] \in Seq(BOOLEAN)
      /\ Len(rows[w]) = Len(received[w]) /\ "pending" \in RowStatus
  BY DEF TypeOK, RowStatus
<1>2. /\ rows' = [rows EXCEPT ![w] = Append(rows[w], "pending")]
      /\ received' = [received EXCEPT ![w] = Append(received[w], FALSE)]
  BY DEF NewRow
<1>3. /\ Append(rows[w], "pending") \in Seq(RowStatus)
      /\ Append(received[w], FALSE) \in Seq(BOOLEAN)
  BY <1>1
<1>4. /\ rows'[w] = Append(rows[w], "pending")
      /\ received'[w] = Append(received[w], FALSE)
      /\ \A v \in Webhook \ {w} : rows'[v] = rows[v] /\ received'[v] = received[v]
  BY <1>2 DEF TypeOK
<1>5. rows' \in [Webhook -> Seq(RowStatus)] /\ received' \in [Webhook -> Seq(BOOLEAN)]
  BY <1>2, <1>3 DEF TypeOK
<1>6. /\ Len(rows'[w]) = Len(rows[w]) + 1 /\ Len(received'[w]) = Len(rows[w]) + 1
      /\ rows'[w][Len(rows[w]) + 1] = "pending"
  BY <1>1, <1>4, Appended
<1>7. \A i \in 1..Len(rows[w]) :
        rows'[w][i] = rows[w][i] /\ received'[w][i] = received[w][i]
  <2>1. \A i \in 1..Len(rows[w]) : rows'[w][i] = rows[w][i]
    BY <1>1, <1>4, Appended
  <2>2. \A i \in 1..Len(received[w]) : received'[w][i] = received[w][i]
    <3>1. ASSUME NEW b \in BOOLEAN
          PROVE  \A i \in 1..Len(received[w]) :
                   Append(received[w], b)[i] = received[w][i]
      BY <1>1, Appended
    <3>2. \A i \in 1..Len(received[w]) : Append(received[w], FALSE)[i] = received[w][i]
      BY <3>1
    <3> QED
      BY <1>4, <3>2
  <2> QED
    BY <1>1, <2>1, <2>2
<1> QED
  BY <1>4, <1>5, <1>6, <1>7

\* Marking touches the newest row of the job only.
LEMMA MarkFacts ==
  ASSUME TypeOK, NEW w \in Webhook, Len(rows[w]) > 0,
         NEW status \in RowStatus, Mark(w, status)
  PROVE  /\ rows' \in [Webhook -> Seq(RowStatus)]
         /\ \A v \in Webhook \ {w} : rows'[v] = rows[v]
         /\ Len(rows'[w]) = Len(rows[w])
         /\ rows'[w][Newest(w)] = status
         /\ \A i \in 1..Len(rows[w]) : i # Newest(w) => rows'[w][i] = rows[w][i]
<1>1. rows[w] \in Seq(RowStatus) /\ Newest(w) \in 1..Len(rows[w])
  BY DEF TypeOK, Newest
<1>2. rows' = [rows EXCEPT ![w] = [rows[w] EXCEPT ![Newest(w)] = status]]
  BY DEF Mark
<1>3. rows'[w] = [rows[w] EXCEPT ![Newest(w)] = status]
  BY <1>2 DEF TypeOK
<1> HIDE DEF Newest
<1>4. rows'[w] \in Seq(RowStatus)
  BY <1>1, <1>3, Replaced
<1>5. rows' \in [Webhook -> Seq(RowStatus)]
      /\ \A v \in Webhook \ {w} : rows'[v] = rows[v]
  BY <1>2, <1>3, <1>4 DEF TypeOK
<1> QED
  BY <1>1, <1>3, <1>5, Replaced

\* What became of the POST is noted for the newest row only.
LEMMA PostFacts ==
  ASSUME TypeOK, NEW w \in Webhook, Len(rows[w]) > 0, NEW got \in BOOLEAN,
         received' = [received EXCEPT ![w][Newest(w)] = got]
  PROVE  /\ received' \in [Webhook -> Seq(BOOLEAN)]
         /\ \A v \in Webhook \ {w} : received'[v] = received[v]
         /\ Len(received'[w]) = Len(received[w])
         /\ received'[w][Newest(w)] = got
         /\ \A i \in 1..Len(rows[w]) : i # Newest(w) => received'[w][i] = received[w][i]
<1>1. /\ received[w] \in Seq(BOOLEAN) /\ Newest(w) \in 1..Len(received[w])
      /\ Len(rows[w]) = Len(received[w])
  BY DEF TypeOK, Newest
<1>2. received' = [received EXCEPT ![w] = [received[w] EXCEPT ![Newest(w)] = got]]
  OBVIOUS
<1>3. received'[w] = [received[w] EXCEPT ![Newest(w)] = got]
  BY <1>2 DEF TypeOK
<1> HIDE DEF Newest
<1>4. received'[w] \in Seq(BOOLEAN)
  BY <1>1, <1>3, Replaced
<1>5. received' \in [Webhook -> Seq(BOOLEAN)]
      /\ \A v \in Webhook \ {w} : received'[v] = received[v]
  BY <1>2, <1>3, <1>4 DEF TypeOK
<1> QED
  BY <1>1, <1>3, <1>5, Replaced

\* A failed try: the job waits for the next one or has failed.
LEMMA FailAttemptFacts ==
  ASSUME TypeInv, run # Idle, FailAttempt(run.job)
  PROVE  /\ jobs' \in [Webhook -> JobState] /\ made' \in [Webhook -> 0..Attempts]
         /\ run' = Idle
         /\ \A v \in Webhook \ {run.job} : jobs'[v] = jobs[v] /\ made'[v] = made[v]
         /\ made'[run.job] = made[run.job] + 1
         /\ jobs'[run.job] \in {"delayed", "failed"}
         /\ jobs'[run.job] = "delayed" => made'[run.job] < Attempts
BY DeliveryAssumption DEF TypeInv, TypeOK, HandlerInv, FailAttempt, JobState

\* The types hold before the first webhook is added.
LEMMA InitTypeInv == Init => TypeInv
BY DeliveryAssumption
DEF Init, TypeInv, TypeOK, HandlerInv, WithRow, Idle, JobState, RowStatus

\* Every step preserves the types.
LEMMA NextTypeInv == TypeInv /\ [Next]_vars => TypeInv'
<1> SUFFICES ASSUME TypeInv, [Next]_vars PROVE TypeInv'
  OBVIOUS
<1> USE DEF TypeInv
<1>0. /\ None \notin Webhook /\ Idle.pc = "idle" /\ Idle.job = None
      /\ run # Idle => run.job \in Webhook /\ run = [pc |-> run.pc, job |-> run.job]
      /\ run # Idle <=> run.pc # "idle"
  BY DeliveryAssumption DEF TypeOK, Idle
<1>1. ASSUME NEW w \in Webhook, Add(w) \/ Promote(w) PROVE TypeInv'
  BY <1>1, <1>0 DEF Add, Promote, TypeOK, HandlerInv, JobState
<1>2. ASSUME NEW w \in Webhook, Take(w) PROVE TypeInv'
  BY <1>2, <1>0 DEF Take, TypeOK, HandlerInv, JobState, WithRow
<1>3. ASSUME NEW w \in Webhook, RecoverStalled(w) PROVE TypeInv'
  <2>1. /\ \/ stalls[w] < MaxStalled /\ stalls' = [stalls EXCEPT ![w] = @ + 1]
           \/ stalls' = stalls
        /\ \E s \in {"waiting", "failed"} : jobs' = [jobs EXCEPT ![w] = s]
        /\ jobs[w] = "active" /\ run.job # w
        /\ UNCHANGED <<made, run, rows, received, crashes, failures>>
    BY <1>3 DEF RecoverStalled
  <2>2. stalls' \in [Webhook -> 0..MaxStalled]
    <3>1. MaxStalled \in Nat /\ stalls \in [Webhook -> 0..MaxStalled]
      BY DeliveryAssumption DEF TypeOK
    <3>2. CASE stalls[w] < MaxStalled /\ stalls' = [stalls EXCEPT ![w] = @ + 1]
      <4>1. stalls[w] + 1 \in 0..MaxStalled
        BY <3>1, <3>2
      <4> QED
        BY <3>1, <3>2, <4>1
    <3> QED
      BY <2>1, <3>1, <3>2
  <2>3. /\ jobs' \in [Webhook -> JobState]
        /\ \A v \in Webhook \ {w} : jobs'[v] = jobs[v]
    BY <2>1 DEF TypeOK, JobState
  <2>4. TypeOK'
    BY <2>1, <2>2, <2>3 DEF TypeOK
  <2>5. HandlerInv'
    BY <1>0, <2>1, <2>3 DEF HandlerInv
  <2> QED
    BY <2>4, <2>5
<1>4. CASE Insert
  <2>1. run # Idle /\ NewRow(run.job) /\ run' = [pc |-> "post", job |-> run.job]
    BY <1>0, <1>4 DEF Insert
  <2>2. TypeOK'
    BY <1>0, <1>4, <2>1, NewRowFacts DEF TypeOK, Insert
  <2>3. HandlerInv'
    BY <1>0, <1>4, <2>1, NewRowFacts DEF HandlerInv, Insert, TypeOK
  <2> QED
    BY <2>2, <2>3
<1>5. CASE InsertFails
  <2>1. run # Idle /\ FailAttempt(run.job) /\ run.job \in Webhook
    BY <1>0, <1>5 DEF InsertFails
  <2>2. failures' \in 0..MaxFailures
    BY <1>5, DeliveryAssumption DEF InsertFails, Error, TypeOK
  <2>3. CASE NewRow(run.job)
    <3>1. TypeOK'
      <4>1. UNCHANGED <<stalls, crashes>>
        BY <1>5 DEF InsertFails
      <4>2. \A v \in Webhook : Len(rows'[v]) = Len(received'[v])
        BY <2>1, <2>3, NewRowFacts DEF TypeOK
      <4> QED
        BY <2>1, <2>2, <2>3, <4>1, <4>2, NewRowFacts, FailAttemptFacts DEF TypeOK
    <3>2. HandlerInv'
      BY <1>0, <1>5, <2>1, <2>3, FailAttemptFacts DEF HandlerInv, WithRow, TypeOK
    <3> QED
      BY <3>1, <3>2
  <2>4. CASE UNCHANGED <<rows, received>>
    <3>1. TypeOK'
      BY <1>0, <1>5, <2>1, <2>2, <2>4, FailAttemptFacts DEF TypeOK, InsertFails
    <3>2. HandlerInv'
      BY <1>0, <1>5, <2>1, <2>4, FailAttemptFacts DEF HandlerInv, WithRow, TypeOK
    <3> QED
      BY <3>1, <3>2
  <2> QED
    BY <1>5, <2>3, <2>4 DEF InsertFails
<1>6. CASE Post
  <2>1. /\ run # Idle /\ run.job \in Webhook /\ Len(rows[run.job]) > 0
        /\ received' = [received EXCEPT ![run.job][Newest(run.job)] = TRUE]
        /\ run' = [pc |-> "markSent", job |-> run.job]
    BY <1>0, <1>6 DEF Post, HandlerInv, WithRow
  <2>2. TypeOK'
    BY <1>6, <2>1, PostFacts DEF TypeOK, Post
  <2>3. HandlerInv'
    BY <1>6, <2>1 DEF HandlerInv, Post, WithRow
  <2> QED
    BY <2>2, <2>3
<1>7. CASE PostFails
  <2>1. PICK got \in BOOLEAN :
          /\ run # Idle /\ run.job \in Webhook /\ Len(rows[run.job]) > 0
          /\ received' = [received EXCEPT ![run.job][Newest(run.job)] = got]
          /\ run' = [pc |-> "markFailed", job |-> run.job]
    BY <1>0, <1>7 DEF PostFails, HandlerInv, WithRow
  <2>2. failures' \in 0..MaxFailures
    BY <1>7, DeliveryAssumption DEF PostFails, Error, TypeOK
  <2>3. TypeOK'
    BY <1>7, <2>1, <2>2, PostFacts DEF TypeOK, PostFails
  <2>4. HandlerInv'
    BY <1>7, <2>1 DEF HandlerInv, PostFails, WithRow
  <2> QED
    BY <2>3, <2>4
<1>8. CASE MarkSent
  <2>1. /\ run # Idle /\ run.job \in Webhook /\ Len(rows[run.job]) > 0
        /\ Mark(run.job, "sent") /\ "sent" \in RowStatus
        /\ run' = [pc |-> "finish", job |-> run.job]
    BY <1>0, <1>8 DEF MarkSent, HandlerInv, WithRow, RowStatus
  <2>2. TypeOK'
    BY <1>8, <2>1, MarkFacts DEF TypeOK, MarkSent
  <2>3. HandlerInv'
    BY <1>8, <2>1, MarkFacts DEF HandlerInv, MarkSent, TypeOK
  <2> QED
    BY <2>2, <2>3
<1>9. CASE MarkSentFails
  <2>1. /\ run # Idle /\ run.job \in Webhook /\ Len(rows[run.job]) > 0
        /\ "sent" \in RowStatus
        /\ run' = [pc |-> "markFailed", job |-> run.job]
    BY <1>0, <1>9 DEF MarkSentFails, HandlerInv, WithRow, RowStatus
  <2>2. failures' \in 0..MaxFailures
    BY <1>9, DeliveryAssumption DEF MarkSentFails, Error, TypeOK
  <2>3. /\ rows' \in [Webhook -> Seq(RowStatus)]
        /\ \A v \in Webhook : Len(rows'[v]) = Len(rows[v])
    BY <1>9, <2>1, MarkFacts DEF MarkSentFails, TypeOK
  <2>4. TypeOK'
    BY <1>9, <2>1, <2>2, <2>3 DEF TypeOK, MarkSentFails
  <2>5. HandlerInv'
    BY <1>9, <2>1, <2>3 DEF HandlerInv, MarkSentFails
  <2> QED
    BY <2>4, <2>5
<1>10. CASE MarkFailed \/ MarkFailedFails
  <2>1. /\ run # Idle /\ run.job \in Webhook /\ Len(rows[run.job]) > 0
        /\ "failed" \in RowStatus /\ FailAttempt(run.job)
        /\ Mark(run.job, "failed") \/ UNCHANGED rows
        /\ UNCHANGED <<stalls, received, crashes>>
    BY <1>0, <1>10 DEF MarkFailed, MarkFailedFails, HandlerInv, WithRow, RowStatus
  <2>2. failures' \in 0..MaxFailures
    BY <1>10, DeliveryAssumption DEF MarkFailed, MarkFailedFails, Error, TypeOK
  <2>3. /\ rows' \in [Webhook -> Seq(RowStatus)]
        /\ \A v \in Webhook : Len(rows'[v]) = Len(rows[v])
    BY <2>1, MarkFacts DEF TypeOK
  <2>4. TypeOK'
    BY <2>1, <2>2, <2>3, FailAttemptFacts DEF TypeOK
  <2>5. HandlerInv'
    BY <1>0, <2>1, FailAttemptFacts DEF HandlerInv, WithRow
  <2> QED
    BY <2>4, <2>5
<1>11. CASE Finish
  BY <1>0, <1>11 DEF Finish, TypeOK, HandlerInv, JobState, WithRow
<1>12. CASE Crash
  BY <1>0, <1>12, DeliveryAssumption DEF Crash, TypeOK, HandlerInv, WithRow
<1>13. CASE UNCHANGED vars
  BY <1>13 DEF vars, TypeOK, HandlerInv
<1> QED
  BY <1>1, <1>2, <1>3, <1>4, <1>5, <1>6, <1>7, <1>8, <1>9, <1>10, <1>11, <1>12, <1>13
  DEF Next, Send

\* The types hold in every state.
LEMMA TypeInvHolds == Spec => []TypeInv
BY InitTypeInv, NextTypeInv, PTL DEF Spec

\* Every variable keeps its range, and every row its note of what Laravel got.
THEOREM DeliveryTypeCorrect == Spec => []TypeOK
BY TypeInvHolds, PTL DEF TypeInv

-----------------------------------------------------------------------------
(* What the rows say is true. *)

\* What holds of the row of the try under way.
RowInv ==
  /\ run.pc = "post" => rows[run.job][Newest(run.job)] = "pending"
  /\ run.pc \in {"markSent", "finish"} => received[run.job][Newest(run.job)]
  /\ run.pc = "finish" => rows[run.job][Newest(run.job)] = "sent"

SentInv == RowInv /\ SentIsReceived /\ CompletedIsSent

\* Steps that change no row: what is said of the rows stays true.
LEMMA RowsStay ==
  ASSUME TypeInv, SentInv, UNCHANGED <<rows, received>>,
         \A w \in Webhook : jobs'[w] = "completed" => jobs[w] = "completed",
         run' = run \/ run'.pc \in {"idle", "insert"}
  PROVE  SentInv'
BY DEF SentInv, RowInv, SentIsReceived, CompletedIsSent, Newest

\* Steps that change rows or notes of the job under way, and no earlier ones.
LEMMA RowsOfOthers ==
  ASSUME TypeInv, SentInv, run # Idle,
         \A w \in Webhook \ {run.job} :
           rows'[w] = rows[w] /\ received'[w] = received[w] /\ jobs'[w] = jobs[w],
         jobs'[run.job] # "completed",
         \A i \in DOMAIN rows'[run.job] :
           rows'[run.job][i] = "sent" => received'[run.job][i]
  PROVE  SentIsReceived' /\ CompletedIsSent'
<1>1. SentIsReceived'
  <2>1. ASSUME NEW w \in Webhook, NEW i \in DOMAIN rows'[w], rows'[w][i] = "sent"
        PROVE  received'[w][i]
    BY <2>1 DEF SentInv, SentIsReceived
  <2> QED
    BY <2>1 DEF SentIsReceived
<1>2. CompletedIsSent'
  BY DEF SentInv, CompletedIsSent, Newest
<1> QED
  BY <1>1, <1>2

\* A new row does not say sent, and the older ones stay.
LEMMA NewRowIsPending ==
  ASSUME TypeInv, SentInv, NEW w \in Webhook, NewRow(w)
  PROVE  \A i \in DOMAIN rows'[w] : rows'[w][i] = "sent" => received'[w][i]
<1>1. /\ rows[w] \in Seq(RowStatus) /\ received[w] \in Seq(BOOLEAN)
      /\ Len(received[w]) = Len(rows[w])
      /\ rows'[w] = Append(rows[w], "pending")
      /\ received'[w] = Append(received[w], FALSE)
  BY DEF TypeInv, TypeOK, NewRow
<1> SUFFICES ASSUME NEW i \in DOMAIN rows'[w], rows'[w][i] = "sent" PROVE received'[w][i]
  OBVIOUS
<1>2. i \in 1..Len(rows[w]) + 1
  BY <1>1
<1>3. i # Len(rows[w]) + 1
  BY <1>1
<1>4. i \in 1..Len(rows[w]) /\ i \in DOMAIN rows[w]
  BY <1>1, <1>2, <1>3
<1>5. rows'[w][i] = rows[w][i] /\ received'[w][i] = received[w][i]
  BY <1>4, NewRowFacts DEF TypeInv
<1> QED
  BY <1>4, <1>5 DEF SentInv, SentIsReceived

\* Every step keeps what the rows say true.
LEMMA NextSentInv == TypeInv /\ SentInv /\ [Next]_vars => SentInv'
<1> SUFFICES ASSUME TypeInv, SentInv, [Next]_vars PROVE SentInv'
  OBVIOUS
<1>0. /\ None \notin Webhook /\ Idle.pc = "idle" /\ Idle.job = None
      /\ run # Idle => run.job \in Webhook /\ run = [pc |-> run.pc, job |-> run.job]
      /\ run # Idle <=> run.pc # "idle"
      /\ run # Idle => jobs[run.job] = "active"
  BY DeliveryAssumption DEF TypeInv, TypeOK, Idle, HandlerInv
<1>1. ASSUME NEW w \in Webhook, Add(w) \/ Take(w) \/ Promote(w) \/ RecoverStalled(w)
      PROVE  SentInv'
  <2>1. UNCHANGED <<rows, received>> /\ (run' = run \/ run'.pc = "insert")
    BY <1>1 DEF Add, Take, Promote, RecoverStalled
  <2>2. \A v \in Webhook : jobs'[v] = "completed" => jobs[v] = "completed"
    BY <1>1 DEF Add, Take, Promote, RecoverStalled, TypeInv, TypeOK
  <2> QED
    BY <2>1, <2>2, RowsStay
<1>2. CASE Crash
  BY <1>0, <1>2, RowsStay DEF Crash
<1>3. CASE UNCHANGED vars
  BY <1>3, RowsStay DEF vars
<1>4. CASE Insert
  <2> DEFINE w == run.job
  <2>1. /\ run # Idle /\ w \in Webhook /\ NewRow(w) /\ jobs' = jobs
        /\ run' = [pc |-> "post", job |-> w]
    BY <1>0, <1>4 DEF Insert
  <2>2. /\ Len(rows'[w]) = Len(rows[w]) + 1 /\ rows[w] \in Seq(RowStatus)
        /\ rows' \in [Webhook -> Seq(RowStatus)]
        /\ rows'[w][Len(rows[w]) + 1] = "pending"
    BY <2>1, NewRowFacts DEF TypeInv, TypeOK
  <2>3. \A i \in DOMAIN rows'[w] : rows'[w][i] = "sent" => received'[w][i]
    BY <2>1, NewRowIsPending
  <2>4. SentIsReceived' /\ CompletedIsSent'
    BY <1>0, <2>1, <2>3, NewRowFacts, RowsOfOthers DEF TypeInv
  <2>5. RowInv'
    BY <2>1, <2>2 DEF RowInv, Newest
  <2> QED
    BY <2>4, <2>5 DEF SentInv
<1>5. CASE InsertFails
  <2> DEFINE w == run.job
  <2>1. /\ run # Idle /\ w \in Webhook /\ FailAttempt(w)
        /\ NewRow(w) \/ UNCHANGED <<rows, received>>
    BY <1>0, <1>5 DEF InsertFails
  <2>2. /\ run' = Idle /\ jobs'[w] # "completed"
        /\ \A v \in Webhook \ {w} : jobs'[v] = jobs[v]
    BY <2>1, FailAttemptFacts
  <2>3. CASE NewRow(w)
    <3>1. /\ Len(rows'[w]) = Len(rows[w]) + 1 /\ rows[w] \in Seq(RowStatus)
          /\ rows' \in [Webhook -> Seq(RowStatus)]
          /\ rows'[w][Len(rows[w]) + 1] = "pending"
      BY <2>1, <2>3, NewRowFacts DEF TypeInv, TypeOK
    <3>2. \A i \in DOMAIN rows'[w] : rows'[w][i] = "sent" => received'[w][i]
      BY <2>1, <2>3, NewRowIsPending
    <3>3. SentIsReceived' /\ CompletedIsSent'
      BY <2>1, <2>2, <2>3, <3>2, NewRowFacts, RowsOfOthers DEF TypeInv
    <3> QED
      BY <1>0, <2>2, <3>3 DEF SentInv, RowInv
  <2>4. CASE UNCHANGED <<rows, received>>
    BY <1>0, <2>1, <2>2, <2>4, RowsStay
  <2> QED
    BY <2>1, <2>3, <2>4
<1>6. CASE Post \/ PostFails
  <2> DEFINE w == run.job
  <2>1. PICK got \in BOOLEAN :
          /\ run # Idle /\ w \in Webhook /\ Len(rows[w]) > 0
          /\ run.pc = "post" /\ rows' = rows /\ jobs' = jobs
          /\ received' = [received EXCEPT ![w][Newest(w)] = got]
          /\ \/ got /\ run' = [pc |-> "markSent", job |-> w]
             \/ run' = [pc |-> "markFailed", job |-> w]
    <3>1. run.pc = "post" /\ run # Idle /\ Len(rows[w]) > 0
      BY <1>0, <1>6 DEF Post, PostFails, TypeInv, HandlerInv, WithRow
    <3>2. CASE Post
      <4>1. /\ rows' = rows /\ jobs' = jobs
            /\ received' = [received EXCEPT ![w][Newest(w)] = TRUE]
            /\ run' = [pc |-> "markSent", job |-> w]
        BY <1>0, <3>2 DEF Post
      <4> QED
        BY <1>0, <3>1, <4>1
    <3>3. CASE PostFails
      BY <1>0, <3>1, <3>3 DEF PostFails
    <3> QED
      BY <1>6, <3>2, <3>3
  <2>2. /\ rows[w][Newest(w)] = "pending"
        /\ rows[w] \in Seq(RowStatus) /\ Newest(w) = Len(rows[w])
    BY <2>1 DEF SentInv, RowInv, TypeInv, TypeOK, Newest
  <2>3. /\ \A v \in Webhook \ {w} : received'[v] = received[v]
        /\ received'[w][Newest(w)] = got
        /\ \A i \in 1..Len(rows[w]) : i # Newest(w) => received'[w][i] = received[w][i]
    BY <2>1, PostFacts DEF TypeInv
  <2>4. \A i \in DOMAIN rows'[w] : rows'[w][i] = "sent" => received'[w][i]
    BY <2>1, <2>2, <2>3 DEF SentInv, SentIsReceived
  <2>5. SentIsReceived' /\ CompletedIsSent'
    BY <1>0, <2>1, <2>3, <2>4, RowsOfOthers
  <2>6. RowInv'
    BY <2>1, <2>2, <2>3 DEF RowInv, Newest
  <2> QED
    BY <2>5, <2>6 DEF SentInv
<1>7. CASE MarkSent \/ MarkSentFails
  <2> DEFINE w == run.job
  <2>1. /\ run # Idle /\ w \in Webhook /\ Len(rows[w]) > 0
        /\ run.pc = "markSent" /\ received' = received /\ jobs' = jobs
        /\ \/ Mark(w, "sent") /\ run' = [pc |-> "finish", job |-> w]
           \/ Mark(w, "sent") /\ run' = [pc |-> "markFailed", job |-> w]
           \/ rows' = rows /\ run' = [pc |-> "markFailed", job |-> w]
    BY <1>0, <1>7 DEF MarkSent, MarkSentFails, TypeInv, HandlerInv, WithRow
  <2>2. received[w][Newest(w)] /\ "sent" \in RowStatus
    BY <2>1 DEF SentInv, RowInv, RowStatus
  <2>3. CASE rows' = rows /\ run' = [pc |-> "markFailed", job |-> w]
    BY <2>1, <2>3 DEF SentInv, RowInv, SentIsReceived, CompletedIsSent, Newest
  <2>4. CASE Mark(w, "sent")
    <3>1. /\ \A v \in Webhook \ {w} : rows'[v] = rows[v]
          /\ Len(rows'[w]) = Len(rows[w]) /\ rows' \in [Webhook -> Seq(RowStatus)]
          /\ rows'[w][Newest(w)] = "sent"
          /\ \A i \in 1..Len(rows[w]) : i # Newest(w) => rows'[w][i] = rows[w][i]
          /\ rows[w] \in Seq(RowStatus)
      BY <2>1, <2>2, <2>4, MarkFacts DEF TypeInv, TypeOK
    <3>2. \A i \in DOMAIN rows'[w] : rows'[w][i] = "sent" => received'[w][i]
      BY <2>1, <2>2, <3>1 DEF SentInv, SentIsReceived
    <3>3. SentIsReceived' /\ CompletedIsSent'
      BY <1>0, <2>1, <3>1, <3>2, RowsOfOthers
    <3>4. RowInv'
      BY <2>1, <2>2, <3>1 DEF RowInv, Newest
    <3> QED
      BY <3>3, <3>4 DEF SentInv
  <2> QED
    BY <2>1, <2>3, <2>4
<1>8. CASE MarkFailed \/ MarkFailedFails
  <2> DEFINE w == run.job
  <2>1. /\ run # Idle /\ w \in Webhook /\ Len(rows[w]) > 0
        /\ FailAttempt(w) /\ received' = received
        /\ Mark(w, "failed") \/ rows' = rows
    BY <1>0, <1>8 DEF MarkFailed, MarkFailedFails, TypeInv, HandlerInv, WithRow
  <2>2. /\ run' = Idle /\ jobs'[w] # "completed"
        /\ \A v \in Webhook \ {w} : jobs'[v] = jobs[v]
    BY <2>1, FailAttemptFacts
  <2>3. CASE rows' = rows
    BY <1>0, <2>1, <2>2, <2>3, RowsStay
  <2>4. CASE Mark(w, "failed")
    <3>0. "failed" \in RowStatus
      BY DEF RowStatus
    <3>1. /\ \A v \in Webhook \ {w} : rows'[v] = rows[v]
          /\ Len(rows'[w]) = Len(rows[w]) /\ rows' \in [Webhook -> Seq(RowStatus)]
          /\ rows'[w][Newest(w)] = "failed"
          /\ \A i \in 1..Len(rows[w]) : i # Newest(w) => rows'[w][i] = rows[w][i]
          /\ rows[w] \in Seq(RowStatus)
      BY <2>1, <2>4, <3>0, MarkFacts DEF TypeInv, TypeOK
    <3>2. \A i \in DOMAIN rows'[w] : rows'[w][i] = "sent" => received'[w][i]
      BY <2>1, <3>1 DEF SentInv, SentIsReceived
    <3>3. SentIsReceived' /\ CompletedIsSent'
      BY <2>1, <2>2, <3>1, <3>2, RowsOfOthers
    <3> QED
      BY <1>0, <2>2, <3>3 DEF SentInv, RowInv
  <2> QED
    BY <2>1, <2>3, <2>4
<1>9. CASE Finish
  <2>1. /\ run.pc = "finish" /\ run # Idle /\ run.job \in Webhook
        /\ rows' = rows /\ received' = received /\ run' = Idle
        /\ jobs' = [jobs EXCEPT ![run.job] = "completed"]
        /\ Len(rows[run.job]) > 0
    BY <1>0, <1>9 DEF Finish, TypeInv, HandlerInv, WithRow
  <2>2. rows[run.job] # <<>>
    BY <2>1
  <2>3. CompletedIsSent'
    BY <2>1, <2>2 DEF SentInv, RowInv, CompletedIsSent, Newest, TypeInv, TypeOK
  <2> QED
    BY <1>0, <2>1, <2>3 DEF SentInv, RowInv, SentIsReceived
<1> QED
  BY <1>1, <1>2, <1>3, <1>4, <1>5, <1>6, <1>7, <1>8, <1>9 DEF Next, Send

\* There are no rows at first.
LEMMA InitSentInv == Init => SentInv
BY DEF Init, SentInv, RowInv, SentIsReceived, CompletedIsSent, Idle

\* What the rows say is true in every state.
LEMMA SentInvHolds == Spec => []SentInv
BY InitSentInv, NextSentInv, TypeInvHolds, PTL DEF Spec

\* A row that says sent stands for a POST that Laravel got.
THEOREM SentRowsAreReceived == Spec => []SentIsReceived
BY SentInvHolds, PTL DEF SentInv

\* A completed job ended with a row that says sent, and Laravel got its POST.
THEOREM CompletedJobsAreSent == Spec => []CompletedIsSent
BY SentInvHolds, PTL DEF SentInv

-----------------------------------------------------------------------------
(* How often Laravel is called. *)

\* A try leaves at most one row, and counts as an attempt or a rerun once it
\* is over.
TriesOf(w) ==
  /\ jobs[w] \in {"absent", "waiting", "delayed"}
       => Len(rows[w]) <= made[w] + stalls[w]
  /\ jobs[w] = "active" => Len(rows[w]) <= made[w] + stalls[w] + 1
  /\ run.pc = "insert" /\ run.job = w => Len(rows[w]) <= made[w] + stalls[w]
  /\ Len(rows[w]) <= Attempts + stalls[w]

TriesInv == \A w \in Webhook : TriesOf(w)

\* A step that leaves a job alone keeps its count.
LEMMA TriesOfOthers ==
  ASSUME NEW v \in Webhook, TriesOf(v),
         jobs'[v] = jobs[v], made'[v] = made[v], stalls'[v] = stalls[v],
         Len(rows'[v]) = Len(rows[v]),
         run'.pc = "insert" => run' = run \/ run'.job # v
  PROVE  TriesOf(v)'
BY DEF TriesOf

\* Every step keeps the count of rows.
LEMMA NextTriesInv == TypeInv /\ TriesInv /\ [Next]_vars => TriesInv'
<1> SUFFICES ASSUME TypeInv, TriesInv, [Next]_vars PROVE TriesInv'
  OBVIOUS
<1>0. /\ None \notin Webhook /\ Idle.pc = "idle" /\ Idle.job = None
      /\ run # Idle => run.job \in Webhook /\ run = [pc |-> run.pc, job |-> run.job]
      /\ run # Idle <=> run.pc # "idle"
      /\ run # Idle => jobs[run.job] = "active"
      /\ Attempts \in Nat /\ MaxStalled \in Nat
  BY DeliveryAssumption DEF TypeInv, TypeOK, Idle, HandlerInv
<1>T. \A w \in Webhook :
        /\ made[w] \in Nat /\ stalls[w] \in Nat /\ Len(rows[w]) \in Nat
        /\ jobs[w] \in {"absent", "waiting", "active", "delayed"} => made[w] < Attempts
  BY <1>0 DEF TypeInv, TypeOK, HandlerInv
<1>1. ASSUME NEW w \in Webhook, Add(w) \/ Take(w) \/ Promote(w) PROVE TriesInv'
  <2>1. /\ rows' = rows /\ made' = made /\ stalls' = stalls
        /\ jobs[w] \in {"absent", "waiting", "delayed"} /\ jobs'[w] \in {"waiting", "active"}
        /\ \A v \in Webhook \ {w} : jobs'[v] = jobs[v]
        /\ run' = run \/ run'.job = w
    BY <1>1 DEF Add, Take, Promote, TypeInv, TypeOK
  <2>2. TriesOf(w)'
    BY <1>T, <2>1 DEF TriesInv, TriesOf
  <2>3. \A v \in Webhook \ {w} : TriesOf(v)'
    BY <2>1, TriesOfOthers DEF TriesInv
  <2> QED
    BY <2>2, <2>3 DEF TriesInv
<1>2. ASSUME NEW w \in Webhook, RecoverStalled(w) PROVE TriesInv'
  <2>1. /\ jobs[w] = "active" /\ run.job # w /\ rows' = rows /\ made' = made /\ run' = run
        /\ \A v \in Webhook \ {w} : jobs'[v] = jobs[v] /\ stalls'[v] = stalls[v]
        /\ \/ jobs'[w] = "waiting" /\ stalls'[w] = stalls[w] + 1
           \/ jobs'[w] = "failed" /\ stalls'[w] = stalls[w]
    BY <1>2 DEF RecoverStalled, TypeInv, TypeOK
  <2>2. TriesOf(w)'
    BY <1>0, <1>T, <2>1 DEF TriesInv, TriesOf
  <2>3. \A v \in Webhook \ {w} : TriesOf(v)'
    BY <2>1, TriesOfOthers DEF TriesInv
  <2> QED
    BY <2>2, <2>3 DEF TriesInv
<1>3. CASE Crash
  BY <1>0, <1>3 DEF Crash, TriesInv, TriesOf
<1>4. CASE UNCHANGED vars
  BY <1>4 DEF vars, TriesInv, TriesOf
<1>5. CASE Insert
  <2>1. /\ run.pc = "insert" /\ run # Idle /\ run.job \in Webhook /\ NewRow(run.job)
        /\ jobs' = jobs /\ made' = made /\ stalls' = stalls /\ run'.pc = "post"
    BY <1>0, <1>5 DEF Insert
  <2>2. /\ Len(rows'[run.job]) = Len(rows[run.job]) + 1
        /\ \A v \in Webhook \ {run.job} : rows'[v] = rows[v]
    BY <2>1, NewRowFacts DEF TypeInv
  <2>3. PICK w \in Webhook : w = run.job
    BY <2>1
  <2>4. TriesOf(w)'
    BY <1>0, <1>T, <2>1, <2>2, <2>3 DEF TriesInv, TriesOf
  <2>5. \A v \in Webhook \ {w} : TriesOf(v)'
    BY <2>1, <2>2, <2>3, TriesOfOthers DEF TriesInv
  <2> QED
    BY <2>4, <2>5 DEF TriesInv
<1>6. CASE InsertFails \/ MarkFailed \/ MarkFailedFails
  <2>0. PICK w \in Webhook : w = run.job
    BY <1>0, <1>6 DEF InsertFails, MarkFailed, MarkFailedFails
  <2>1. /\ run # Idle /\ FailAttempt(w) /\ stalls' = stalls
        /\ run.pc = "insert" \/ Len(rows[w]) > 0
    BY <1>0, <1>6, <2>0 DEF InsertFails, MarkFailed, MarkFailedFails, TypeInv, HandlerInv, WithRow
  <2>2. /\ run' = Idle /\ made'[w] = made[w] + 1 /\ jobs'[w] \in {"delayed", "failed"}
        /\ \A v \in Webhook \ {w} : jobs'[v] = jobs[v] /\ made'[v] = made[v]
    BY <2>0, <2>1, FailAttemptFacts
  <2>3. /\ Len(rows'[w]) <= made[w] + stalls[w] + 1 /\ Len(rows'[w]) \in Nat
        /\ \A v \in Webhook \ {w} : rows'[v] = rows[v]
    <3>1. CASE InsertFails
      <4>1. Len(rows[w]) <= made[w] + stalls[w]
        BY <2>0, <2>1, <3>1 DEF InsertFails, TriesInv, TriesOf
      <4> QED
        BY <1>T, <2>0, <2>1, <3>1, <4>1, NewRowFacts DEF InsertFails, TypeInv
    <3>2. CASE MarkFailed \/ MarkFailedFails
      <4>1. Mark(w, "failed") \/ rows' = rows
        BY <2>0, <3>2 DEF MarkFailed, MarkFailedFails
      <4>2. Len(rows[w]) > 0 /\ "failed" \in RowStatus
        BY <1>0, <2>0, <3>2 DEF MarkFailed, MarkFailedFails, TypeInv, HandlerInv, WithRow, RowStatus
      <4>3. /\ Len(rows'[w]) = Len(rows[w])
            /\ \A v \in Webhook \ {w} : rows'[v] = rows[v]
        BY <2>1, <4>1, <4>2, MarkFacts DEF TypeInv
      <4> QED
        BY <1>0, <1>T, <2>0, <2>1, <4>3 DEF TriesInv, TriesOf
    <3> QED
      BY <1>6, <3>1, <3>2
  <2>4. made[w] < Attempts
    BY <1>0, <1>T, <2>0, <2>1
  <2>5. TriesOf(w)'
    <3>1. /\ Len(rows'[w]) <= made'[w] + stalls'[w]
          /\ Len(rows'[w]) <= Attempts + stalls'[w]
      BY <1>0, <1>T, <2>1, <2>2, <2>3, <2>4
    <3> QED
      BY <1>0, <2>2, <3>1 DEF TriesOf
  <2>6. \A v \in Webhook \ {w} : TriesOf(v)'
    BY <1>0, <2>1, <2>2, <2>3, TriesOfOthers DEF TriesInv
  <2> QED
    BY <2>5, <2>6 DEF TriesInv
<1>7. CASE Post \/ PostFails
  BY <1>0, <1>7 DEF Post, PostFails, TriesInv, TriesOf
<1>8. CASE MarkSent \/ MarkSentFails
  <2>1. /\ run # Idle /\ run.job \in Webhook /\ Len(rows[run.job]) > 0
        /\ "sent" \in RowStatus
        /\ Mark(run.job, "sent") \/ rows' = rows
        /\ jobs' = jobs /\ made' = made /\ stalls' = stalls
        /\ run'.pc # "insert"
    BY <1>0, <1>8 DEF MarkSent, MarkSentFails, TypeInv, HandlerInv, WithRow, RowStatus
  <2>2. \A v \in Webhook : Len(rows'[v]) = Len(rows[v])
    BY <2>1, MarkFacts DEF TypeInv
  <2> QED
    BY <2>1, <2>2 DEF TriesInv, TriesOf
<1>9. CASE Finish
  BY <1>0, <1>9 DEF Finish, TriesInv, TriesOf, TypeInv, TypeOK
<1> QED
  BY <1>1, <1>2, <1>3, <1>4, <1>5, <1>6, <1>7, <1>8, <1>9 DEF Next, Send

\* There are no rows at first.
LEMMA InitTriesInv == Init => TriesInv
<1> SUFFICES ASSUME Init, NEW w \in Webhook PROVE TriesOf(w)
  BY DEF TriesInv
<1>1. Len(rows[w]) = 0 /\ made[w] = 0 /\ stalls[w] = 0 /\ run.pc = "idle" /\ Attempts \in Nat
  BY DeliveryAssumption DEF Init, Idle
<1> QED
  BY <1>1 DEF TriesOf

\* Laravel is called at most once per attempt and once more per rerun.
THEOREM TriesAreBounded == Spec => []TriesBounded
<1>1. TriesInv => TriesBounded
  BY DEF TriesInv, TriesOf, TriesBounded
<1> QED
  BY <1>1, InitTriesInv, NextTriesInv, TypeInvHolds, PTL DEF Spec
-----------------------------------------------------------------------------
(* What it takes for a webhook to be given up. *)

\* Each failed attempt of a job had an error of its own, and each rerun a crash;
\* a job that has failed has used up its attempts or its reruns.
FaultsOf(w) ==
  /\ made[w] <= failures
  /\ run.pc = "markFailed" /\ run.job = w => made[w] < failures
  /\ stalls[w] <= crashes
  /\ jobs[w] = "active" /\ run.job # w => stalls[w] < crashes
  /\ jobs[w] = "failed" => made[w] = Attempts \/ crashes > MaxStalled

FaultsInv == \A w \in Webhook : FaultsOf(w)

\* Every step keeps the account of faults.
LEMMA NextFaultsInv == TypeInv /\ FaultsInv /\ [Next]_vars => FaultsInv'
<1> SUFFICES ASSUME TypeInv, FaultsInv, [Next]_vars PROVE FaultsInv'
  OBVIOUS
<1>0. /\ None \notin Webhook /\ Idle.pc = "idle" /\ Idle.job = None
      /\ run # Idle => run.job \in Webhook /\ run = [pc |-> run.pc, job |-> run.job]
      /\ run # Idle <=> run.pc # "idle"
      /\ run # Idle => jobs[run.job] = "active"
      /\ Attempts \in Nat /\ MaxStalled \in Nat
      /\ failures \in Nat /\ crashes \in Nat
  BY DeliveryAssumption DEF TypeInv, TypeOK, Idle, HandlerInv
<1>T. \A w \in Webhook :
        /\ made[w] \in Nat /\ stalls[w] \in Nat /\ stalls[w] <= MaxStalled
        /\ jobs[w] \in {"absent", "waiting", "active", "delayed"} => made[w] < Attempts
  BY <1>0 DEF TypeInv, TypeOK, HandlerInv
<1>1. ASSUME NEW w \in Webhook, Add(w) \/ Take(w) \/ Promote(w) PROVE FaultsInv'
  <2>1. /\ UNCHANGED <<made, stalls, failures, crashes>>
        /\ jobs'[w] = "waiting" \/ (jobs'[w] = "active" /\ run'.job = w /\ run'.pc = "insert")
        /\ \A v \in Webhook \ {w} : jobs'[v] = jobs[v]
        /\ run' = run \/ (run = Idle /\ run'.job = w /\ run'.pc = "insert")
        /\ jobs[w] # "active"
    BY <1>1 DEF Add, Take, Promote, TypeInv, TypeOK
  <2>2. run'.pc = "markFailed" => run' = run
    BY <2>1
  <2>3. ASSUME NEW v \in Webhook PROVE FaultsOf(v)'
    <3>1. FaultsOf(v)
      BY DEF FaultsInv
    <3>2. CASE v = w
      BY <1>0, <2>1, <2>2, <3>1, <3>2 DEF FaultsOf
    <3>3. CASE v # w
      <4>1. jobs'[v] = jobs[v] /\ (run.job = v => run' = run)
        BY <1>0, <2>1, <3>3
      <4>2. run'.job = v => run' = run
        BY <2>1, <3>3
      <4> QED
        BY <1>0, <2>1, <2>2, <3>1, <4>1, <4>2 DEF FaultsOf
    <3> QED
      BY <3>2, <3>3
  <2> QED
    BY <2>3 DEF FaultsInv
<1>2. ASSUME NEW w \in Webhook, RecoverStalled(w) PROVE FaultsInv'
  <2>1. /\ jobs[w] = "active" /\ run.job # w
        /\ UNCHANGED <<made, run, failures, crashes>>
        /\ \A v \in Webhook \ {w} : jobs'[v] = jobs[v] /\ stalls'[v] = stalls[v]
        /\ \/ jobs'[w] = "waiting" /\ stalls'[w] = stalls[w] + 1
           \/ jobs'[w] = "failed" /\ stalls'[w] = stalls[w] /\ stalls[w] = MaxStalled
    BY <1>2, <1>T, <1>0 DEF RecoverStalled, TypeInv, TypeOK
  <2>2. FaultsOf(w)'
    BY <1>0, <1>T, <2>1 DEF FaultsInv, FaultsOf
  <2>3. \A v \in Webhook \ {w} : FaultsOf(v)'
    BY <2>1 DEF FaultsInv, FaultsOf
  <2> QED
    BY <2>2, <2>3 DEF FaultsInv
<1>3. CASE Crash
  <2>1. /\ UNCHANGED <<jobs, made, stalls, failures>> /\ crashes' = crashes + 1 /\ run' = Idle
    BY <1>3 DEF Crash
  <2> QED
    BY <1>0, <1>T, <2>1 DEF FaultsInv, FaultsOf
<1>4. CASE UNCHANGED vars
  BY <1>4 DEF vars, FaultsInv, FaultsOf
\* A step of sendWebhook, after which the job is still tried.
<1>5. ASSUME run # Idle, UNCHANGED <<jobs, made, stalls, crashes>>,
             failures' \in {failures, failures + 1}, run'.job = run.job,
             run'.pc = "markFailed" => failures' = failures + 1
      PROVE  FaultsInv'
  BY <1>0, <1>T, <1>5 DEF FaultsInv, FaultsOf
<1>6. CASE Insert \/ Post \/ PostFails \/ MarkSent \/ MarkSentFails
  <2>1. PICK p \in {"insert", "post", "markSent"} : run.pc = p
    BY <1>6 DEF Insert, Post, PostFails, MarkSent, MarkSentFails
  <2>2. run # Idle /\ UNCHANGED <<jobs, made, stalls, crashes>>
    BY <1>0, <1>6, <2>1 DEF Insert, Post, PostFails, MarkSent, MarkSentFails
  <2>3. \E q \in {"post", "markSent", "markFailed", "finish"} : run' = [run EXCEPT !.pc = q]
    BY <1>6 DEF Insert, Post, PostFails, MarkSent, MarkSentFails
  <2>4. run'.job = run.job
    BY <1>0, <2>2, <2>3
  <2>5. failures' \in {failures, failures + 1} /\ (run'.pc = "markFailed" => failures' = failures + 1)
    <3>1. CASE Insert \/ Post \/ MarkSent
      <4>1. failures' = failures /\ run'.pc # "markFailed"
        BY <1>0, <2>2, <3>1 DEF Insert, Post, MarkSent
      <4> QED
        BY <4>1
    <3>2. CASE PostFails \/ MarkSentFails
      BY <3>2 DEF PostFails, MarkSentFails, Error
    <3> QED
      BY <1>6, <3>1, <3>2
  <2> QED
    BY <1>5, <2>2, <2>4, <2>5
<1>7. CASE InsertFails \/ MarkFailed \/ MarkFailedFails
  <2>0. PICK w \in Webhook : w = run.job
    BY <1>0, <1>7 DEF InsertFails, MarkFailed, MarkFailedFails
  <2>1. run # Idle /\ FailAttempt(w) /\ UNCHANGED <<stalls, crashes>>
    BY <1>0, <1>7, <2>0 DEF InsertFails, MarkFailed, MarkFailedFails
  <2>2. /\ run' = Idle /\ made'[w] = made[w] + 1 /\ jobs'[w] \in {"delayed", "failed"}
        /\ \A v \in Webhook \ {w} : jobs'[v] = jobs[v] /\ made'[v] = made[v]
    BY <2>0, <2>1, FailAttemptFacts
  <2>3. made[w] < failures' /\ failures' \in {failures, failures + 1}
    <3>1. CASE run.pc = "markFailed"
      BY <1>0, <1>7, <1>T, <2>0, <3>1
         DEF InsertFails, MarkFailed, MarkFailedFails, Error, FaultsInv, FaultsOf
    <3>2. CASE run.pc # "markFailed"
      BY <1>0, <1>7, <1>T, <3>2
         DEF InsertFails, MarkFailed, MarkFailedFails, Error, FaultsInv, FaultsOf
    <3> QED
      BY <3>1, <3>2
  <2>4. jobs'[w] = "failed" => made'[w] = Attempts
    <3>1. jobs'[w] = IF made[w] + 1 < Attempts THEN "delayed" ELSE "failed"
      BY <2>1 DEF FailAttempt, TypeInv, TypeOK
    <3>2. made[w] < Attempts
      BY <1>0, <1>T, <2>0, <2>1
    <3> QED
      BY <1>0, <1>T, <2>2, <3>1, <3>2
  <2>5. stalls[w] <= crashes
    BY DEF FaultsInv, FaultsOf
  <2>6. FaultsOf(w)'
    BY <1>0, <1>T, <2>1, <2>2, <2>3, <2>4, <2>5 DEF FaultsOf
  <2>7. \A v \in Webhook \ {w} : FaultsOf(v)'
    BY <1>0, <1>T, <2>0, <2>1, <2>2, <2>3 DEF FaultsInv, FaultsOf
  <2> QED
    BY <2>6, <2>7 DEF FaultsInv
<1>8. CASE Finish
  <2>0. PICK w \in Webhook : w = run.job
    BY <1>0, <1>8 DEF Finish
  <2>1. /\ run' = Idle /\ jobs'[w] = "completed" /\ \A v \in Webhook \ {w} : jobs'[v] = jobs[v]
        /\ UNCHANGED <<made, stalls, failures, crashes>>
    BY <1>8, <2>0 DEF Finish, TypeInv, TypeOK
  <2> QED
    BY <1>0, <2>0, <2>1 DEF FaultsInv, FaultsOf
<1> QED
  BY <1>1, <1>2, <1>3, <1>4, <1>6, <1>7, <1>8 DEF Next, Send

\* BullMQ gives a webhook up only after as many errors as it has attempts or
\* after more crashes than it has reruns. A webhook that has settled without
\* that many faults reached Laravel (webhook.processor.ts, sendWebhook).
SettledIsReceived ==
  \A w \in Webhook :
    /\ jobs[w] = "failed" => failures >= Attempts \/ crashes > MaxStalled
    /\ jobs[w] = "completed" => \E i \in DOMAIN received[w] : received[w][i]

\* A webhook that is settled reached Laravel, unless there were as many errors as
\* a job has attempts or more crashes than reruns: what is left of
\* EventuallyReceived for the liveness runs is that a webhook settles.
THEOREM SettledWebhooksAreReceived == Spec => []SettledIsReceived
<1>1. Init => FaultsInv
  <2> SUFFICES ASSUME Init, NEW w \in Webhook PROVE FaultsOf(w)
    BY DEF FaultsInv
  <2>1. /\ made[w] = 0 /\ stalls[w] = 0 /\ failures = 0 /\ crashes = 0
        /\ jobs[w] = "absent" /\ run.pc = "idle"
    BY DEF Init, Idle
  <2> QED
    BY <2>1 DEF FaultsOf
<1>2. TypeInv /\ SentInv /\ FaultsInv => SettledIsReceived
  <2> SUFFICES ASSUME TypeInv, SentInv, FaultsInv, NEW w \in Webhook
               PROVE  /\ jobs[w] = "failed" => failures >= Attempts \/ crashes > MaxStalled
                      /\ jobs[w] = "completed" => \E i \in DOMAIN received[w] : received[w][i]
    BY DEF SettledIsReceived
  <2>1. jobs[w] = "failed" => failures >= Attempts \/ crashes > MaxStalled
    BY DeliveryAssumption DEF FaultsInv, FaultsOf, TypeInv, TypeOK
  <2>2. ASSUME jobs[w] = "completed"
        PROVE  \E i \in DOMAIN received[w] : received[w][i]
    <3>1. rows[w] # <<>> /\ received[w][Newest(w)]
      BY <2>2 DEF SentInv, CompletedIsSent
    <3>2. Newest(w) \in DOMAIN received[w]
      <4>1. /\ rows[w] \in Seq(RowStatus) /\ received[w] \in Seq(BOOLEAN)
            /\ Len(rows[w]) = Len(received[w])
        BY DEF TypeInv, TypeOK
      <4> QED
        BY <3>1, <4>1 DEF Newest
    <3> QED
      BY <3>1, <3>2
  <2> QED
    BY <2>1, <2>2
<1> QED
  BY <1>1, <1>2, NextFaultsInv, TypeInvHolds, SentInvHolds, PTL DEF Spec

=============================================================================
