---------------------------- MODULE StatusProofs ----------------------------
(***************************************************************************)
(* Proofs about Status: what the answers of /status mean, for any pipelines,*)
(* any thresholds, any length of the chain and whatever happens between the *)
(* reads of the handler.                                                    *)
(*                                                                         *)
(* The answer is put together from rows that were read some time before.   *)
(* So the invariant follows a row from the moment it is read: what it says  *)
(* was true then and stays true (RowOK), because nothing that is stored     *)
(* goes away and no watermark runs ahead of what is stored.                 *)
(***************************************************************************)
EXTENDS Status, TLAPS

(* The chain: timestamps never go back, and none lies in the future.        *)
ChainOK ==
    /\ published \in Seq(Batches) /\ times \in Seq(Nat)
    /\ Len(times) = Len(published)
    /\ clock \in 0..MaxClock /\ node \in 0..Len(published)
    /\ \A c \in 1..Len(published) : times[c] <= clock
    /\ \A c, d \in 1..Len(published) : c <= d => times[c] <= times[d]

(* The indexer: what EventLog promises.                                     *)
LogOK ==
    /\ horizon \in [Pipelines -> Nat]
    /\ \A p \in Pipelines : horizon[p] <= Len(published) /\ Complete(p, horizon[p])

(* A row that was read from the watermarks by time t.                       *)
RowOK(r, t) ==
    /\ r.pipeline \in Pipelines
    /\ r.checkpoint_hi \in 1..Len(published)
    /\ r.timestamp_ms_hi = times[r.checkpoint_hi]
    /\ r.timestamp_ms_hi <= t
    /\ Complete(r.pipeline, r.checkpoint_hi)

(* The request being served.                                                *)
RequestOK ==
    /\ request.pc \in {"idle", "watermarks", "latest"}
    /\ request.pc \in {"watermarks", "latest"} =>
          request.params \in Params /\ \A r \in request.rows : RowOK(r, clock)
    /\ request.pc = "latest" => request.latest \in 0..Len(published)

(* What an answer of OK says of a row.                                      *)
WithinLags(r) ==
    /\ reply.latest_onchain_checkpoint - r.checkpoint_hi < reply.params.max_checkpoint_lag
    /\ reply.current_time_ms - r.timestamp_ms_hi < reply.params.max_time_lag_seconds * Second

(* The last answer.                                                         *)
ReplyOK ==
    /\ reply.status \in {"none", "error", "OK", "UNHEALTHY"}
    /\ reply.status \in {"OK", "UNHEALTHY"} =>
          /\ reply.params \in Params
          /\ reply.latest_onchain_checkpoint \in 0..Len(published)
          /\ reply.current_time_ms \in 0..clock
          /\ reply.earliest_checkpoint \in 0..Len(published)
          /\ \A r \in reply.rows : RowOK(r, reply.current_time_ms)
          /\ AlertNamesTheSlowest
    /\ reply.status = "OK" => \A r \in reply.rows : ~ r.is_backfill => WithinLags(r)

IInv == ChainOK /\ LogOK /\ RequestOK /\ ReplyOK

-----------------------------------------------------------------------------
(* What every step leaves alone: checkpoints keep their events and their    *)
(* timestamps, what is stored stays stored, time does not go back.          *)
Grows ==
    /\ Len(published) \in Nat /\ Len(published') \in Nat
    /\ Len(published) <= Len(published')
    /\ \A c \in 1..Len(published) : published'[c] = published[c] /\ times'[c] = times[c]
    /\ stored \subseteq stored'
    /\ clock \in Nat /\ clock' \in Nat /\ clock <= clock'

(* What a pipeline has stored it keeps (EventLog).                          *)
LEMMA StaysComplete ==
    ASSUME Grows, NEW p, NEW n \in Nat, n <= Len(published), Complete(p, n)
    PROVE  Complete(p, n)'
<1> SUFFICES ASSUME NEW c \in 1..n
             PROVE  Of(p, c)' \subseteq stored'
  BY DEF Complete
<1>1. c \in 1..Len(published)
  BY DEF Grows
<1>2. Of(p, c) \subseteq stored
  BY DEF Complete
<1> QED BY <1>1, <1>2 DEF Grows, Of

(* A row that was read earlier was read by now.                             *)
LEMMA RowLater ==
    ASSUME NEW r, NEW t \in Nat, NEW u \in Nat, t <= u, RowOK(r, t), ChainOK
    PROVE  RowOK(r, u)
<1>1. r.timestamp_ms_hi \in Nat /\ r.timestamp_ms_hi <= t
  BY DEF RowOK, ChainOK
<1>2. r.timestamp_ms_hi <= u
  BY <1>1
<1> QED BY <1>2 DEF RowOK

(* A quotient below a bound (the division by 1000 in status).               *)
LEMMA QuotientBelow ==
    ASSUME NEW m \in Nat, NEW d \in Nat \ {0}, NEW q \in Int, m \div d < q
    PROVE  m < q * d
<1>1. m \div d \in Nat /\ m < d * (m \div d) + d
  OBVIOUS
<1> DEFINE k == m \div d
<1> HIDE DEF k
<1>2. k \in Nat /\ k + 1 <= q /\ m < d * k + d
  BY <1>1 DEF k
<1>3. q - (k + 1) \in Nat
  BY <1>2
<1>4. (q - (k + 1)) * d >= 0
  BY <1>3
<1>5. (q - (k + 1)) * d = q * d - (d * k + d)
  BY <1>2
<1> QED BY <1>2, <1>4, <1>5

(* No step takes anything away.                                             *)
LEMMA StepGrows ==
    ASSUME IInv, [Next]_vars
    PROVE  Grows
<1>1. /\ published \in Seq(Batches) /\ Len(published) \in Nat
      /\ times \in Seq(Nat) /\ Len(times) = Len(published)
      /\ clock \in Nat
  BY StatusAssumption DEF IInv, ChainOK
<1>2. CASE ChainGrows
  <2>1. PICK b \in Batches : published' = Append(published, b)
    BY <1>2 DEF ChainGrows, Publish
  <2>2. times' = Append(times, clock) /\ stored' = stored /\ clock' = clock
    BY <1>2 DEF ChainGrows, Publish
  <2>3. Len(published') = Len(published) + 1
        /\ \A c \in 1..Len(published) : published'[c] = published[c]
    BY <1>1, <2>1
  <2>4. \A c \in 1..Len(published) : times'[c] = times[c]
    BY <1>1, <2>2
  <2> QED BY <1>1, <2>2, <2>3, <2>4 DEF Grows
<1>3. CASE UNCHANGED <<published, times, clock>> /\ stored \subseteq stored'
  BY <1>1, <1>3 DEF Grows
<1>4. CASE Index
  BY <1>3, <1>4 DEF Index, Store, Vouch, statusVars
<1>5. CASE NodeSyncs
  BY <1>3, <1>5 DEF NodeSyncs, logVars
<1>6. CASE Tick
  BY <1>1, <1>6, StatusAssumption DEF Tick, Grows, logVars
<1>7. CASE get_watermarks \/ get_latest_checkpoint \/ Fail \/ Answer
  BY <1>3, <1>7 DEF get_watermarks, get_latest_checkpoint, Fail, Answer, logVars
<1>8. CASE UNCHANGED vars
  BY <1>3, <1>8 DEF vars, logVars, statusVars
<1> QED BY <1>2, <1>4, <1>5, <1>6, <1>7, <1>8 DEF Next

(* The chain stays in order.                                                *)
LEMMA ChainStep ==
    ASSUME IInv, [Next]_vars
    PROVE  ChainOK'
<1>1. /\ published \in Seq(Batches) /\ Len(published) \in Nat
      /\ times \in Seq(Nat) /\ Len(times) = Len(published)
      /\ clock \in 0..MaxClock /\ clock \in Nat /\ MaxClock \in Nat
      /\ node \in 0..Len(published)
      /\ \A c \in 1..Len(published) : times[c] <= clock /\ times[c] \in Nat
      /\ \A c, d \in 1..Len(published) : c <= d => times[c] <= times[d]
  BY StatusAssumption DEF IInv, ChainOK
<1>2. CASE ChainGrows
  <2> DEFINE n == Len(published)
  <2>1. PICK b \in Batches : published' = Append(published, b)
    BY <1>2 DEF ChainGrows, Publish
  <2>2. times' = Append(times, clock) /\ clock' = clock /\ node' = node
    BY <1>2 DEF ChainGrows, Publish
  <2>3. Len(published') = n + 1 /\ published' \in Seq(Batches)
    BY <1>1, <2>1
  <2>4. /\ times' \in Seq(Nat) /\ Len(times') = n + 1 /\ times'[n + 1] = clock
        /\ \A c \in 1..n : times'[c] = times[c]
    BY <1>1, <2>2
  <2>5. \A c \in 1..(n + 1) : c \in 1..n \/ c = n + 1
    BY <1>1
  <2> HIDE DEF n
  <2>6. \A c \in 1..(n + 1) : times'[c] <= clock'
    BY <1>1, <2>2, <2>4, <2>5 DEF n
  <2>7. ASSUME NEW c \in 1..(n + 1), NEW d \in 1..(n + 1), c <= d
        PROVE  times'[c] <= times'[d]
    <3>1. CASE d = n + 1
      BY <2>2, <2>4, <2>6, <3>1
    <3>2. CASE d # n + 1
      <4>1. d \in 1..n /\ c \in 1..n
        BY <1>1, <2>5, <2>7, <3>2 DEF n
      <4> QED BY <1>1, <2>4, <2>7, <4>1 DEF n
    <3> QED BY <3>1, <3>2
  <2>8. node' \in 0..(n + 1)
    BY <1>1, <2>2 DEF n
  <2> QED BY <1>1, <2>2, <2>3, <2>4, <2>6, <2>7, <2>8 DEF ChainOK
<1>3. CASE UNCHANGED <<published, times, clock, node>>
  BY <1>3 DEF IInv, ChainOK
<1>4. CASE Index
  BY <1>3, <1>4 DEF Index, Store, Vouch, statusVars
<1>5. CASE NodeSyncs
  <2>1. node' \in 0..Len(published) /\ UNCHANGED <<published, times, clock>>
    BY <1>1, <1>5 DEF NodeSyncs, logVars
  <2> QED BY <2>1 DEF IInv, ChainOK
<1>6. CASE Tick
  <2>1. clock' = clock + 1 /\ clock' \in 0..MaxClock /\ UNCHANGED <<published, times, node>>
    BY <1>1, <1>6 DEF Tick, logVars
  <2>2. \A c \in 1..Len(published) : times[c] <= clock'
    BY <1>1, <2>1
  <2> QED BY <2>1, <2>2 DEF IInv, ChainOK
<1>7. CASE get_watermarks \/ get_latest_checkpoint \/ Fail \/ Answer
  BY <1>3, <1>7 DEF get_watermarks, get_latest_checkpoint, Fail, Answer, logVars
<1>8. CASE UNCHANGED vars
  BY <1>3, <1>8 DEF vars, logVars, statusVars
<1> QED BY <1>2, <1>4, <1>5, <1>6, <1>7, <1>8 DEF Next

(* A pipeline vouches only for what it has stored.                          *)
LEMMA LogStep ==
    ASSUME IInv, [Next]_vars
    PROVE  LogOK'
<1>1. Grows
  BY StepGrows
<1>2. /\ horizon \in [Pipelines -> Nat] /\ Len(published) \in Nat
      /\ \A p \in Pipelines : horizon[p] <= Len(published) /\ Complete(p, horizon[p])
  BY <1>1 DEF IInv, LogOK, Grows
<1>3. CASE horizon' = horizon
  <2>1. ASSUME NEW p \in Pipelines
        PROVE  horizon'[p] <= Len(published') /\ Complete(p, horizon[p])'
    <3>1. horizon[p] \in Nat /\ horizon[p] <= Len(published) /\ Complete(p, horizon[p])
      BY <1>2
    <3> DEFINE n == horizon[p]
    <3>2. n <= Len(published')
      BY <1>1, <3>1 DEF Grows
    <3>3. \A c \in 1..n : Of(p, c) \subseteq stored /\ c \in 1..Len(published)
      BY <1>1, <3>1 DEF Grows, Complete
    <3>4. \A c \in 1..n : Of(p, c)' \subseteq stored'
      BY <1>1, <3>3 DEF Grows, Of
    <3> QED BY <1>3, <3>2, <3>4 DEF Complete
  <2> QED BY <1>2, <1>3, <2>1 DEF LogOK
<1>4. ASSUME NEW q \in Pipelines, Vouch(q)
      PROVE  LogOK'
  <2>1. PICK n \in (horizon[q] + 1)..Len(published) :
              Complete(q, n) /\ horizon' = [horizon EXCEPT ![q] = n]
    BY <1>4 DEF Vouch
  <2>2. n \in Nat /\ n <= Len(published) /\ UNCHANGED <<published, stored>>
    BY <1>2, <1>4 DEF Vouch
  <2>3. ASSUME NEW p \in Pipelines
        PROVE  horizon'[p] <= Len(published') /\ Complete(p, horizon[p])'
    BY <1>2, <2>1, <2>2 DEF Complete, Of
  <2> QED BY <1>2, <2>1, <2>2, <2>3 DEF LogOK
<1>5. CASE Index
  BY <1>3, <1>4, <1>5 DEF Index, Store
<1>6. CASE ~ Index
  BY <1>3, <1>6 DEF Next, ChainGrows, Publish, NodeSyncs, Tick, get_watermarks,
                    get_latest_checkpoint, Fail, Answer, vars, logVars
<1> QED BY <1>5, <1>6
(* A request keeps what it read (get_watermarks, then the other await).     *)
LEMMA RequestStep ==
    ASSUME IInv, [Next]_vars
    PROVE  RequestOK'
<1>1. Grows /\ RequestOK /\ ChainOK /\ LogOK /\ ChainOK'
  BY StepGrows, ChainStep DEF IInv
<1>2. ASSUME NEW r, RowOK(r, clock)
      PROVE  RowOK(r, clock)'
  <2>1. RowOK(r, clock')
    BY <1>1, <1>2, RowLater DEF Grows
  <2> QED BY <1>1, <2>1 DEF RowOK, Grows, Complete, Of
<1>3. CASE request' = request
  <2>1. Len(published) \in Nat /\ Len(published') \in Nat /\ Len(published) <= Len(published')
    BY <1>1 DEF Grows
  <2>2. \A x \in 0..Len(published) : x \in 0..Len(published')
    BY <2>1
  <2>3. request'.pc \in {"watermarks", "latest"} =>
          request'.params \in Params /\ \A r \in request'.rows : RowOK(r, clock)'
    BY <1>1, <1>2, <1>3 DEF RequestOK
  <2>4. request'.pc = "latest" => request'.latest \in 0..Len(published')
    BY <1>1, <1>3, <2>2 DEF RequestOK
  <2> QED BY <1>1, <1>3, <2>3, <2>4 DEF RequestOK
<1>4. CASE request' = Idle
  BY <1>4 DEF RequestOK, Idle
<1>5. CASE get_watermarks
  <2>1. PICK q \in Params :
            request' = [pc |-> "watermarks", params |-> q, rows |-> WatermarkRows]
    BY <1>5 DEF get_watermarks
  <2>2. UNCHANGED <<published, stored, times, clock>>
    BY <1>5 DEF get_watermarks, logVars
  <2>3. ASSUME NEW r \in WatermarkRows
        PROVE  RowOK(r, clock)
    <3>1. PICK p \in Pipelines :
              /\ horizon[p] > 0 /\ r.pipeline = p /\ r.checkpoint_hi = horizon[p]
              /\ r.timestamp_ms_hi = times[horizon[p]]
      BY <2>3 DEF WatermarkRows
    <3>2. horizon[p] \in 1..Len(published) /\ Complete(p, horizon[p])
      BY <1>1, <3>1 DEF LogOK, Grows
    <3>3. times[horizon[p]] <= clock
      BY <1>1, <3>2 DEF ChainOK
    <3> QED BY <3>1, <3>2, <3>3 DEF RowOK
  <2>4. \A r \in WatermarkRows : RowOK(r, clock)'
    BY <1>2, <2>3
  <2>5. request'.pc = "watermarks" /\ request'.params = q /\ request'.rows = WatermarkRows
    BY <2>1
  <2> QED BY <2>4, <2>5 DEF RequestOK
<1>6. CASE get_latest_checkpoint
  <2>1. /\ request.pc = "watermarks" /\ request'.pc = "latest" /\ request'.latest = node
        /\ request'.params = request.params /\ request'.rows = request.rows
        /\ UNCHANGED <<published, times, stored, clock>>
    BY <1>6 DEF get_latest_checkpoint, logVars
  <2>2. node \in 0..Len(published')
    BY <1>1, <2>1 DEF ChainOK
  <2>3. \A r \in request'.rows : RowOK(r, clock)'
    BY <1>1, <1>2, <2>1 DEF RequestOK
  <2> QED BY <1>1, <2>1, <2>2, <2>3 DEF RequestOK
<1>7. CASE Fail \/ Answer
  BY <1>4, <1>7 DEF Fail, Answer
<1>8. CASE Index
  BY <1>3, <1>8 DEF Index, statusVars
<1>9. CASE ChainGrows \/ NodeSyncs \/ Tick \/ UNCHANGED vars
  BY <1>3, <1>9 DEF ChainGrows, NodeSyncs, Tick, vars, statusVars
<1> QED BY <1>5, <1>6, <1>7, <1>8, <1>9 DEF Next

(* The rows that a request judges, and their lags.                          *)
LEMMA LiveFacts ==
    ASSUME IInv, request.pc = "latest", NEW r \in request.rows
    PROVE  /\ RowOK(r, clock) /\ r.pipeline \in Pipelines
           /\ r.checkpoint_hi \in Nat /\ r.checkpoint_hi \in 1..Len(published)
           /\ request.latest \in Nat /\ CheckpointLag(r) \in Int
           /\ r.timestamp_ms_hi \in Nat /\ clock \in Nat
           /\ clock - r.timestamp_ms_hi \in Nat
           /\ TimeLagSeconds(r) = (clock - r.timestamp_ms_hi) \div Second
<1>1. /\ RowOK(r, clock) /\ Len(published) \in Nat /\ request.latest \in 0..Len(published)
      /\ clock \in Nat
  BY StatusAssumption DEF IInv, RequestOK, ChainOK
<1>2. /\ r.pipeline \in Pipelines /\ r.checkpoint_hi \in 1..Len(published)
      /\ r.timestamp_ms_hi = times[r.checkpoint_hi] /\ r.timestamp_ms_hi <= clock
  BY <1>1 DEF RowOK
<1>3. r.timestamp_ms_hi \in Nat
  BY <1>2 DEF IInv, ChainOK
<1>4. clock - r.timestamp_ms_hi \in Nat /\ clock - r.timestamp_ms_hi >= 0
  BY <1>1, <1>2, <1>3
<1>5. TimeLagSeconds(r) = (clock - r.timestamp_ms_hi) \div Second
  BY <1>4 DEF TimeLagSeconds
<1> QED BY <1>1, <1>2, <1>3, <1>4, <1>5 DEF CheckpointLag

(* The answer of status: the figures it gives, and what OK means.           *)
LEMMA AnswerFacts ==
    ASSUME IInv, Answer
    PROVE  /\ reply'.status \in {"OK", "UNHEALTHY"}
           /\ reply'.params = request.params /\ request.params \in Params
           /\ reply'.latest_onchain_checkpoint = request.latest
           /\ request.latest \in 0..Len(published)
           /\ reply'.current_time_ms = clock /\ reply'.rows = request.rows
           /\ reply'.earliest_checkpoint \in 0..Len(published)
           /\ AlertNamesTheSlowest'
           /\ reply'.status = "OK" =>
                \A r \in LiveRows :
                   /\ request.latest - r.checkpoint_hi < request.params.max_checkpoint_lag
                   /\ clock - r.timestamp_ms_hi
                        < request.params.max_time_lag_seconds * Second
<1>1. /\ request.pc = "latest" /\ Len(published) \in Nat
      /\ request.latest \in 0..Len(published) /\ request.params \in Params
      /\ request.latest \in Nat
  BY DEF Answer, IInv, RequestOK, ChainOK
<1>2. PICK lag \in 0..Len(published), worst \in Pipelines \cup {NoPipeline},
           earliest \in 0..(MaxCheckpoints + 1), seconds \in -MaxClock..MaxClock :
          /\ max_checkpoint_lag(lag, worst)
          /\ earliest_checkpoint(earliest)
          /\ IsMax(seconds, {TimeLagSeconds(r) : r \in LiveRows}, 0)
          /\ reply' = [status |-> IF is_healthy(lag, seconds) THEN "OK" ELSE "UNHEALTHY",
                       params |-> request.params,
                       latest_onchain_checkpoint |-> request.latest,
                       current_time_ms |-> clock,
                       earliest_checkpoint |-> earliest,
                       max_lag_pipeline |-> worst,
                       rows |-> request.rows]
  BY DEF Answer
<1>3. /\ reply'.status = (IF is_healthy(lag, seconds) THEN "OK" ELSE "UNHEALTHY")
      /\ reply'.params = request.params /\ reply'.rows = request.rows
      /\ reply'.latest_onchain_checkpoint = request.latest
      /\ reply'.current_time_ms = clock /\ reply'.earliest_checkpoint = earliest
      /\ reply'.max_lag_pipeline = worst
  BY <1>2
<1>4. lag \in Int /\ earliest \in Int /\ seconds \in Int /\ earliest >= 0
      /\ Second \in Nat \ {0}
  BY <1>1, StatusAssumption
<1>5. ASSUME NEW r \in LiveRows
      PROVE  /\ r \in request.rows /\ ~ r.is_backfill
             /\ CheckpointLag(r) <= lag /\ TimeLagSeconds(r) <= seconds
             /\ -r.checkpoint_hi <= -earliest
  BY <1>2 DEF LiveRows, max_checkpoint_lag, earliest_checkpoint, IsMax
<1>6. ASSUME NEW r \in LiveRows
      PROVE  /\ r.checkpoint_hi \in 1..Len(published) /\ r.checkpoint_hi \in Nat
             /\ CheckpointLag(r) = request.latest - r.checkpoint_hi
             /\ CheckpointLag(r) \in Int
             /\ clock - r.timestamp_ms_hi \in Nat
             /\ TimeLagSeconds(r) = (clock - r.timestamp_ms_hi) \div Second
             /\ r.pipeline \in Pipelines
  BY <1>1, <1>5, LiveFacts DEF CheckpointLag
<1>7. earliest \in 0..Len(published)
  <2>1. CASE \E r \in LiveRows : -earliest = -r.checkpoint_hi
    <3>1. PICK r \in LiveRows : -earliest = -r.checkpoint_hi
      BY <2>1
    <3> QED BY <1>1, <1>4, <1>6, <3>1
  <2>2. CASE ~ \E r \in LiveRows : -earliest = -r.checkpoint_hi
    <3>1. -earliest = 0
      BY <1>2, <2>2 DEF earliest_checkpoint, IsMax
    <3> QED BY <1>1, <1>4, <3>1
  <2> QED BY <2>1, <2>2
<1>8. AlertNamesTheSlowest'
  <2>1. CASE lag = 0
    <3>1. worst = NoPipeline
      BY <1>2, <2>1 DEF max_checkpoint_lag
    <3>2. ASSUME NEW r \in request.rows, ~ r.is_backfill
          PROVE  r.checkpoint_hi >= request.latest
      <4>1. r \in LiveRows
        BY <3>2 DEF LiveRows
      <4>2. request.latest - r.checkpoint_hi <= 0 /\ r.checkpoint_hi \in Nat
        BY <1>5, <1>6, <2>1, <4>1
      <4> QED BY <1>1, <4>2
    <3> QED BY <1>3, <3>1, <3>2 DEF AlertNamesTheSlowest
  <2>2. CASE lag # 0
    <3>1. PICK r \in LiveRows : worst = r.pipeline /\ CheckpointLag(r) = lag
      BY <1>2, <2>2 DEF max_checkpoint_lag
    <3>2. r \in request.rows /\ ~ r.is_backfill /\ worst \in Pipelines
      BY <1>5, <1>6, <3>1
    <3>3. worst # NoPipeline
      BY <3>2, StatusAssumption
    <3>4. r.checkpoint_hi = earliest
      <4>1. earliest <= r.checkpoint_hi
        BY <1>4, <1>5, <1>6
      <4>2. PICK s \in LiveRows : -earliest = -s.checkpoint_hi
        BY <1>2 DEF earliest_checkpoint, IsMax
      <4>3. /\ s.checkpoint_hi \in Nat /\ request.latest - s.checkpoint_hi <= lag
            /\ lag = request.latest - r.checkpoint_hi /\ r.checkpoint_hi \in Nat
        BY <1>5, <1>6, <3>1, <4>2
      <4> QED BY <1>1, <1>4, <4>1, <4>2, <4>3
    <3> QED BY <1>3, <3>1, <3>2, <3>3, <3>4 DEF AlertNamesTheSlowest
  <2> QED BY <2>1, <2>2
<1>9. ASSUME reply'.status = "OK", NEW r \in LiveRows
      PROVE  /\ request.latest - r.checkpoint_hi < request.params.max_checkpoint_lag
             /\ clock - r.timestamp_ms_hi < request.params.max_time_lag_seconds * Second
  <2> DEFINE m == clock - r.timestamp_ms_hi
             q == request.params.max_time_lag_seconds
             a == request.params.max_checkpoint_lag
             b == request.latest - r.checkpoint_hi
  <2>1. lag < a /\ seconds < q
    BY <1>3, <1>9 DEF is_healthy
  <2>2. q \in Int /\ a \in Int
    BY <1>1, StatusAssumption
  <2>3. b \in Int /\ b <= lag /\ m \in Nat /\ m \div Second <= seconds
    BY <1>5, <1>6
  <2> HIDE DEF m, q, a, b
  <2>4. b < a
    BY <1>4, <2>1, <2>2, <2>3
  <2>5. m \div Second < q
    <3>1. m \div Second \in Int
      BY <1>4, <2>3
    <3> QED BY <1>4, <2>1, <2>2, <2>3, <3>1
  <2>6. m < q * Second
    BY <1>4, <2>2, <2>3, <2>5, QuotientBelow
  <2> QED BY <2>4, <2>6 DEF m, q, a, b
<1> QED BY <1>1, <1>3, <1>7, <1>8, <1>9
(* An answer stays true while the world goes on (the reply of status).      *)
LEMMA ReplyStep ==
    ASSUME IInv, [Next]_vars
    PROVE  ReplyOK'
<1>1. Grows /\ ReplyOK /\ ChainOK /\ RequestOK /\ ChainOK'
  BY StepGrows, ChainStep DEF IInv
<1>2. /\ \A x \in 0..Len(published) : x \in 0..Len(published')
      /\ \A x \in 0..clock : x \in 0..clock'
  BY <1>1 DEF Grows
<1>3. CASE reply' = reply
  <2> DEFINE now == reply.current_time_ms
  <2>1. ASSUME reply.status \in {"OK", "UNHEALTHY"}
        PROVE  /\ reply.params \in Params
               /\ reply.latest_onchain_checkpoint \in 0..Len(published')
               /\ now \in 0..clock'
               /\ reply.earliest_checkpoint \in 0..Len(published')
               /\ \A r \in reply.rows : RowOK(r, now)'
               /\ AlertNamesTheSlowest'
    <3>1. \A r \in reply.rows : RowOK(r, now)
      BY <1>1, <2>1 DEF ReplyOK
    <3>2. ASSUME NEW r \in reply.rows
          PROVE  RowOK(r, now)'
      <4>1. RowOK(r, now)
        BY <3>1
      <4>2. now' = now
        BY <1>3
      <4> HIDE DEF now
      <4> QED BY <1>1, <4>1, <4>2, StaysComplete DEF RowOK, Grows
    <3>3. AlertNamesTheSlowest'
      BY <1>1, <1>3, <2>1 DEF ReplyOK, AlertNamesTheSlowest
    <3> QED BY <1>1, <1>2, <2>1, <3>2, <3>3 DEF ReplyOK
  <2>2. reply.status = "OK" => \A r \in reply.rows : ~ r.is_backfill => WithinLags(r)'
    BY <1>1, <1>3 DEF ReplyOK, WithinLags
  <2> QED BY <1>1, <1>3, <2>1, <2>2 DEF ReplyOK
<1>4. CASE Answer
  <2>1. /\ reply'.status \in {"OK", "UNHEALTHY"} /\ request.pc = "latest"
        /\ reply'.params = request.params /\ request.params \in Params
        /\ reply'.latest_onchain_checkpoint = request.latest
        /\ request.latest \in 0..Len(published)
        /\ reply'.current_time_ms = clock /\ reply'.rows = request.rows
        /\ reply'.earliest_checkpoint \in 0..Len(published)
        /\ AlertNamesTheSlowest'
    BY <1>4, AnswerFacts DEF Answer
  <2>2. ASSUME reply'.status = "OK", NEW r \in request.rows, ~ r.is_backfill
        PROVE  WithinLags(r)'
    <3>1. r \in LiveRows
      BY <2>2 DEF LiveRows
    <3>2. /\ request.latest - r.checkpoint_hi < request.params.max_checkpoint_lag
          /\ clock - r.timestamp_ms_hi < request.params.max_time_lag_seconds * Second
      BY <1>4, <2>2, <3>1, AnswerFacts
    <3> QED BY <2>1, <3>2 DEF WithinLags
  <2>3. clock \in 0..clock' /\ clock' = clock /\ UNCHANGED <<published, times, stored>>
    BY <1>1, <1>4 DEF Answer, Grows, logVars
  <2>4. \A r \in request.rows : RowOK(r, clock)
    BY <1>1, <2>1 DEF RequestOK
  <2>5. \A r \in request.rows : RowOK(r, reply.current_time_ms)'
    BY <2>1, <2>3, <2>4 DEF RowOK, Complete, Of
  <2> QED BY <2>1, <2>2, <2>3, <2>5 DEF ReplyOK
<1>5. CASE get_watermarks \/ Fail
  BY <1>5 DEF get_watermarks, Fail, ReplyOK, NoReply
<1>6. CASE Index
  BY <1>3, <1>6 DEF Index, statusVars
<1>7. CASE ChainGrows \/ NodeSyncs \/ Tick \/ get_latest_checkpoint \/ UNCHANGED vars
  BY <1>3, <1>7 DEF ChainGrows, NodeSyncs, Tick, get_latest_checkpoint, vars, statusVars
<1> QED BY <1>4, <1>5, <1>6, <1>7 DEF Next

-----------------------------------------------------------------------------
(* What the rows of an answer say holds, step after step.                   *)
THEOREM Invariance == Spec => []IInv
<1>1. Init => IInv
  <2> SUFFICES ASSUME Init PROVE IInv
    OBVIOUS
  <2>1. published = <<>> /\ times = <<>> /\ Len(<<>>) = 0 /\ clock = 0 /\ node = 0
        /\ request.pc = "idle" /\ reply.status = "none"
    BY DEF Init, LogInit, Idle, NoReply
  <2>2. <<>> \in Seq(Batches) /\ <<>> \in Seq(Nat)
    OBVIOUS
  <2>3. ChainOK
    BY <2>1, <2>2, StatusAssumption DEF ChainOK
  <2>4. LogOK
    BY <2>1 DEF Init, LogInit, LogOK, Complete
  <2> QED BY <2>1, <2>3, <2>4 DEF IInv, RequestOK, ReplyOK
<1>2. IInv /\ [Next]_vars => IInv'
  BY ChainStep, LogStep, RequestStep, ReplyStep DEF IInv
<1> QED BY <1>1, <1>2, PTL DEF Spec

(* An OK is as fresh as the client asked for, whatever the RPC node and the *)
(* indexer did between the two reads (is_healthy in status).                *)
THEOREM OKIsFresh == Spec => []OKMeansFresh
<1>1. IInv => OKMeansFresh
  <2> SUFFICES ASSUME IInv, reply.status = "OK", NEW p \in Reported,
                      NEW c \in DOMAIN published,
                      times[c] <= reply.current_time_ms
                                    - reply.params.max_time_lag_seconds * Second
               PROVE  Of(p, c) \subseteq stored
    BY DEF OKMeansFresh, StoredUpTo
  <2>1. PICK r \in reply.rows : ~ r.is_backfill /\ r.pipeline = p
    BY DEF Reported
  <2>2. RowOK(r, reply.current_time_ms) /\ WithinLags(r)
    BY <2>1 DEF IInv, ReplyOK
  <2> DEFINE hi == r.checkpoint_hi
             ago == reply.params.max_time_lag_seconds * Second
             t == reply.current_time_ms
  <2>3. ago \in Int /\ t \in Int
    <3>1. reply.params \in Params /\ t \in 0..clock
      BY DEF IInv, ReplyOK
    <3> QED BY <3>1, StatusAssumption
  <2>4. /\ c \in 1..Len(published) /\ hi \in 1..Len(published)
        /\ times[c] \in Nat /\ times[hi] \in Nat
        /\ \A i, j \in 1..Len(published) : i <= j => times[i] <= times[j]
        /\ Len(published) \in Nat
    BY <2>2 DEF IInv, ChainOK, RowOK
  <2>5. t - times[hi] < ago /\ times[c] <= t - ago
    BY <2>2 DEF WithinLags, RowOK
  <2> HIDE DEF t, ago
  <2>6. times[c] < times[hi]
    BY <2>3, <2>4, <2>5
  <2>7. c \in 1..hi
    BY <2>4, <2>6
  <2> QED BY <2>1, <2>2, <2>7 DEF RowOK, Complete
<1> QED BY <1>1, Invariance, PTL

(* The figures of an answer are those of the chain, OK bounds the number of *)
(* checkpoints too, and the alert names the slowest pipeline (status).      *)
THEOREM AnswersAlwaysSound == Spec => []AnswersAreSound
<1>1. IInv => TypeOK
  BY DEF IInv, ChainOK, RequestOK, ReplyOK, TypeOK
<1>2. IInv => OKMeansClose
  <2> SUFFICES ASSUME IInv, reply.status = "OK", NEW p \in Reported,
                      NEW c \in 1..(reply.latest_onchain_checkpoint
                                      - reply.params.max_checkpoint_lag + 1)
               PROVE  Of(p, c) \subseteq stored
    BY DEF OKMeansClose, Complete
  <2>1. PICK r \in reply.rows : ~ r.is_backfill /\ r.pipeline = p
    BY DEF Reported
  <2>2. RowOK(r, reply.current_time_ms) /\ WithinLags(r)
    BY <2>1 DEF IInv, ReplyOK
  <2>3. /\ reply.latest_onchain_checkpoint \in Nat /\ r.checkpoint_hi \in Nat
        /\ reply.params.max_checkpoint_lag \in Int
    BY <2>2, StatusAssumption DEF IInv, ReplyOK, RowOK, ChainOK
  <2>4. c \in 1..r.checkpoint_hi
    BY <2>2, <2>3 DEF WithinLags
  <2> QED BY <2>1, <2>2, <2>4 DEF RowOK, Complete
<1>3. IInv => AlertNamesTheSlowest
  BY DEF IInv, ReplyOK, AlertNamesTheSlowest
<1>4. IInv => AnswersAreSound
  BY <1>1, <1>2, <1>3 DEF AnswersAreSound
<1> QED BY <1>4, Invariance, PTL
=============================================================================
