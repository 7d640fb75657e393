------------------------------- MODULE Status -------------------------------
(***************************************************************************)
(* The /status endpoint (status in crates/server/src/server.rs) beside an   *)
(* indexer at work.  The indexer is its abstract specification, EventLog,   *)
(* which Indexer implements; the endpoint reads the watermarks from the     *)
(* database, then the latest checkpoint from an RPC node that may be behind *)
(* the chain, then its own clock, and everything moves between the reads.   *)
(***************************************************************************)
EXTENDS EventLog, Integers

CONSTANTS
    Backfill,         \* the pipelines whose name contains "@backfill"
    Second,           \* clock units in a second
    Params,           \* the query parameters a client sends
    NoPipeline,       \* the empty name
    MaxCheckpoints, MaxClock      \* bounds

ASSUME StatusAssumption ==
    /\ Backfill \subseteq Pipelines /\ NoPipeline \notin Pipelines
    /\ Second \in Nat \ {0} /\ MaxCheckpoints \in Nat /\ MaxClock \in Nat
    /\ \A q \in Params : q.max_checkpoint_lag \in Int /\ q.max_time_lag_seconds \in Int

VARIABLES
    times,       \* times[c]: the timestamp of checkpoint c
    clock,       \* wall-clock time
    node,        \* the latest checkpoint of the RPC node
    request,     \* the request being served
    reply        \* the last answer, until the next request

statusVars == <<times, clock, node, request, reply>>
vars == <<logVars, statusVars>>

Idle == [pc |-> "idle"]
NoReply == [status |-> "none"]

Init ==
    /\ LogInit
    /\ times = <<>> /\ clock = 0 /\ node = 0
    /\ request = Idle /\ reply = NoReply

-----------------------------------------------------------------------------
(* The rest of the world. *)

ChainGrows ==
    /\ Len(published) < MaxCheckpoints
    /\ Publish
    /\ times' = Append(times, clock)
    /\ UNCHANGED <<clock, node, request, reply>>

Index == (Store \/ \E p \in Pipelines : Vouch(p)) /\ UNCHANGED statusVars

NodeSyncs ==
    /\ \E n \in (node + 1)..Len(published) : node' = n
    /\ UNCHANGED <<logVars, times, clock, request, reply>>

Tick ==
    /\ clock < MaxClock /\ clock' = clock + 1
    /\ UNCHANGED <<logVars, times, node, request, reply>>

-----------------------------------------------------------------------------
(* The handler, an await at a time. *)

(* A pipeline has a row once it has committed a watermark. *)
WatermarkRows ==
    {[pipeline |-> p, checkpoint_hi |-> horizon[p], timestamp_ms_hi |-> times[horizon[p]],
      is_backfill |-> p \in Backfill] : p \in {x \in Pipelines : horizon[x] > 0}}

get_watermarks ==
    /\ request = Idle
    /\ \E q \in Params :
          request' = [pc |-> "watermarks", params |-> q, rows |-> WatermarkRows]
    /\ reply' = NoReply
    /\ UNCHANGED <<logVars, times, clock, node>>

get_latest_checkpoint ==
    /\ request.pc = "watermarks"
    /\ request' = [pc |-> "latest", params |-> request.params, rows |-> request.rows,
                   latest |-> node]
    /\ UNCHANGED <<logVars, times, clock, node, reply>>

(* Either of the two reads fails and the client gets an error. *)
Fail ==
    /\ request # Idle
    /\ request' = Idle
    /\ reply' = [status |-> "error"]
    /\ UNCHANGED <<logVars, times, clock, node>>

LiveRows == {r \in request.rows : ~r.is_backfill}
CheckpointLag(r) == request.latest - r.checkpoint_hi

(* Rust divides towards zero; the clock may be behind the chain's time. *)
TimeLagSeconds(r) ==
    LET ms == clock - r.timestamp_ms_hi
    IN  IF ms >= 0 THEN ms \div Second ELSE -((-ms) \div Second)

(* The largest of a set of numbers, or what the code starts from. *)
IsMax(m, S, start) == (m \in S \/ (S = {} /\ m = start)) /\ \A x \in S : x <= m

max_checkpoint_lag(m, worst) ==
    /\ IsMax(m, {0} \cup {CheckpointLag(r) : r \in LiveRows}, 0)
    /\ IF m = 0 THEN worst = NoPipeline
       ELSE \E r \in LiveRows : worst = r.pipeline /\ CheckpointLag(r) = m

earliest_checkpoint(e) ==
    IsMax(-e, {-r.checkpoint_hi : r \in LiveRows}, 0)

(* Mutant of is_healthy: checkpoints only.                                   *)
is_healthyByCheckpoint(lag, seconds) == lag < request.params.max_checkpoint_lag

(* Mutant of is_healthy: a lag equal to the threshold passes.                *)
is_healthyInclusive(lag, seconds) ==
    /\ lag <= request.params.max_checkpoint_lag
    /\ seconds < request.params.max_time_lag_seconds

is_healthy(lag, seconds) ==
    /\ lag < request.params.max_checkpoint_lag
    /\ seconds < request.params.max_time_lag_seconds

Answer ==
    /\ request.pc = "latest"
    /\ \E lag \in 0..Len(published), worst \in Pipelines \cup {NoPipeline},
          earliest \in 0..(MaxCheckpoints + 1), seconds \in -MaxClock..MaxClock :
          /\ max_checkpoint_lag(lag, worst)
          /\ earliest_checkpoint(earliest)
          /\ IsMax(seconds, {TimeLagSeconds(r) : r \in LiveRows}, 0)
          /\ reply' = [status |-> IF is_healthy(lag, seconds) THEN "OK" ELSE "UNHEALTHY",
                       params |-> request.params,
                       latest_onchain_checkpoint |-> request.latest,
                       current_time_ms |-> clock,
                       earliest_checkpoint |-> earliest,
                       max_lag_pipeline |-> worst,
                       rows |-> request.rows]
    /\ request' = Idle
    /\ UNCHANGED <<logVars, times, clock, node>>

Next ==
    \/ ChainGrows
    \/ Index
    \/ NodeSyncs
    \/ Tick
    \/ get_watermarks
    \/ get_latest_checkpoint
    \/ Fail
    \/ Answer

Spec == Init /\ [][Next]_vars
-----------------------------------------------------------------------------
Reported == {r.pipeline : r \in {x \in reply.rows : ~x.is_backfill}}

(* Pipeline p has stored everything that was on the chain `ago' before t. *)
StoredUpTo(p, t, ago) ==
    \A c \in DOMAIN published : times[c] <= t - ago => Of(p, c) \subseteq stored

TypeOK ==
    /\ Len(times) = Len(published) /\ clock \in 0..MaxClock /\ node \in 0..Len(published)
    /\ request.pc \in {"idle", "watermarks", "latest"}
    /\ reply.status \in {"none", "error", "OK", "UNHEALTHY"}
    /\ reply.status \in {"OK", "UNHEALTHY"} => reply.earliest_checkpoint \in 0..Len(published)

(* OK means what the client asked for: every live pipeline with a watermark *)
(* has stored all there was on the chain max_time_lag_seconds before the    *)
(* answer, although the RPC node it was measured against may itself have    *)
(* been far behind (the two tests of is_healthy in status).                 *)
OKMeansFresh ==
    reply.status = "OK" =>
        \A p \in Reported :
            StoredUpTo(p, reply.current_time_ms, reply.params.max_time_lag_seconds * Second)

(* OK also bounds the number of checkpoints: all that lie max_checkpoint_lag*)
(* or more behind the RPC node's latest are stored.                         *)
OKMeansClose ==
    reply.status = "OK" =>
        \A p \in Reported :
            Complete(p, reply.latest_onchain_checkpoint - reply.params.max_checkpoint_lag + 1)

(* The two fields made for alerting agree: the pipeline that is named is    *)
(* the one at earliest_checkpoint, and none is named only if none lags.     *)
AlertNamesTheSlowest ==
    reply.status \in {"OK", "UNHEALTHY"} =>
        IF reply.max_lag_pipeline = NoPipeline
        THEN \A r \in reply.rows : r.is_backfill
                                   \/ r.checkpoint_hi >= reply.latest_onchain_checkpoint
        ELSE \E r \in reply.rows : /\ r.pipeline = reply.max_lag_pipeline
                                   /\ ~r.is_backfill
                                   /\ r.checkpoint_hi = reply.earliest_checkpoint

(* The rest of an answer is sound: earliest_checkpoint is one of the chain, *)
(* OK bounds the checkpoint lag too, and the pipeline named for alerting is *)
(* the slowest (earliest_checkpoint, max_lag_pipeline, is_healthy).         *)
AnswersAreSound == TypeOK /\ OKMeansClose /\ AlertNamesTheSlowest
=============================================================================
