------------------------------ MODULE Indexer ------------------------------
(***************************************************************************)
(* The indexer process (crates/indexer/src/main.rs) over the handlers:      *)
(* starting it in production or sandbox mode, its pipelines working through *)
(* the chain's checkpoints independently of one another, and crashes.       *)
(*                                                                         *)
(* The pipelines are driven by sui-indexer-alt-framework, which is not part *)
(* of the repository and is modelled from how the handlers use it: several  *)
(* checkpoints are processed at once and out of order, the rows of one or   *)
(* of several checkpoints are committed in batches, a batch whose outcome   *)
(* is unknown is committed again, a checkpoint whose processing fails is    *)
(* tried again, and a watermark per pipeline is stored in the database once *)
(* everything up to it is committed; a restarted process resumes above it.  *)
(***************************************************************************)
EXTENDS Handlers, FiniteSets

CONSTANTS
    Watched,          \* the pipelines followed (they only share tables)
    Blocks,           \* the sequences of transactions a checkpoint can hold
    Modes,            \* the command lines
    Fanout,           \* checkpoints a pipeline processes at a time
    MaxCheckpoints,   \* bound on the chain
    MaxCrashes        \* bound on the crashes

ASSUME IndexerAssumption ==
    /\ Watched \subseteq AllHandlers
    /\ Fanout \in Nat \ {0} /\ MaxCheckpoints \in Nat /\ MaxCrashes \in Nat

(* A process that is no sandbox is told one of the two networks, or none.   *)
ASSUME ModesAssumption ==
    \A m \in Modes : /\ m.sandbox \in BOOLEAN
                     /\ ~m.sandbox => m.env \in {"Mainnet", "Testnet", NULL}

(* An event with new trade parameters is emitted by a call on the pool they *)
(* are for, which is then an input of the transaction.                      *)
ASSUME BlocksAssumption ==
    \A b \in Blocks : \A t \in DOMAIN b :
        /\ b[t].inputs \in Seq(Elements(b[t].inputs))
        /\ \A e \in Elements(b[t].events) : e.type \in TradeParamsUpdateHandler.events =>
              \E o \in Elements(b[t].inputs) :
                  o.package = e.package /\ o.name = "Pool" /\ o.id = e.pool

VARIABLES
    chain,      \* the checkpoints, a sequence
    mode,       \* the command line, the same for every start
    up,         \* whether the process runs
    cfg,        \* its environment and sandbox override
    registered, \* the pipelines it runs
    pending,    \* per pipeline: checkpoint -> rows not known to be committed
    tables,     \* the database: table -> key -> row
    watermark,  \* the database: the watermark of each pipeline
    crashes

vars == <<chain, mode, up, cfg, registered, pending, tables, watermark, crashes>>

Names == {h.name : h \in Watched}
Tables == {h.table : h \in Watched}
Empty == <<>>

-----------------------------------------------------------------------------
(* main: the command line decides the environment, the override and the    *)
(* pipelines.  A sandbox command line without margin packages drops the     *)
(* margin pipelines.                                                        *)

StartAllowed(m) ==
    IF m.sandbox THEN m.env = "Localnet" => m.local_ingestion_path ELSE m.env # NULL

ResolveMode(m) ==
    IF m.sandbox
    THEN [env |-> "Testnet",
          override |-> init_package_override(m.deepbook_package_id, m.margin_packages),
          packages |-> IF m.margin_packages = {} THEN m.packages \cap {"deepbook"}
                       ELSE m.packages]
    ELSE [env |-> m.env, override |-> NoOverride, packages |-> m.packages]

RegisterPipelines(packages) ==
    (IF "deepbook" \in packages THEN CoreHandlers ELSE {})
      \cup (IF "deepbook-margin" \in packages THEN MarginHandlers ELSE {})

Init ==
    /\ chain = <<>>
    /\ mode \in Modes
    /\ up = FALSE
    /\ cfg = [env |-> NULL, override |-> NoOverride]
    /\ registered = {}
    /\ pending = [p \in Names |-> Empty]
    /\ tables = [t \in Tables |-> Empty]
    /\ watermark = [p \in Names |-> 0]
    /\ crashes = 0

Start ==
    /\ ~up /\ StartAllowed(mode)
    /\ LET r == ResolveMode(mode) IN
          /\ cfg' = [env |-> r.env, override |-> r.override]
          /\ registered' = RegisterPipelines(r.packages) \cap Watched
    /\ up' = TRUE
    /\ UNCHANGED <<chain, mode, pending, tables, watermark, crashes>>

Checkpoint(c, b) ==
    [ts |-> 10 * c,
     transactions |-> [t \in DOMAIN b |->
        [digest |-> <<c, t>>, commands |-> b[t].commands, inputs |-> b[t].inputs,
         events |-> b[t].events]]]

(* The network: another checkpoint, no older than the last one. *)
NewCheckpoint ==
    /\ Len(chain) < MaxCheckpoints
    /\ \E b \in Blocks : chain' = Append(chain, Checkpoint(Len(chain) + 1, b))
    /\ UNCHANGED <<mode, up, cfg, registered, pending, tables, watermark, crashes>>

-----------------------------------------------------------------------------
(* A pipeline at work. *)

Unprocessed(p) == ((watermark[p] + 1)..Len(chain)) \ DOMAIN pending[p]

(* The processor takes any of the Fanout oldest checkpoints it still has to *)
(* do; one that fails to decode stays there.                                *)
Process(h) ==
    /\ up /\ h \in registered
    /\ \E c \in Unprocessed(h.name) :
          /\ Cardinality({d \in Unprocessed(h.name) : d < c}) < Fanout
          /\ Decodes(h, chain[c], cfg)
          /\ pending' = [pending EXCEPT ![h.name] =
                [d \in DOMAIN @ \cup {c} |->
                    IF d = c THEN process(h, c, chain[c], cfg) ELSE @[d]]]
    /\ UNCHANGED <<chain, mode, up, cfg, registered, tables, watermark, crashes>>

PendingRows(p) == UNION {pending[p][c] : c \in DOMAIN pending[p]}

Batch(h, rows) ==
    /\ up /\ h \in registered
    /\ tables' = [tables EXCEPT ![h.table] = commit(@, rows)]
    /\ UNCHANGED <<chain, mode, up, cfg, registered, watermark, crashes>>

Commit(h) ==
    \E rows \in SUBSET PendingRows(h.name) :
        /\ rows # {}
        /\ Batch(h, rows)
        /\ pending' = [pending EXCEPT ![h.name] = [c \in DOMAIN @ |-> @[c] \ rows]]

(* The insert took effect but its answer was lost: the batch stays pending. *)
CommitUnanswered(h) ==
    \E rows \in SUBSET PendingRows(h.name) :
        /\ rows # {}
        /\ Batch(h, rows)
        /\ UNCHANGED pending

(* Nothing is pending of the checkpoints above the watermark, up to w. *)
Committed(p, w) ==
    \A c \in (watermark[p] + 1)..w : c \in DOMAIN pending[p] /\ pending[p][c] = {}

(* The watermark moves over the longest such run. *)
UpdateWatermark(h) ==
    /\ up /\ h \in registered
    /\ \E w \in (watermark[h.name] + 1)..Len(chain) :
          /\ Committed(h.name, w)
          /\ w < Len(chain) => ~Committed(h.name, w + 1)
          /\ watermark' = [watermark EXCEPT ![h.name] = w]
          /\ pending' = [pending EXCEPT ![h.name] =
                            [c \in {d \in DOMAIN @ : d > w} |-> @[c]]]
    /\ UNCHANGED <<chain, mode, up, cfg, registered, tables, crashes>>

Crash ==
    /\ up /\ crashes < MaxCrashes
    /\ up' = FALSE
    /\ pending' = [p \in Names |-> Empty]
    /\ crashes' = crashes + 1
    /\ UNCHANGED <<chain, mode, cfg, registered, tables, watermark>>

Next ==
    \/ Start
    \/ NewCheckpoint
    \/ \E h \in Watched : Process(h)
    \/ \E h \in Watched : Commit(h)
    \/ \E h \in Watched : CommitUnanswered(h)
    \/ \E h \in Watched : UpdateWatermark(h)
    \/ Crash

Spec == Init /\ [][Next]_vars

(* The framework retries forever and a deployment restarts the process, so  *)
(* a pipeline that can take a step keeps being given the chance, and a      *)
(* commit is answered in the end.                                           *)
Fairness ==
    /\ WF_vars(Start)
    /\ \A h \in Watched :
          WF_vars(Process(h)) /\ WF_vars(Commit(h)) /\ WF_vars(UpdateWatermark(h))

FairSpec == Spec /\ Fairness
-----------------------------------------------------------------------------
(* What an indexed chain looks like, said without the handlers' filters:    *)
(* the packages an operator points the process at, and which of them an     *)
(* event of a pipeline comes from.                                          *)

Runs(h, m) ==
    LET wanted == IF h \in CoreHandlers THEN "deepbook" ELSE "deepbook-margin"
    IN  /\ StartAllowed(m) /\ wanted \in m.packages
        /\ m.sandbox /\ h \in MarginHandlers => m.margin_packages # {}

DeployedBy(h, m) ==
    CASE m.sandbox /\ h \in CoreHandlers -> m.deepbook_package_id
      [] m.sandbox /\ h \in MarginHandlers -> m.margin_packages
      [] ~m.sandbox /\ m.env = "Mainnet" /\ h \in CoreHandlers -> MainnetPackages
      [] ~m.sandbox /\ m.env = "Mainnet" /\ h \in MarginHandlers -> MainnetMarginPackages
      [] ~m.sandbox /\ m.env = "Testnet" /\ h \in CoreHandlers -> TestnetPackages
      [] ~m.sandbox /\ m.env = "Testnet" /\ h \in MarginHandlers -> TestnetMarginPackages

Concerns(h, e, m) ==
    Runs(h, m) /\ e.type \in h.events /\ e.package \in DeployedBy(h, m) \ Unparsable

(* The positions <<t, i>> of the events of a checkpoint's transactions that *)
(* concern h.                                                               *)
Positions(h, txs, m) ==
    UNION {{<<t, i>> : i \in {j \in DOMAIN txs[t].events : Concerns(h, txs[t].events[j], m)}} :
              t \in DOMAIN txs}

EventsFor(h, c) == Positions(h, chain[c].transactions, mode)

KeyAt(c, p) == <<<<c, p[1]>>, p[2]>>
EventAt(c, p) == chain[c].transactions[p[1]].events[p[2]]

TypeOK ==
    /\ mode \in Modes /\ up \in BOOLEAN /\ crashes \in 0..MaxCrashes
    /\ registered \subseteq Watched
    /\ \A p \in Names : /\ watermark[p] \in 0..Len(chain)
                        /\ DOMAIN pending[p] \subseteq (watermark[p] + 1)..Len(chain)
    /\ \A t \in Tables : \A k \in DOMAIN tables[t] : tables[t][k].event_digest = k

(* Below a pipeline's watermark nothing is missing: every event on the      *)
(* chain that concerns the pipeline has a row of its own in the pipeline's  *)
(* table, with what that event says, whatever was processed out of order,   *)
(* committed twice or lost in a crash, and although the table may be shared *)
(* with other pipelines (process and commit of every handler, is_deepbook_tx*)
(* and matches_event_type).  So an event that does not decode holds its     *)
(* pipeline back (bcs::from_bytes(..)? in process).                         *)
NothingMissing ==
    \A h \in Watched : \A c \in 1..watermark[h.name] :
        \A p \in EventsFor(h, c) :
            /\ KeyAt(c, p) \in DOMAIN tables[h.table]
            /\ tables[h.table][KeyAt(c, p)].columns = Columns(EventAt(c, p))

(* A row is that of the event at its key, in the table of a pipeline that   *)
(* event concerns, not one of another environment's packages.               *)
RowsBelong ==
    \A t \in Tables : \A k \in DOMAIN tables[t] :
        \E c \in DOMAIN chain : \E h \in {w \in Watched : w.table = t} :
            \E p \in EventsFor(h, c) :
                /\ k = KeyAt(c, p)
                /\ tables[t][k].checkpoint = c
                /\ tables[t][k].columns = Columns(EventAt(c, p))

(* No event is stored in two tables (two modules declare a                  *)
(* DeepbookPoolUpdated).                                                    *)
OneTable == \A t, u \in Tables : DOMAIN tables[t] \cap DOMAIN tables[u] # {} => t = u

(* A row is filed under the pool its event is about.  TradeParamsUpdate     *)
(* events do not say, and are filed right as long as their transaction has  *)
(* a single Pool among its inputs, and otherwise under one of its Pools,    *)
(* maybe the wrong one (trade_params_update_handler.rs).                    *)
FiledUnderItsPool ==
    \A t \in Tables : \A k \in DOMAIN tables[t] :
        LET tx == chain[k[1][1]].transactions[k[1][2]]
            pools == {o.id : o \in {x \in Elements(tx.inputs) : x.name = "Pool"
                                        /\ x.package \in package_addresses(cfg)}}
            e == tx.events[k[2]]
        IN  tables[t][k].pool_id \in {e.pool, NULL}
            \/ /\ t = TradeParamsUpdateHandler.table
               /\ Cardinality(pools) > 1 /\ tables[t][k].pool_id \in pools

(* The tables hold nothing that is not on the chain: every row is that of   *)
(* one event of the pipeline that wrote it, in that pipeline's table alone, *)
(* under the pool the event is about (matches_event_type, the packages of   *)
(* the environment, the MODULE and NAME of each struct, commit of every     *)
(* handler).                                                                *)
NothingInvented == TypeOK /\ RowsBelong /\ OneTable /\ FiledUnderItsPool

(* No undecodable event holds pipeline h back from checkpoint c. *)
Healthy(h, c) ==
    /\ c <= Len(chain) /\ Runs(h, mode)
    /\ \A d \in 1..c : \A p \in EventsFor(h, d) : EventAt(d, p).ok

-----------------------------------------------------------------------------
(* The abstract log: a reference is a pipeline's name and an event's key.   *)

RefsFor(c, txs, m) ==
    UNION {{<<h.name, KeyAt(c, p)>> : p \in Positions(h, txs, m)} : h \in Watched}

BatchRefs == {RefsFor(c, b, m) : c \in 1..MaxCheckpoints, b \in Blocks, m \in Modes}
PublishedRefs == [c \in DOMAIN chain |-> RefsFor(c, chain[c].transactions, mode)]
StoredRefs ==
    UNION {{<<h.name, k>> : k \in
              {x \in DOMAIN tables[h.table] :
                  \E c \in DOMAIN chain : \E p \in EventsFor(h, c) : x = KeyAt(c, p)}} :
              h \in Watched}

Log == INSTANCE EventLog WITH
    Pipelines <- Names, Batches <- BatchRefs,
    published <- PublishedRefs, stored <- StoredRefs, horizon <- watermark

(* The indexer is an event log: reprocessing, duplicate commits and         *)
(* restarts are invisible to whoever reads the tables, no row ever goes     *)
(* away, and a watermark only moves forward over what is stored.            *)
ImplementsLog == Log!LogSpec
=============================================================================
