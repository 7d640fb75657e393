------------------------------- MODULE Admin -------------------------------
(***************************************************************************)
(* The admin endpoints of the server: authentication with a limit on        *)
(* failures (admin/auth.rs), the writes to the pools and assets tables      *)
(* (writer.rs), the answers they turn into (error.rs) and the counters      *)
(* around every request (metrics/middleware.rs).  Several clients are       *)
(* served at once, statements can fail, and a client can go away, which     *)
(* drops its request wherever it is, a statement on its way included.       *)
(***************************************************************************)
EXTENDS Integers, FiniteSets

CONSTANTS
    Clients,          \* one request at a time each
    RawTokens,        \* the entries of ADMIN_TOKENS, trimmed; {} if it is unset
    Empty,            \* the empty token
    NULL,             \* no bearer token in the request; an absent field
    Requests,         \* [token, op, id, fields]
    Keys,             \* pool ids and asset types
    Burst,            \* failures answered before the limiter refuses (10)
    MaxRequests       \* bound on the requests

(* A bearer token that is absent is none of those configured; fields are    *)
(* the columns that a row must have, and a create gives them all.           *)
AdminAssumption ==
    /\ IsFiniteSet(Clients) /\ NULL \notin RawTokens
    /\ \A r \in Requests : /\ r.op \in {"create", "update", "delete"} /\ r.id \in Keys
                           /\ r.op = "create" => \A f \in DOMAIN r.fields : r.fields[f] # NULL
    /\ Burst \in Nat \ {0} /\ MaxRequests \in Nat

VARIABLES
    rows,         \* the pools and assets: key -> fields
    tokens,       \* AppState.admin_tokens
    permits,      \* what the failure limiter has left
    serving,      \* the request of each client and how far it is
    answers,      \* how often each answer was given to an authorised change of a key
    running,      \* statements still with the database although their request has ended
    silent,       \* changes whose client went away or was told of an error
    metrics       \* requests received, succeeded and failed

vars == <<rows, tokens, permits, serving, running, answers, silent, metrics>>

Ops == {"create", "update", "delete"}
Idle == [pc |-> "idle"]
Codes == {200, 401, 404, 429, 500}

Init ==
    /\ rows = <<>>
    /\ tokens = RawTokens \ {Empty}
    /\ permits = Burst
    /\ serving = [c \in Clients |-> Idle]
    /\ running = [r \in Requests |-> 0]
    /\ answers = [k \in Keys |-> [op \in Ops |-> 0]]
    /\ silent = [k \in Keys |-> 0]
    /\ metrics = [received |-> 0, succeeded |-> 0, failed |-> 0]

-----------------------------------------------------------------------------
(* track_metrics, on the way in. *)
Receive(c) ==
    /\ serving[c] = Idle /\ metrics.received < MaxRequests
    /\ \E r \in Requests : serving' = [serving EXCEPT ![c] = [pc |-> "received", request |-> r]]
    /\ metrics' = [metrics EXCEPT !.received = @ + 1]
    /\ UNCHANGED <<rows, tokens, permits, running, answers, silent>>

is_valid_admin_token(token) == token \in tokens

(* Only a failure asks the limiter. *)
auth_failure_rate_limited(c) ==
    /\ serving' = [serving EXCEPT ![c] = [pc |-> "answer", request |-> @.request,
                                          code |-> IF permits = 0 THEN 429 ELSE 401]]
    /\ permits' = IF permits = 0 THEN 0 ELSE permits - 1

(* Mutant of require_admin_auth: an exhausted limiter refuses everyone.      *)
require_admin_authLimited(c) ==
    /\ serving[c].pc = "received"
    /\ IF permits > 0 /\ is_valid_admin_token(serving[c].request.token)
       THEN /\ serving' = [serving EXCEPT ![c].pc = "authorised"]
            /\ UNCHANGED permits
       ELSE auth_failure_rate_limited(c)
    /\ UNCHANGED <<rows, tokens, running, answers, silent, metrics>>

require_admin_auth(c) ==
    /\ serving[c].pc = "received"
    /\ IF is_valid_admin_token(serving[c].request.token)
       THEN /\ serving' = [serving EXCEPT ![c].pc = "authorised"]
            /\ UNCHANGED permits
       ELSE auth_failure_rate_limited(c)
    /\ UNCHANGED <<rows, tokens, running, answers, silent, metrics>>

(* Time gives the limiter a permit back. *)
Replenish ==
    /\ permits < Burst /\ permits' = permits + 1
    /\ UNCHANGED <<rows, tokens, serving, running, answers, silent, metrics>>

-----------------------------------------------------------------------------
(* The writer: each operation is one statement, [code, rows, changed].      *)

Result(code, table, changed) == [code |-> code, rows |-> table, changed |-> changed]
With(table, k, v) == [x \in DOMAIN table \cup {k} |-> IF x = k THEN v ELSE table[x]]
Without(table, k) == [x \in DOMAIN table \ {k} |-> table[x]]

(* Mutant of create: INSERT ... ON CONFLICT DO NOTHING.                      *)
createOrIgnore(table, r) ==
    IF r.id \in DOMAIN table THEN Result(200, table, 0)
    ELSE Result(200, With(table, r.id, r.fields), 1)

(* INSERT; a key that is taken is a database error. *)
create(table, r) ==
    IF r.id \in DOMAIN table THEN Result(500, table, 0)
    ELSE Result(200, With(table, r.id, r.fields), 1)

(* UPDATE of the fields given; none at all is an error before the database  *)
(* is asked, and no row to update is not found.                             *)
update_pool(table, r) ==
    LET given == {f \in DOMAIN r.fields : r.fields[f] # NULL} IN
    IF given = {} THEN Result(500, table, 0)
    ELSE IF r.id \notin DOMAIN table THEN Result(404, table, 0)
    ELSE Result(200, [table EXCEPT ![r.id] =
                        [f \in DOMAIN @ |-> IF f \in given THEN r.fields[f] ELSE @[f]]], 0)

delete(table, r) ==
    IF r.id \notin DOMAIN table THEN Result(404, table, 0)
    ELSE Result(200, Without(table, r.id), -1)

Statement(table, r) ==
    CASE r.op = "create" -> create(table, r)
      [] r.op = "update" -> update_pool(table, r)
      [] r.op = "delete" -> delete(table, r)

Execute(c) ==
    /\ serving[c].pc = "authorised"
    /\ LET r == serving[c].request
           s == Statement(rows, r)
       IN  /\ rows' = s.rows
           /\ serving' = [serving EXCEPT ![c] = [pc |-> "done", request |-> r, code |-> s.code,
                                                 changed |-> s.changed]]
    /\ UNCHANGED <<tokens, permits, running, answers, silent, metrics>>

(* The request ends before the result of its statement is known: the        *)
(* statement may have been sent, and then the database can still commit it. *)
LeavesBehind(r) ==
    \E sent \in BOOLEAN : running' = IF sent THEN [running EXCEPT ![r] = @ + 1] ELSE running

(* No connection, or execute(..).await? returns an error: the statement was *)
(* refused, or the connection was lost with the statement on its way.       *)
ExecuteFails(c) ==
    /\ serving[c].pc = "authorised"
    /\ LeavesBehind(serving[c].request)
    /\ serving' = [serving EXCEPT ![c] = [pc |-> "done", request |-> @.request, code |-> 500,
                                          changed |-> 0]]
    /\ UNCHANGED <<rows, tokens, permits, answers, silent, metrics>>

(* The database commits a statement whose request has ended. *)
CommitLate(r) ==
    /\ running[r] > 0 /\ running' = [running EXCEPT ![r] = @ - 1]
    /\ LET s == Statement(rows, r) IN
          /\ rows' = s.rows
          /\ silent' = [silent EXCEPT ![r.id] = @ + s.changed]
    /\ UNCHANGED <<tokens, permits, serving, answers, metrics>>

-----------------------------------------------------------------------------
(* track_metrics, on the way out. *)
Respond(c) ==
    /\ serving[c].pc \in {"answer", "done"}
    /\ metrics' = IF serving[c].code = 200 THEN [metrics EXCEPT !.succeeded = @ + 1]
                  ELSE [metrics EXCEPT !.failed = @ + 1]
    /\ answers' = IF serving[c].code # 200 THEN answers
                  ELSE [answers EXCEPT ![serving[c].request.id][serving[c].request.op] = @ + 1]
    /\ serving' = [serving EXCEPT ![c] = Idle]
    /\ UNCHANGED <<rows, tokens, permits, running, silent>>

(* The client closes the connection: the request's future is dropped. *)
Disconnect(c) ==
    /\ serving[c] # Idle
    /\ IF serving[c].pc = "authorised" THEN LeavesBehind(serving[c].request) ELSE UNCHANGED running
    /\ silent' = IF serving[c].pc # "done" THEN silent
                 ELSE [silent EXCEPT ![serving[c].request.id] = @ + serving[c].changed]
    /\ serving' = [serving EXCEPT ![c] = Idle]
    /\ UNCHANGED <<rows, tokens, permits, answers, metrics>>

Next ==
    \/ Replenish
    \/ \E r \in Requests : CommitLate(r)
    \/ \E c \in Clients :
          \/ Receive(c)
          \/ require_admin_auth(c)
          \/ Execute(c)
          \/ ExecuteFails(c)
          \/ Respond(c)
          \/ Disconnect(c)

Spec == Init /\ [][Next]_vars
-----------------------------------------------------------------------------
TypeOK ==
    /\ DOMAIN rows \subseteq Keys /\ permits \in 0..Burst
    /\ \A c \in Clients : serving[c].pc \in {"idle", "received", "authorised", "answer", "done"}
    /\ \A c \in Clients : serving[c].pc \in {"answer", "done"} => serving[c].code \in Codes
    /\ \A k \in DOMAIN rows : NULL \notin {rows[k][f] : f \in DOMAIN rows[k]}

(* What the clients were told accounts for every row: a key is there exactly*)
(* if it was created once more often than deleted, by the OKs given and the *)
(* changes whose client went away or was answered 500 before the commit was *)
(* known, whatever requests raced: no OK is for a change that another       *)
(* request made (plain INSERT, and the check of rows_affected in writer.rs).*)
InFlight(k) ==
    LET done == {c \in Clients : serving[c].pc = "done" /\ serving[c].request.id = k}
        Plus == Cardinality({c \in done : serving[c].changed = 1})
        Minus == Cardinality({c \in done : serving[c].changed = -1})
    IN  Plus - Minus
AnswersAccountForRows ==
    \A k \in Keys :
        answers[k]["create"] - answers[k]["delete"] + silent[k] + InFlight(k)
            = IF k \in DOMAIN rows THEN 1 ELSE 0

(* Failed attempts never lock an operator out: a request with a configured  *)
(* token is never refused, however far the limiter is exhausted; and one    *)
(* without never gets as far as the tables, the empty token included.       *)
TokensDecide ==
    \A c \in Clients :
        /\ serving[c].pc = "answer" => serving[c].request.token \notin RawTokens \ {Empty}
        /\ serving[c].pc \in {"authorised", "done"} =>
              serving[c].request.token \in RawTokens \ {Empty, NULL}
=============================================================================
