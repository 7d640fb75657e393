------------------------------ MODULE Listings ------------------------------
(***************************************************************************)
(* Reading a table back through its endpoint while the indexer adds rows.   *)
(* The endpoints have no cursor: a client that wants more than limit rows   *)
(* walks back in time, asking again with the second of the oldest row it    *)
(* has got as end_time.  Times on the wire are in seconds, rows are dated   *)
(* in milliseconds, and rows of one checkpoint carry the same time.         *)
(***************************************************************************)
EXTENDS Queries, Integers, Sequences, FiniteSets

CONSTANTS
    Endpoints,     \* the endpoints asked
    Second,        \* clock units in a second
    Rows,          \* rows that can be indexed: [id, ts, values: column -> value]
    Decoy,         \* a row that every other table holds
    Values,        \* what a filter can ask for
    Limits,        \* the limits asked for
    NULL           \* no filter, no end_time

(* Rows are dated, and a time that is absent is none.                       *)
ListingsAssumption ==
    /\ Endpoints \subseteq AllEndpoints
    /\ Second \in Nat \ {0} /\ Limits \subseteq Nat \ {0} /\ NULL \notin Nat
    /\ \A r \in Rows : r.ts \in Nat

VARIABLES
    endpoint,   \* the endpoint this client reads
    table,      \* the rows of the table named like the endpoint
    now,        \* the server's clock
    walk        \* the client: the request to send next and what it has seen

vars == <<endpoint, table, now, walk>>

Tables == {e.query.table : e \in AllEndpoints}
Tagged(name, r) == [table |-> name, id |-> r.id, ts |-> r.ts, values |-> r.values]

(* The database: the other tables hold the decoy. *)
Contents(name) == IF name = endpoint.name THEN table ELSE {Tagged(name, Decoy)}

Filters(e) ==
    {f \in [DOMAIN e.params -> Values \cup {NULL}] :
        \A i \in DOMAIN f : e.params[i] \in e.path => f[i] # NULL}

Init ==
    /\ endpoint \in Endpoints
    /\ table = {}
    /\ now = 0
    /\ walk = [pc |-> "idle"]

IndexRow ==
    /\ \E r \in Rows : /\ Tagged(endpoint.name, r) \notin table
                       /\ r.ts <= now
                       /\ table' = table \cup {Tagged(endpoint.name, r)}
    /\ UNCHANGED <<endpoint, now, walk>>

Tick ==
    /\ \E r \in Rows : r.ts > now /\ now' = r.ts
    /\ UNCHANGED <<endpoint, table, walk>>

-----------------------------------------------------------------------------
(* The endpoint. *)

(* An empty filter is the pattern that matches everything. *)
Passes(row, query, column, value) ==
    \/ value = NULL
    \/ IF query = get_orders /\ column = "balance_manager_id"
       THEN value \in {row.values["maker_balance_manager_id"],
                       row.values["taker_balance_manager_id"]}
       ELSE row.values[column] = value

end_time(q) == IF q.end_time = NULL THEN now ELSE q.end_time * Second

(* The window starts at 0 here; queries without one ignore it. *)
InWindow(row, query, q) ==
    (query.between \/ q.end_time # NULL) => 0 <= row.ts /\ row.ts <= end_time(q)

Found(query, q) ==
    {row \in Contents(query.table) :
        /\ InWindow(row, query, q)
        /\ \A i \in DOMAIN query.filters : Passes(row, query, query.filters[i], q.filters[i])}

(* Mutant of IsPage: ascending order.                                        *)
IsPageAscending(page, found, query, limit) ==
    IF ~query.limited THEN page = found
    ELSE /\ Cardinality(page) <= limit
         /\ Cardinality(page) = limit \/ page = found
         /\ \A r \in page, s \in found \ page : r.ts <= s.ts

(* ORDER BY checkpoint_timestamp_ms DESC LIMIT: ties are broken anyhow. *)
IsPage(page, found, query, limit) ==
    IF ~query.limited THEN page = found
    ELSE /\ Cardinality(page) <= limit
         /\ Cardinality(page) = limit \/ page = found
         /\ \A r \in page, s \in found \ page : s.ts <= r.ts

-----------------------------------------------------------------------------
(* The client. *)

Begin ==
    /\ walk.pc = "idle"
    /\ \E f \in Filters(endpoint), l \in Limits :
          walk' = [pc |-> "ask", filters |-> f, limit |-> l, end_time |-> NULL,
                   began |-> [rows |-> table, now |-> now], seen |-> {}]
    /\ UNCHANGED <<endpoint, table, now>>

RoundUp(t) == (t + Second - 1) \div Second

(* A full page leads to another request, unless its rows are all of the     *)
(* second asked for: then there is no way on.                               *)
Ask ==
    /\ walk.pc = "ask"
    /\ LET found == Found(endpoint.query, walk) IN
       \E page \in SUBSET found :
          /\ IsPage(page, found, endpoint.query, walk.limit)
          /\ LET next == RoundUp(CHOOSE t \in {r.ts : r \in page} :
                                    \A r \in page : t <= r.ts)
                 full == endpoint.query.limited /\ Cardinality(page) = walk.limit
             IN  walk' = [walk EXCEPT
                    !.seen = @ \cup page,
                    !.end_time = IF full THEN next ELSE @,
                    !.pc = IF ~full THEN "complete"
                           ELSE IF @ = "ask" /\ walk.end_time = next THEN "stuck" ELSE "ask"]
    /\ UNCHANGED <<endpoint, table, now>>

Next == IndexRow \/ Tick \/ Begin \/ Ask

Spec == Init /\ [][Next]_vars
-----------------------------------------------------------------------------
(* What a row has to be like for the client: the value of each parameter in *)
(* the column of that name.                                                 *)
Wanted(row, f) ==
    \A i \in DOMAIN endpoint.params :
        Passes(row, endpoint.query, endpoint.params[i], f[i])

(* An endpoint serves the rows of its own table and a parameter filters on  *)
(* the column it is named after, although the arguments of the queries are  *)
(* strings told apart by position only.                                     *)
ServesWhatIsAsked ==
    walk.pc # "idle" => \A r \in walk.seen : r.table = endpoint.name /\ Wanted(r, walk.filters)

(* A walk that ends with a page that is not full has seen every row asked   *)
(* for that was there when it began, however the pages were cut at equal    *)
(* times and whatever was indexed meanwhile (between is inclusive, and the  *)
(* order is that of the limit).                                             *)
WalkSeesAll ==
    walk.pc = "complete" =>
        \A r \in walk.began.rows : Wanted(r, walk.filters) => r \in walk.seen

(* A walk gets stuck only on a second that holds at least a page of rows:   *)
(* in every other case the window moves back with each request.             *)
StuckMeansCrowded ==
    walk.pc = "stuck" =>
        Cardinality({r \in table : Wanted(r, walk.filters) /\ RoundUp(r.ts) = walk.end_time})
            >= walk.limit
=============================================================================
