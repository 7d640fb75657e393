------------------------------- MODULE Orders -------------------------------
(***************************************************************************)
(* The /orders endpoint (orders in crates/server/src/server.rs and          *)
(* get_orders_status in reader.rs): the state of a trader's orders, put     *)
(* together from the order_updates table alone.  Orders live on the chain,  *)
(* their events reach the table late and in any order, and a fill leaves no *)
(* row there (OrderFilled goes to order_fills).                             *)
(***************************************************************************)
EXTENDS OrderRows, FiniteSets, Sequences

CONSTANTS
    Orders,          \* order ids
    Owner,           \* the balance manager of each order
    Quantity,        \* the quantity of each order when it is entered
    Queries,         \* the requests: manager, start, end, statuses, limit
    MaxTime,         \* bound on the checkpoints' timestamps
    MaxRows          \* bound on the events

OrdersAssumption ==
    MaxTime \in Nat /\ MaxRows \in Nat /\ \A o \in Orders : Quantity[o] \in 0..(Word - 1)

(* Whether the columns of an order can be told from negative numbers.       *)
Fits(o) == Quantity[o] < Word \div 2

VARIABLES
    book,       \* the orders on the chain: quantity, filled and state
    time,       \* the timestamp of the checkpoint being built
    emitted,    \* the rows of events that are not stored yet
    updates,    \* the order_updates table
    answer      \* the answer, if the last step was a request

vars == <<book, time, emitted, updates, answer>>

None == [query |-> "none"]
States == {"absent", "open", "filled", "canceled", "expired"}

Init ==
    /\ book = [o \in Orders |-> [quantity |-> 0, filled |-> 0, state |-> "absent"]]
    /\ time = 1
    /\ emitted = {} /\ updates = {} /\ answer = None

-----------------------------------------------------------------------------
(* The chain: what order.move and order_info.move do and emit. *)

Emit(row) ==
    /\ Cardinality(updates \cup emitted) < MaxRows
    /\ emitted' = emitted \cup {[columns |-> row, ts |-> time]}

(* Part of the order may be executed on the way in: it rests with that part *)
(* filled, and its event gives what remains as the quantity placed.         *)
Place(o, executed) ==
    /\ book[o].state = "absent"
    /\ book' = [book EXCEPT ![o] = [quantity |-> Quantity[o], filled |-> executed,
                                    state |-> "open"]]
    /\ Emit(process_order_placed([order_id |-> o, placed_quantity |-> Quantity[o] - executed]))

Fill(o, n) ==
    /\ book[o].state = "open" /\ book[o].filled + n <= book[o].quantity
    /\ book' = [book EXCEPT ![o].filled = @ + n,
                            ![o].state = IF book[o].filled + n = book[o].quantity
                                         THEN "filled" ELSE "open"]
    /\ UNCHANGED emitted

Modify(o, new) ==
    /\ book[o].state = "open" /\ book[o].filled < new /\ new < book[o].quantity
    /\ book' = [book EXCEPT ![o].quantity = new]
    /\ Emit(process_order_modified([order_id |-> o, previous_quantity |-> book[o].quantity,
                                    filled_quantity |-> book[o].filled,
                                    new_quantity |-> new]))

Cancel(o) ==
    /\ book[o].state = "open"
    /\ book' = [book EXCEPT ![o].state = "canceled"]
    /\ Emit(process_order_canceled([order_id |-> o, original_quantity |-> book[o].quantity,
                        canceled_quantity |-> book[o].quantity - book[o].filled]))

Expire(o) ==
    /\ book[o].state = "open"
    /\ book' = [book EXCEPT ![o].state = "expired"]
    /\ Emit(process_order_expired([order_id |-> o, original_quantity |-> book[o].quantity,
                       canceled_quantity |-> book[o].quantity - book[o].filled]))

Trade ==
    /\ \E o \in Orders :
          \/ \E executed \in 0..(Quantity[o] - 1) : Place(o, executed)
          \/ \E n \in 1..Quantity[o] : Fill(o, n)
          \/ \E n \in 1..Quantity[o] : Modify(o, n)
          \/ Cancel(o)
          \/ Expire(o)
    /\ answer' = None
    /\ UNCHANGED <<time, updates>>

NextCheckpoint ==
    /\ time < MaxTime /\ time' = time + 1
    /\ answer' = None
    /\ UNCHANGED <<book, emitted, updates>>

(* The order_update pipeline commits a row. *)
Store ==
    /\ \E r \in emitted : updates' = updates \cup {r} /\ emitted' = emitted \ {r}
    /\ answer' = None
    /\ UNCHANGED <<book, time>>

-----------------------------------------------------------------------------
(* The query. *)

InWindow(q) == {r \in updates : q.start <= r.ts /\ r.ts <= q.end}
Of(o, rows) == {r \in rows : r.columns.order_id = o}

(* Mutant of latest_events: ascending order.                                 *)
latest_eventsAscending(o, q) ==
    LET rows == Of(o, InWindow(q)) IN {r \in rows : \A s \in rows : s.ts >= r.ts}

(* DISTINCT ON (order_id) .. ORDER BY timestamp DESC: one of the last rows. *)
latest_events(o, q) ==
    LET rows == Of(o, InWindow(q)) IN {r \in rows : \A s \in rows : s.ts <= r.ts}

placed_events(o, q) ==
    {r.ts : r \in {s \in Of(o, InWindow(q)) : s.columns.status = "Placed"}}

current_status(c) ==
    CASE c.status = "Canceled" -> "canceled"
      [] c.status = "Expired" -> "expired"
      [] c.status \in {"Placed", "Modified"} /\ c.filled_quantity >= c.original_quantity -> "filled"
      [] c.status \in {"Placed", "Modified"} /\ c.filled_quantity < c.original_quantity ->
            IF c.filled_quantity > 0 THEN "partially_filled" ELSE "placed"

order_status(r, q) ==
    LET placed == placed_events(r.columns.order_id, q) IN
    [order_id |-> r.columns.order_id,
     current_status |-> current_status(r.columns),
     placed_at |-> IF placed = {} THEN r.ts
                   ELSE CHOOSE t \in placed : \A u \in placed : t <= u,
     last_updated_at |-> r.ts,
     original_quantity |-> r.columns.original_quantity,
     filled_quantity |-> r.columns.filled_quantity,
     remaining_quantity |-> r.columns.quantity]

(* LIMIT after ORDER BY last_updated_at DESC. *)
IsPage(page, found, limit) ==
    /\ Cardinality(page) <= limit
    /\ Cardinality(page) = limit \/ page = found
    /\ \A r \in page, s \in found \ page : s.last_updated_at <= r.last_updated_at

Mine(q) == {o \in Orders : Owner[o] = q.manager /\ latest_events(o, q) # {}}

(* One of the last rows for each of the manager's orders. *)
Picks(q) ==
    {pick \in [Mine(q) -> UNION {latest_events(o, q) : o \in Mine(q)}] :
        \A o \in Mine(q) : pick[o] \in latest_events(o, q)}

(* The status filter applies to the state of an order, not to its updates. *)
Matching(q, pick) ==
    {r \in {order_status(pick[o], q) : o \in Mine(q)} : r.current_status \in q.statuses}

get_orders_status(q) ==
    UNION {{page \in SUBSET Matching(q, pick) : IsPage(page, Matching(q, pick), q.limit)} :
              pick \in Picks(q)}

Ask ==
    /\ \E q \in Queries : \E page \in get_orders_status(q) :
          answer' = [query |-> q, orders |-> page]
    /\ UNCHANGED <<book, time, emitted, updates>>

Next == Trade \/ NextCheckpoint \/ Store \/ Ask

Spec == Init /\ [][Next]_vars
-----------------------------------------------------------------------------
Answered == IF answer = None THEN {} ELSE answer.orders

TypeOK ==
    /\ \A o \in Orders : /\ book[o].state \in States
                         /\ book[o].filled \in 0..book[o].quantity
    /\ \A r \in updates \cup emitted : r.ts \in 1..time
    /\ \A a \in Answered : Fits(a.order_id) => a.filled_quantity \in 0..a.original_quantity

(* An order still on the book is not reported as over: neither filled nor   *)
(* canceled nor expired, whatever rows are missing from the table (the CASE *)
(* of get_orders_status over what process_order_modified stored).  The      *)
(* exception is an order of half the u64 range or more: its                 *)
(* original_quantity is stored as a negative number, which its filled       *)
(* quantity is not below, and it looks filled.                              *)
OpenOrdersLookOpen ==
    \A a \in Answered :
        Fits(a.order_id) /\ book[a.order_id].state = "open"
            => a.current_status \in {"placed", "partially_filled"}

(* Once its end is in the table an order is not listed as open again, by    *)
(* whatever filter it is asked for, unless two of its updates carry the     *)
(* same timestamp, which the query does not put in order.                   *)
EndedOrdersLookEnded ==
    \A a \in Answered :
        LET rows == Of(a.order_id, InWindow(answer.query))
            ends == {r \in rows : r.columns.status \in {"Canceled", "Expired"}}
        IN  (ends # {} /\ \A r, s \in rows : r.ts = s.ts => r = s)
                => a.current_status = book[a.order_id].state

(* An order is not said to have traded more than it has; when its end is    *)
(* what is reported, the amount is exact, as an i64, although no fill was   *)
(* read and part of it was executed before the order was placed.            *)
FilledNeverOverstated ==
    \A a \in Answered :
        /\ a.filled_quantity <= book[a.order_id].filled
        /\ a.current_status \in {"canceled", "expired"} =>
               a.filled_quantity = AsI64(book[a.order_id].filled)

(* Orders of other traders are not listed, and placed_at is the instant of  *)
(* placement whenever that row is in the window asked for.                  *)
PlacedAtIsPlacement ==
    \A a \in Answered :
        /\ Owner[a.order_id] = answer.query.manager
        /\ \A r \in InWindow(answer.query) :
              (r.columns.order_id = a.order_id /\ r.columns.status = "Placed")
                  => a.placed_at = r.ts
=============================================================================
