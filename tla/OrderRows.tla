----------------------------- MODULE OrderRows -----------------------------
(* The rows that the order_update pipeline makes of the four events of an   *)
(* order's life (crates/indexer/src/handlers/order_update_handler.rs).      *)
EXTENDS Widths

process_order_placed(e) ==
    [status |-> "Placed", order_id |-> e.order_id,
     original_quantity |-> AsI64(e.placed_quantity),
     quantity |-> AsI64(e.placed_quantity), filled_quantity |-> 0]

process_order_modified(e) ==
    [status |-> "Modified", order_id |-> e.order_id,
     original_quantity |-> AsI64(e.previous_quantity),
     quantity |-> AsI64(e.new_quantity), filled_quantity |-> AsI64(e.filled_quantity)]

process_order_canceled(e) ==
    [status |-> "Canceled", order_id |-> e.order_id,
     original_quantity |-> AsI64(e.original_quantity),
     quantity |-> AsI64(e.canceled_quantity),
     filled_quantity |-> AsI64((e.original_quantity - e.canceled_quantity) % Word)]

process_order_expired(e) ==
    [status |-> "Expired", order_id |-> e.order_id,
     original_quantity |-> AsI64(e.original_quantity),
     quantity |-> AsI64(e.canceled_quantity),
     filled_quantity |-> AsI64((e.original_quantity - e.canceled_quantity) % Word)]
=============================================================================
