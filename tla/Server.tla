------------------------------- MODULE Server -------------------------------
(***************************************************************************)
(* Requests to the server (crates/server/src): the state of a trader's      *)
(* orders, the listings of one table and the admin endpoints.  They share   *)
(* no state but the database, which each of the modules composed here       *)
(* models as far as its endpoints see it, and their steps interleave.       *)
(***************************************************************************)
EXTENDS Queries, Widths, Sequences, FiniteSets

CONSTANTS
    NULL,                                            \* an absent value
    Orders, Owner, Quantity, OrderQueries, MaxTime, MaxRows,              \* Orders
    Endpoints, Second, Rows, Decoy, Values, Limits,                       \* Listings
    Clients, RawTokens, Empty, Requests, Keys, Burst, MaxRequests         \* Admin

VARIABLES
    book, time, emitted, updates, listed,                                 \* Orders
    endpoint, table, clock, walk,                                         \* Listings
    rows, tokens, permits, serving, running, answers, silent, metrics              \* Admin

ordersVars == <<book, time, emitted, updates, listed>>
listingsVars == <<endpoint, table, clock, walk>>
adminVars == <<rows, tokens, permits, serving, running, answers, silent, metrics>>
serverVars == <<ordersVars, listingsVars, adminVars>>

O == INSTANCE Orders WITH answer <- listed, Queries <- OrderQueries
L == INSTANCE Listings WITH now <- clock
Adm == INSTANCE Admin

ASSUME ServerAssumption ==
    O!OrdersAssumption /\ L!ListingsAssumption /\ Adm!AdminAssumption

ServerInit == O!Init /\ L!Init /\ Adm!Init

ServerNext ==
    \/ O!Next /\ UNCHANGED <<listingsVars, adminVars>>
    \/ L!Next /\ UNCHANGED <<ordersVars, adminVars>>
    \/ Adm!Next /\ UNCHANGED <<ordersVars, listingsVars>>

ServerSpec == ServerInit /\ [][ServerNext]_serverVars
-----------------------------------------------------------------------------
(* Orders: an order still on the book is not reported as over, unless its   *)
(* quantity is half the u64 range or more; once its end is in the table it  *)
(* is not listed as open, unless two of its updates carry the same          *)
(* timestamp; it is not said to have traded more than it has, part of it    *)
(* executed before it was placed or not; only the trader's own orders are   *)
(* listed, with the instant of their placement when that is in the window   *)
(* (get_orders_status).                                                     *)
OrdersLookAsTheyAre ==
    /\ O!TypeOK /\ O!OpenOrdersLookOpen /\ O!EndedOrdersLookEnded
    /\ O!FilledNeverOverstated /\ O!PlacedAtIsPlacement

(* Listings: an endpoint serves the rows of its own table, filtered by the  *)
(* columns its parameters are named after; a client that walks back in time *)
(* page by page has seen every row when its walk ends, and gets stuck only  *)
(* on a second that holds a page of rows or more (the queries of reader.rs, *)
(* their limit and between, end_time in seconds in ParameterUtil).          *)
PagesServeWhatIsAsked == L!ServesWhatIsAsked /\ L!WalkSeesAll /\ L!StuckMeansCrowded

(* AnswersAccountForRows of Admin: the OKs of create and delete, and the    *)
(* changes whose client went away or was told of an error before the commit *)
(* was known, account for every row, whatever requests raced (writer.rs).   *)
AnswersAccountForRows == Adm!TypeOK /\ Adm!AnswersAccountForRows

(* TokensDecide of Admin: a configured token is never refused, however many *)
(* failures came before, and no other gets through (require_admin_auth).    *)
TokensDecide == Adm!TokensDecide
=============================================================================
