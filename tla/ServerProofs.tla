---------------------------- MODULE ServerProofs ----------------------------
(***************************************************************************)
(* Proofs about the server, for any clients, tokens, orders, rows, limits   *)
(* and pools: who gets through to the admin endpoints and what their        *)
(* answers say of the rows; that a trader's orders are listed as they are;  *)
(* what a walk through a listing has seen; and that the margin poller       *)
(* reports states the pools were in, in its snapshots as i64.               *)
(***************************************************************************)
EXTENDS Server, MarginPoller, FiniteSetTheorems, WellFoundedInduction, TLAPS

-----------------------------------------------------------------------------
(* The admin endpoints.  What a statement did to the number of rows of its  *)
(* key follows from its operation and its code.                             *)

Changed(r, code) ==
    IF code # 200 THEN 0
    ELSE IF r.op = "create" THEN 1 ELSE IF r.op = "delete" THEN -1 ELSE 0

(* The requests under way, by how far they are.                             *)
RequestAt(s, r) ==
    \/ s = [pc |-> "received", request |-> r]
    \/ /\ s = [pc |-> "authorised", request |-> r]
       /\ r.token \in RawTokens \ {Empty}
    \/ \E code \in {401, 429} :
          /\ s = [pc |-> "answer", request |-> r, code |-> code]
          /\ r.token \notin RawTokens \ {Empty}
    \/ \E code \in {200, 404, 500} :
          /\ s = [pc |-> "done", request |-> r, code |-> code, changed |-> Changed(r, code)]
          /\ r.token \in RawTokens \ {Empty}

ServingOK ==
    /\ tokens = RawTokens \ {Empty}
    /\ serving = [c \in Clients |-> serving[c]]
    /\ \A c \in Clients : serving[c] = Adm!Idle \/ \E r \in Requests : RequestAt(serving[c], r)

RowsOK ==
    /\ DOMAIN rows \subseteq Keys /\ permits \in 0..Burst
    /\ \A k \in DOMAIN rows : \A f \in DOMAIN rows[k] : rows[k][f] # NULL

(* Admin's cardinality and finiteness are those of the library's theorems.   *)
LEMMA SameCardinality == \A S : Adm!Cardinality(S) = Cardinality(S)
BY DEF Adm!Cardinality, Cardinality

(* The same of finiteness.                                                  *)
LEMMA SameFinite == \A S : Adm!IsFiniteSet(S) = IsFiniteSet(S)
BY DEF Adm!IsFiniteSet, IsFiniteSet

(* A row that is created has no NULL, and NULL is what an update leaves out.*)
LEMMA AdminAssumed ==
    /\ IsFiniteSet(Clients) /\ NULL \notin RawTokens
    /\ \A r \in Requests : /\ r.op \in {"create", "update", "delete"} /\ r.id \in Keys
                           /\ r.op = "create" => \A f \in DOMAIN r.fields : r.fields[f] # NULL
    /\ Burst \in Nat \ {0} /\ MaxRequests \in Nat
BY ServerAssumption, SameFinite DEF Adm!AdminAssumption

(* What a statement does: the code it answers with, the rows it leaves.     *)
Outcome(r, t, s) ==
    /\ s.code \in {200, 404, 500} /\ s.changed = Changed(r, s.code)
    /\ s.code # 200 => s.rows = t
    /\ s.code = 200 /\ r.op = "create" =>
          r.id \notin DOMAIN t /\ s.rows = Adm!With(t, r.id, r.fields)
    /\ s.code = 200 /\ r.op = "delete" =>
          r.id \in DOMAIN t /\ s.rows = Adm!Without(t, r.id)
    /\ s.code = 200 /\ r.op = "update" =>
          /\ r.id \in DOMAIN t
          /\ s.rows = [t EXCEPT ![r.id] =
                [f \in DOMAIN @ |-> IF r.fields[f] # NULL /\ f \in DOMAIN r.fields
                                    THEN r.fields[f] ELSE @[f]]]

(* Every statement of writer.rs has such an outcome.                        *)
LEMMA StatementFacts ==
    ASSUME NEW r \in Requests, NEW t, NEW s, s = Adm!Statement(t, r)
    PROVE  Outcome(r, t, s)
<1> USE DEF Outcome
<1>1. CASE r.op = "create"
  BY <1>1 DEF Adm!Statement, Adm!create, Adm!Result, Changed
<1>2. CASE r.op = "delete"
  BY <1>2 DEF Adm!Statement, Adm!delete, Adm!Result, Changed
<1>3. CASE r.op = "update"
  <2> DEFINE given == {f \in DOMAIN r.fields : r.fields[f] # NULL}
             after == [t EXCEPT ![r.id] =
                         [f \in DOMAIN @ |-> IF f \in given THEN r.fields[f] ELSE @[f]]]
  <2>1. Adm!Statement(t, r) = Adm!update_pool(t, r)
    BY <1>3 DEF Adm!Statement
  <2>2. after = [t EXCEPT ![r.id] =
                       [f \in DOMAIN @ |-> IF r.fields[f] # NULL /\ f \in DOMAIN r.fields
                                           THEN r.fields[f] ELSE @[f]]]
    OBVIOUS
  <2>3. Adm!update_pool(t, r) =
           IF given = {} THEN Adm!Result(500, t, 0)
           ELSE IF r.id \notin DOMAIN t THEN Adm!Result(404, t, 0)
           ELSE Adm!Result(200, after, 0)
    BY DEF Adm!update_pool
  <2> HIDE DEF given, after
  <2> QED BY <1>3, <2>1, <2>2, <2>3 DEF Adm!Result, Changed
<1> QED BY <1>1, <1>2, <1>3, AdminAssumed

-----------------------------------------------------------------------------
(* Requests are told apart by their tokens alone. *)

(* No request is under way and no row is there at first.                    *)
LEMMA ServingInit == Adm!Init => ServingOK /\ RowsOK
BY AdminAssumed DEF Adm!Init, ServingOK, RowsOK

(* Only tokens and serving matter to the requests under way.                *)
LEMMA ServingStays == ServingOK /\ UNCHANGED <<tokens, serving>> => ServingOK'
BY DEF ServingOK, RequestAt, Changed

(* One request moves on. *)
LEMMA ServingMoves ==
    ASSUME ServingOK, tokens' = tokens, NEW c \in Clients, NEW s,
           serving' = [serving EXCEPT ![c] = s],
           s = Adm!Idle \/ \E r \in Requests : RequestAt(s, r)
    PROVE  ServingOK'
<1>1. serving' = [d \in Clients |-> IF d = c THEN s ELSE serving[d]]
  BY DEF ServingOK
<1>2. \A d \in Clients : serving'[d] = Adm!Idle \/ \E r \in Requests : RequestAt(serving'[d], r)
  BY <1>1 DEF ServingOK
<1>3. serving' = [d \in Clients |-> serving'[d]]
  BY <1>1
<1>4. tokens' = RawTokens \ {Empty}
  BY DEF ServingOK
<1> QED BY <1>2, <1>3, <1>4 DEF ServingOK

(* A statement leaves the rows in order, whoever hears of it.               *)
LEMMA RowsStay ==
    ASSUME RowsOK, NEW r \in Requests, NEW s, s = Adm!Statement(rows, r),
           rows' = s.rows, permits' = permits
    PROVE  RowsOK'
<1>0. Outcome(r, rows, s)
  BY StatementFacts
<1>1. CASE s.code # 200
  BY <1>1, <1>0 DEF Outcome, RowsOK
<1>2. CASE s.code = 200 /\ r.op = "create"
  <2>1. rows' = [k \in DOMAIN rows \cup {r.id} |-> IF k = r.id THEN r.fields ELSE rows[k]]
    BY <1>2, <1>0 DEF Outcome, Adm!With
  <2> QED BY <1>2, <2>1, AdminAssumed DEF RowsOK
<1>3. CASE s.code = 200 /\ r.op = "delete"
  <2>1. rows' = [k \in DOMAIN rows \ {r.id} |-> rows[k]]
    BY <1>3, <1>0 DEF Outcome, Adm!Without
  <2> QED BY <2>1 DEF RowsOK
<1>4. CASE s.code = 200 /\ r.op = "update"
  <2> DEFINE after == [f \in DOMAIN rows[r.id] |->
                         IF r.fields[f] # NULL /\ f \in DOMAIN r.fields
                         THEN r.fields[f] ELSE rows[r.id][f]]
  <2>1. r.id \in DOMAIN rows /\ rows' = [rows EXCEPT ![r.id] = after]
    BY <1>4, <1>0 DEF Outcome
  <2>2. \A f \in DOMAIN after : after[f] # NULL
    BY <2>1 DEF RowsOK
  <2> HIDE DEF after
  <2>3. DOMAIN rows' = DOMAIN rows
    BY <2>1
  <2>4. \A k \in DOMAIN rows : rows'[k] = IF k = r.id THEN after ELSE rows[k]
    BY <2>1
  <2> QED BY <2>2, <2>3, <2>4 DEF RowsOK
<1> QED BY <1>1, <1>2, <1>3, <1>4, AdminAssumed

(* Every step of the admin endpoints keeps requests and rows in order.      *)
LEMMA ServingNext == ServingOK /\ RowsOK /\ Adm!Next => ServingOK' /\ RowsOK'
<1> SUFFICES ASSUME ServingOK, RowsOK, Adm!Next PROVE ServingOK' /\ RowsOK'
  OBVIOUS
<1>1. CASE Adm!Replenish
  <2>1. ServingOK'
    BY <1>1, ServingStays DEF Adm!Replenish
  <2>2. permits' \in 0..Burst
    BY <1>1, AdminAssumed DEF Adm!Replenish, RowsOK
  <2> QED BY <1>1, <2>1, <2>2 DEF Adm!Replenish, RowsOK
<1>2. ASSUME NEW c \in Clients, Adm!Receive(c) PROVE ServingOK' /\ RowsOK'
  <2>1. PICK r \in Requests :
           serving' = [serving EXCEPT ![c] = [pc |-> "received", request |-> r]]
    BY <1>2 DEF Adm!Receive
  <2>2. RequestAt([pc |-> "received", request |-> r], r)
    BY DEF RequestAt
  <2>3. ServingOK'
    BY <1>2, <2>1, <2>2, ServingMoves DEF Adm!Receive
  <2> QED BY <1>2, <2>3 DEF Adm!Receive, RowsOK
<1>3. ASSUME NEW c \in Clients, Adm!require_admin_auth(c) PROVE ServingOK' /\ RowsOK'
  <2>1. PICK r \in Requests : serving[c] = [pc |-> "received", request |-> r]
    BY <1>3 DEF Adm!require_admin_auth, ServingOK, RequestAt, Adm!Idle
  <2>2. CASE r.token \in tokens
    <3>1. serving' = [serving EXCEPT ![c] = [pc |-> "authorised", request |-> r]]
      <4>1. serving' = [serving EXCEPT ![c].pc = "authorised"]
        BY <1>3, <2>1, <2>2 DEF Adm!require_admin_auth, Adm!is_valid_admin_token
      <4>2. [serving[c] EXCEPT !.pc = "authorised"] = [pc |-> "authorised", request |-> r]
        BY <2>1
      <4> QED BY <4>1, <4>2
    <3>2. RequestAt([pc |-> "authorised", request |-> r], r)
      BY <2>2 DEF RequestAt, ServingOK
    <3>3. ServingOK'
      BY <1>3, <3>1, <3>2, ServingMoves DEF Adm!require_admin_auth
    <3>4. permits' = permits
      BY <1>3, <2>1, <2>2 DEF Adm!require_admin_auth, Adm!is_valid_admin_token
    <3> QED BY <1>3, <3>3, <3>4 DEF Adm!require_admin_auth, RowsOK
  <2>3. CASE r.token \notin tokens
    <3> DEFINE code == IF permits = 0 THEN 429 ELSE 401
               s == [pc |-> "answer", request |-> r, code |-> code]
    <3>1. /\ serving' = [serving EXCEPT ![c] = s]
          /\ permits' = IF permits = 0 THEN 0 ELSE permits - 1
      BY <1>3, <2>1, <2>3
         DEF Adm!require_admin_auth, Adm!is_valid_admin_token, Adm!auth_failure_rate_limited
    <3>2. RequestAt(s, r)
      BY <2>3 DEF RequestAt, ServingOK
    <3> HIDE DEF s
    <3>3. ServingOK'
      BY <1>3, <3>1, <3>2, ServingMoves DEF Adm!require_admin_auth
    <3>4. permits' \in 0..Burst
      BY <3>1, AdminAssumed DEF RowsOK
    <3> QED BY <1>3, <3>3, <3>4 DEF Adm!require_admin_auth, RowsOK
  <2> QED BY <2>2, <2>3
<1>4. ASSUME NEW c \in Clients, Adm!Execute(c) PROVE ServingOK' /\ RowsOK'
  <2>1. PICK r \in Requests : /\ serving[c] = [pc |-> "authorised", request |-> r]
                              /\ r.token \in RawTokens \ {Empty}
    BY <1>4 DEF Adm!Execute, ServingOK, RequestAt, Adm!Idle
  <2>6. PICK s : s = Adm!Statement(rows, r)
    OBVIOUS
  <2> DEFINE done == [pc |-> "done", request |-> r, code |-> s.code, changed |-> s.changed]
  <2>2. /\ rows' = s.rows /\ serving' = [serving EXCEPT ![c] = done]
        /\ tokens' = tokens /\ permits' = permits
    BY <1>4, <2>1, <2>6 DEF Adm!Execute
  <2>7. Outcome(r, rows, s)
    BY <2>6, StatementFacts
  <2>3. RequestAt(done, r)
    BY <2>1, <2>7 DEF Outcome, RequestAt
  <2> HIDE DEF done
  <2>4. ServingOK'
    BY <2>2, <2>3, ServingMoves
  <2>5. RowsOK'
    BY <2>2, <2>6, RowsStay
  <2> QED BY <2>4, <2>5
<1>5. ASSUME NEW c \in Clients, Adm!ExecuteFails(c) PROVE ServingOK' /\ RowsOK'
  <2>1. PICK r \in Requests : /\ serving[c] = [pc |-> "authorised", request |-> r]
                              /\ r.token \in RawTokens \ {Empty}
    BY <1>5 DEF Adm!ExecuteFails, ServingOK, RequestAt, Adm!Idle
  <2> DEFINE done == [pc |-> "done", request |-> r, code |-> 500, changed |-> 0]
  <2>2. serving' = [serving EXCEPT ![c] = done] /\ UNCHANGED <<rows, permits, tokens>>
    BY <1>5, <2>1 DEF Adm!ExecuteFails
  <2>3. RequestAt(done, r)
    BY <2>1 DEF RequestAt, Changed
  <2> HIDE DEF done
  <2>4. ServingOK'
    BY <2>2, <2>3, ServingMoves
  <2> QED BY <2>2, <2>4 DEF RowsOK
<1>6. ASSUME NEW c \in Clients, Adm!Respond(c) \/ Adm!Disconnect(c) PROVE ServingOK' /\ RowsOK'
  <2>1. serving' = [serving EXCEPT ![c] = Adm!Idle] /\ UNCHANGED <<rows, permits, tokens>>
    BY <1>6 DEF Adm!Respond, Adm!Disconnect
  <2>2. ServingOK'
    BY <2>1, ServingMoves
  <2> QED BY <2>1, <2>2 DEF RowsOK
<1>7. ASSUME NEW r \in Requests, Adm!CommitLate(r) PROVE ServingOK' /\ RowsOK'
  <2>1. PICK s : s = Adm!Statement(rows, r)
    OBVIOUS
  <2>2. rows' = s.rows /\ UNCHANGED <<permits, tokens, serving>>
    BY <1>7, <2>1 DEF Adm!CommitLate
  <2> QED BY <2>1, <2>2, RowsStay, ServingStays
<1> QED BY <1>1, <1>2, <1>3, <1>4, <1>5, <1>6, <1>7 DEF Adm!Next

-----------------------------------------------------------------------------
(* The rows are accounted for.  Flight counts the changes that are made and *)
(* not answered; a request that moves on changes it by what it weighs.      *)

Gained(k, sv) ==
    {c \in Clients : sv[c].pc = "done" /\ sv[c].request.id = k /\ sv[c].changed = 1}
Lost(k, sv) ==
    {c \in Clients : sv[c].pc = "done" /\ sv[c].request.id = k /\ sv[c].changed = -1}

Flight(k, sv) == Cardinality(Gained(k, sv)) - Cardinality(Lost(k, sv))

Weight(k, s) == IF s.pc = "done" /\ s.request.id = k THEN s.changed ELSE 0

In01(b) == IF b THEN 1 ELSE 0

(* Two sets of clients that differ in one at most.                          *)
LEMMA OneDiffers ==
    ASSUME NEW S \in SUBSET Clients, NEW T \in SUBSET Clients, NEW c \in Clients,
           \A d \in Clients : d # c => (d \in S <=> d \in T)
    PROVE  /\ Cardinality(S) \in Nat /\ Cardinality(T) \in Nat
           /\ Cardinality(T) = Cardinality(S) - In01(c \in S) + In01(c \in T)
<1> DEFINE R == S \ {c}
<1>1. IsFiniteSet(S) /\ IsFiniteSet(T) /\ IsFiniteSet(R)
  BY AdminAssumed, FS_Subset
<1>2. Cardinality(S) \in Nat /\ Cardinality(T) \in Nat /\ Cardinality(R) \in Nat
  BY <1>1, FS_CardinalityType
<1>3. Cardinality(S) = Cardinality(R) + In01(c \in S)
  <2>1. CASE c \in S
    <3>1. S = R \cup {c} /\ c \notin R
      BY <2>1
    <3>2. Cardinality(R \cup {c}) = Cardinality(R) + 1
      BY <1>1, <3>1, FS_AddElement
    <3> HIDE DEF R
    <3> QED BY <2>1, <3>1, <3>2 DEF In01
  <2>2. CASE c \notin S
    <3>1. S = R
      BY <2>2
    <3> HIDE DEF R
    <3> QED BY <1>2, <2>2, <3>1 DEF In01
  <2> QED BY <2>1, <2>2
<1>4. Cardinality(T) = Cardinality(R) + In01(c \in T)
  <2>1. CASE c \in T
    <3>1. T = R \cup {c} /\ c \notin R
      BY <2>1
    <3>2. Cardinality(R \cup {c}) = Cardinality(R) + 1
      BY <1>1, <3>1, FS_AddElement
    <3> HIDE DEF R
    <3> QED BY <2>1, <3>1, <3>2 DEF In01
  <2>2. CASE c \notin T
    <3>1. T = R
      BY <2>2
    <3> HIDE DEF R
    <3> QED BY <1>2, <2>2, <3>1 DEF In01
  <2> QED BY <2>1, <2>2
<1>5. In01(c \in S) \in Int /\ In01(c \in T) \in Int
  BY DEF In01
<1> HIDE DEF R
<1> QED BY <1>2, <1>3, <1>4, <1>5

(* One request moves on.                                                    *)
LEMMA FlightMoves ==
    ASSUME NEW sv, NEW sw, NEW k, NEW c \in Clients,
           \A d \in Clients : d # c => sw[d] = sv[d],
           Weight(k, sv[c]) \in {-1, 0, 1}, Weight(k, sw[c]) \in {-1, 0, 1}
    PROVE  /\ Flight(k, sv) \in Int
           /\ Flight(k, sw) = Flight(k, sv) - Weight(k, sv[c]) + Weight(k, sw[c])
<1> DEFINE P == Gained(k, sv)
           Q == Gained(k, sw)
           M == Lost(k, sv)
           N == Lost(k, sw)
<1>1. P \in SUBSET Clients /\ Q \in SUBSET Clients /\ M \in SUBSET Clients /\ N \in SUBSET Clients
  BY DEF Gained, Lost
<1>2. \A d \in Clients : d # c => (d \in P <=> d \in Q) /\ (d \in M <=> d \in N)
  BY DEF Gained, Lost
<1>3. Weight(k, sv[c]) = In01(c \in P) - In01(c \in M)
  BY DEF Gained, Lost, Weight, In01
<1>4. Weight(k, sw[c]) = In01(c \in Q) - In01(c \in N)
  BY DEF Gained, Lost, Weight, In01
<1>5. Flight(k, sv) = Cardinality(P) - Cardinality(M) /\ Flight(k, sw) = Cardinality(Q) - Cardinality(N)
  BY DEF Flight
<1> HIDE DEF P, Q, M, N
<1>6. /\ Cardinality(P) \in Nat /\ Cardinality(Q) \in Nat
      /\ Cardinality(Q) = Cardinality(P) - In01(c \in P) + In01(c \in Q)
  BY <1>1, <1>2, OneDiffers
<1>7. /\ Cardinality(M) \in Nat /\ Cardinality(N) \in Nat
      /\ Cardinality(N) = Cardinality(M) - In01(c \in M) + In01(c \in N)
  BY <1>1, <1>2, OneDiffers
<1>8. /\ In01(c \in P) \in Int /\ In01(c \in Q) \in Int
      /\ In01(c \in M) \in Int /\ In01(c \in N) \in Int
  BY DEF In01
<1> QED BY <1>3, <1>4, <1>5, <1>6, <1>7, <1>8

AnswersTyped ==
    answers \in [Keys -> [Adm!Ops -> Nat]] /\ silent \in [Keys -> Int]

Accounted(k, an, si, sv, t) ==
    an[k]["create"] - an[k]["delete"] + si[k] + Flight(k, sv) = In01(k \in DOMAIN t)

AccountsOK ==
    /\ AnswersTyped
    /\ \A k \in Keys : Accounted(k, answers, silent, serving, rows)

(* The state of a request weighs what its statement changed.                *)
LEMMA WeightFacts ==
    ASSUME NEW s, NEW k, s = Adm!Idle \/ \E r \in Requests : RequestAt(s, r)
    PROVE  Weight(k, s) \in {-1, 0, 1}
BY DEF Weight, RequestAt, Adm!Idle, Changed

(* A step that leaves answers and rows alone and changes no weight.         *)
LEMMA AccountsQuiet ==
    ASSUME ServingOK, ServingOK', AccountsOK, UNCHANGED <<answers, silent, rows>>,
           NEW c \in Clients, \A d \in Clients : d # c => serving'[d] = serving[d],
           \A k \in Keys : Weight(k, serving'[c]) = Weight(k, serving[c])
    PROVE  AccountsOK'
<1>1. AnswersTyped'
  BY DEF AccountsOK, AnswersTyped
<1>2. ASSUME NEW k \in Keys PROVE Accounted(k, answers', silent', serving', rows')
  <2>1. Weight(k, serving[c]) \in {-1, 0, 1} /\ Weight(k, serving'[c]) = Weight(k, serving[c])
    BY WeightFacts DEF ServingOK
  <2>2. Flight(k, serving) \in Int /\ Flight(k, serving') = Flight(k, serving)
    <3>1. /\ Flight(k, serving) \in Int
          /\ Flight(k, serving') = Flight(k, serving) - Weight(k, serving[c]) + Weight(k, serving'[c])
      BY <2>1, FlightMoves
    <3> QED BY <2>1, <3>1
  <2> QED BY <2>2 DEF AccountsOK, Accounted
<1> QED BY <1>1, <1>2 DEF AccountsOK

(* Nothing to account for at first.                                         *)
LEMMA AccountsInit == Adm!Init => AccountsOK
<1> SUFFICES ASSUME Adm!Init PROVE AccountsOK
  OBVIOUS
<1>1. ASSUME NEW k \in Keys PROVE Accounted(k, answers, silent, serving, rows)
  <2>1. Gained(k, serving) = {} /\ Lost(k, serving) = {}
    BY DEF Gained, Lost, Adm!Init, Adm!Idle
  <2>2. Flight(k, serving) = 0
    BY <2>1, FS_EmptySet DEF Flight
  <2>3. k \notin DOMAIN rows
    BY DEF Adm!Init
  <2>4. answers[k]["create"] = 0 /\ answers[k]["delete"] = 0 /\ silent[k] = 0
    BY DEF Adm!Init, Adm!Ops
  <2> QED BY <2>2, <2>3, <2>4 DEF Accounted, In01
<1>2. AnswersTyped
  BY DEF Adm!Init, AnswersTyped
<1> QED BY <1>1, <1>2 DEF AccountsOK

(* A statement adds the row it names, takes it away or neither.             *)
LEMMA RowChanges ==
    ASSUME NEW r \in Requests, NEW t, NEW s, s = Adm!Statement(t, r), NEW k
    PROVE  In01(k \in DOMAIN s.rows) = In01(k \in DOMAIN t) + (IF k = r.id THEN s.changed ELSE 0)
<1>0. Outcome(r, t, s)
  BY StatementFacts
<1>1. CASE k # r.id \/ s.code # 200
  <2>1. (IF k = r.id THEN s.changed ELSE 0) = 0
    BY <1>0, <1>1 DEF Outcome, Changed
  <2>2. k \in DOMAIN s.rows <=> k \in DOMAIN t
    <3>1. CASE s.code # 200
      BY <1>0, <3>1 DEF Outcome
    <3>2. CASE s.code = 200 /\ r.op = "create"
      BY <1>0, <1>1, <3>2 DEF Outcome, Adm!With
    <3>3. CASE s.code = 200 /\ r.op = "delete"
      BY <1>0, <1>1, <3>3 DEF Outcome, Adm!Without
    <3>4. CASE s.code = 200 /\ r.op = "update"
      BY <1>0, <3>4 DEF Outcome
    <3> QED BY <3>1, <3>2, <3>3, <3>4, AdminAssumed
  <2> QED BY <2>1, <2>2 DEF In01
<1>2. CASE k = r.id /\ s.code = 200 /\ r.op = "create"
  <2>1. k \notin DOMAIN t /\ k \in DOMAIN s.rows
    BY <1>0, <1>2 DEF Outcome, Adm!With
  <2> QED BY <1>0, <1>2, <2>1 DEF In01, Changed, Outcome
<1>3. CASE k = r.id /\ s.code = 200 /\ r.op = "delete"
  <2>1. k \in DOMAIN t /\ k \notin DOMAIN s.rows
    BY <1>0, <1>3 DEF Outcome, Adm!Without
  <2> QED BY <1>0, <1>3, <2>1 DEF In01, Changed, Outcome
<1>4. CASE k = r.id /\ s.code = 200 /\ r.op = "update"
  <2>1. DOMAIN s.rows = DOMAIN t
    BY <1>0, <1>4 DEF Outcome
  <2>2. s.changed = 0
    BY <1>0, <1>4 DEF Changed, Outcome
  <2> QED BY <2>1, <2>2 DEF In01
<1> QED BY <1>1, <1>2, <1>3, <1>4, AdminAssumed

(* A statement changes rows and flight alike.                               *)
LEMMA AccountsExecute ==
    ASSUME ServingOK, ServingOK', AccountsOK, NEW c \in Clients, Adm!Execute(c)
    PROVE  AccountsOK'
<1>1. PICK r \in Requests : serving[c] = [pc |-> "authorised", request |-> r]
  BY DEF Adm!Execute, ServingOK, RequestAt, Adm!Idle
<1>2. PICK s : s = Adm!Statement(rows, r)
  OBVIOUS
<1>3. Outcome(r, rows, s)
  BY <1>2, StatementFacts
<1> DEFINE done == [pc |-> "done", request |-> r, code |-> s.code, changed |-> s.changed]
<1>4. /\ rows' = s.rows /\ serving' = [serving EXCEPT ![c] = done]
      /\ answers' = answers /\ silent' = silent
  BY <1>1, <1>2 DEF Adm!Execute
<1>5. serving'[c] = done /\ \A d \in Clients : d # c => serving'[d] = serving[d]
  BY <1>4 DEF ServingOK
<1>6. ASSUME NEW k \in Keys PROVE Accounted(k, answers', silent', serving', rows')
  <2>1. Weight(k, serving[c]) = 0
    BY <1>1 DEF Weight
  <2>2. Weight(k, serving'[c]) = IF k = r.id THEN Changed(r, s.code) ELSE 0
    BY <1>3, <1>5 DEF Weight, Outcome
  <2>3. Weight(k, serving'[c]) \in {-1, 0, 1}
    BY <2>2 DEF Changed
  <2>4. /\ Flight(k, serving) \in Int
        /\ Flight(k, serving') = Flight(k, serving) - Weight(k, serving[c]) + Weight(k, serving'[c])
    BY <1>5, <2>1, <2>3, FlightMoves
  <2>5. Flight(k, serving') = Flight(k, serving) + Weight(k, serving'[c])
    BY <2>1, <2>3, <2>4
  <2>6. In01(k \in DOMAIN rows') = In01(k \in DOMAIN rows) + Weight(k, serving'[c])
    BY <1>2, <1>3, <1>4, <2>2, RowChanges DEF Outcome
  <2>7. Accounted(k, answers, silent, serving, rows)
    BY DEF AccountsOK
  <2>8. /\ answers[k]["create"] \in Int /\ answers[k]["delete"] \in Int /\ silent[k] \in Int
        /\ In01(k \in DOMAIN rows) \in Int
    BY DEF AccountsOK, AnswersTyped, Adm!Ops, In01
  <2>9. answers[k]["create"] - answers[k]["delete"] + silent[k] + Flight(k, serving')
           = In01(k \in DOMAIN rows')
    <3> HIDE DEF done
    <3>1. answers[k]["create"] - answers[k]["delete"] + silent[k] + Flight(k, serving)
             = In01(k \in DOMAIN rows)
      BY <2>7 DEF Accounted
    <3> QED BY <2>3, <2>4, <2>5, <2>6, <2>8, <3>1
  <2> QED BY <1>4, <2>9 DEF Accounted
<1>7. AnswersTyped'
  BY <1>4 DEF AccountsOK, AnswersTyped
<1> QED BY <1>6, <1>7 DEF AccountsOK

(* An answer, or a client that goes away, takes a change out of flight and  *)
(* into the answers or the silent changes.                                  *)
LEMMA AccountsLeave ==
    ASSUME ServingOK, ServingOK', AccountsOK, NEW c \in Clients,
           Adm!Respond(c) \/ Adm!Disconnect(c)
    PROVE  AccountsOK'
<1>1. /\ serving' = [serving EXCEPT ![c] = Adm!Idle] /\ rows' = rows
      /\ serving[c] # Adm!Idle
  BY DEF Adm!Respond, Adm!Disconnect, Adm!Idle
<1>2. serving'[c] = Adm!Idle /\ \A d \in Clients : d # c => serving'[d] = serving[d]
  BY <1>1 DEF ServingOK
<1>3. \A k : Weight(k, serving'[c]) = 0
  BY <1>2 DEF Weight, Adm!Idle
<1>4. PICK r \in Requests : RequestAt(serving[c], r)
  BY <1>1 DEF ServingOK
<1>5. CASE serving[c].pc # "done"
  <2>1. answers' = answers /\ silent' = silent
    <3>1. CASE Adm!Respond(c)
      BY <1>4, <1>5, <3>1 DEF Adm!Respond, RequestAt
    <3>2. CASE Adm!Disconnect(c)
      BY <1>5, <3>2 DEF Adm!Disconnect
    <3> QED BY <3>1, <3>2
  <2>2. \A k : Weight(k, serving[c]) = 0
    BY <1>5 DEF Weight
  <2> QED BY <1>1, <1>2, <1>3, <2>1, <2>2, AccountsQuiet
<1>6. CASE serving[c].pc = "done"
  <2>1. PICK code \in {200, 404, 500} :
           serving[c] = [pc |-> "done", request |-> r, code |-> code, changed |-> Changed(r, code)]
    BY <1>4, <1>6 DEF RequestAt
  <2>2. Changed(r, code) \in {-1, 0, 1}
    BY DEF Changed
  <2>3. \A k : Weight(k, serving[c]) = IF k = r.id THEN Changed(r, code) ELSE 0
    BY <2>1 DEF Weight
  <2>4. r.op \in Adm!Ops /\ r.id \in Keys
    BY AdminAssumed DEF Adm!Ops
  <2>5. ASSUME NEW k \in Keys
        PROVE  /\ Flight(k, serving) \in Int
               /\ Flight(k, serving') = Flight(k, serving) - Weight(k, serving[c])
               /\ Weight(k, serving[c]) \in Int
    <3>1. Weight(k, serving[c]) \in {-1, 0, 1}
      BY <2>2, <2>3
    <3>2. Weight(k, serving'[c]) \in {-1, 0, 1}
      BY <1>3
    <3>3. /\ Flight(k, serving) \in Int
          /\ Flight(k, serving') = Flight(k, serving) - Weight(k, serving[c]) + Weight(k, serving'[c])
      BY <1>2, <3>1, <3>2, FlightMoves
    <3> QED BY <1>3, <3>1, <3>3
  <2>6. /\ AnswersTyped'
        /\ \A k \in Keys : answers'[k]["create"] - answers'[k]["delete"] + silent'[k] =
              answers[k]["create"] - answers[k]["delete"] + silent[k] + Weight(k, serving[c])
    <3>1. CASE Adm!Disconnect(c)
      <4>1. answers' = answers /\ silent' = [silent EXCEPT ![r.id] = @ + Changed(r, code)]
        BY <1>6, <2>1, <3>1 DEF Adm!Disconnect
      <4>2. silent \in [Keys -> Int] /\ answers \in [Keys -> [Adm!Ops -> Nat]]
        BY DEF AccountsOK, AnswersTyped
      <4>3. \A k \in Keys : silent'[k] = silent[k] + Weight(k, serving[c])
        <5> TAKE k \in Keys
        <5>1. CASE k = r.id
          BY <2>3, <2>4, <4>1, <4>2, <5>1
        <5>2. CASE k # r.id
          BY <2>3, <4>1, <4>2, <5>2
        <5> QED BY <5>1, <5>2
      <4>4. silent' \in [Keys -> Int]
        <5>1. silent[r.id] + Changed(r, code) \in Int
          BY <2>2, <2>4, <4>2
        <5> QED BY <2>4, <4>1, <4>2, <5>1
      <4>5. ASSUME NEW k \in Keys
            PROVE  answers'[k]["create"] - answers'[k]["delete"] + silent'[k] =
                      answers[k]["create"] - answers[k]["delete"] + silent[k] + Weight(k, serving[c])
        <5>1. /\ answers[k]["create"] \in Int /\ answers[k]["delete"] \in Int
              /\ silent[k] \in Int /\ Weight(k, serving[c]) \in Int
          BY <2>5, <4>2 DEF Adm!Ops
        <5>2. answers'[k] = answers[k] /\ silent'[k] = silent[k] + Weight(k, serving[c])
          BY <4>1, <4>3
        <5> QED BY <5>1, <5>2
      <4>6. AnswersTyped'
        BY <4>1, <4>2, <4>4 DEF AnswersTyped
      <4> QED BY <4>5, <4>6
    <3>2. CASE Adm!Respond(c) /\ code = 200
      <4>1. silent' = silent /\ answers' = [answers EXCEPT ![r.id][r.op] = @ + 1]
        BY <2>1, <3>2 DEF Adm!Respond
      <4>2. silent \in [Keys -> Int] /\ answers \in [Keys -> [Adm!Ops -> Nat]]
        BY DEF AccountsOK, AnswersTyped
      <4>3. /\ answers' \in [Keys -> [Adm!Ops -> Nat]]
            /\ \A k \in Keys : \A o \in Adm!Ops :
                  answers'[k][o] = answers[k][o] + In01(k = r.id /\ o = r.op)
        <5> DEFINE mine == [answers[r.id] EXCEPT ![r.op] = @ + 1]
        <5>1. answers' = [answers EXCEPT ![r.id] = mine]
          BY <4>1
        <5>2. mine \in [Adm!Ops -> Nat] /\ \A o \in Adm!Ops : mine[o] = answers[r.id][o] + In01(o = r.op)
          BY <2>4, <4>2 DEF In01
        <5> HIDE DEF mine
        <5>3. answers' \in [Keys -> [Adm!Ops -> Nat]]
          BY <4>2, <5>1, <5>2
        <5>4. \A k \in Keys : answers'[k] = IF k = r.id THEN mine ELSE answers[k]
          BY <4>2, <5>1
        <5>5. \A k \in Keys : \A o \in Adm!Ops :
                  answers'[k][o] = answers[k][o] + In01(k = r.id /\ o = r.op)
          <6> TAKE k \in Keys
          <6> TAKE o \in Adm!Ops
          <6>1. CASE k = r.id
            BY <5>2, <5>4, <6>1 DEF In01
          <6>2. CASE k # r.id
            BY <4>2, <5>4, <6>2 DEF In01
          <6> QED BY <6>1, <6>2
        <5> QED BY <5>3, <5>5
      <4>4. ASSUME NEW k \in Keys
            PROVE  answers'[k]["create"] - answers'[k]["delete"] + silent'[k] =
                      answers[k]["create"] - answers[k]["delete"] + silent[k] + Weight(k, serving[c])
        <5>1. /\ answers'[k]["create"] = answers[k]["create"] + In01(k = r.id /\ "create" = r.op)
              /\ answers'[k]["delete"] = answers[k]["delete"] + In01(k = r.id /\ "delete" = r.op)
          BY <4>3 DEF Adm!Ops
        <5>2. Weight(k, serving[c]) = In01(k = r.id /\ "create" = r.op) - In01(k = r.id /\ "delete" = r.op)
          BY <2>3, <3>2 DEF Changed, In01
        <5>3. /\ answers[k]["create"] \in Int /\ answers[k]["delete"] \in Int /\ silent[k] \in Int
              /\ In01(k = r.id /\ "create" = r.op) \in Int /\ In01(k = r.id /\ "delete" = r.op) \in Int
          BY <4>2 DEF Adm!Ops, In01
        <5> QED BY <4>1, <5>1, <5>2, <5>3
      <4> QED BY <4>1, <4>2, <4>3, <4>4 DEF AnswersTyped
    <3>3. CASE Adm!Respond(c) /\ code # 200
      <4>1. silent' = silent /\ answers' = answers
        BY <2>1, <3>3 DEF Adm!Respond
      <4>2. \A k \in Keys : Weight(k, serving[c]) = 0
        BY <2>3, <3>3 DEF Changed
      <4>3. silent \in [Keys -> Int] /\ answers \in [Keys -> [Adm!Ops -> Nat]]
        BY DEF AccountsOK, AnswersTyped
      <4>4. \A k \in Keys : /\ answers[k]["create"] \in Int /\ answers[k]["delete"] \in Int
                            /\ silent[k] \in Int
        BY <4>3 DEF Adm!Ops
      <4> QED BY <4>1, <4>2, <4>3, <4>4 DEF AnswersTyped
    <3> QED BY <3>1, <3>2, <3>3
  <2>7. ASSUME NEW k \in Keys PROVE Accounted(k, answers', silent', serving', rows')
    <3>1. answers[k]["create"] - answers[k]["delete"] + silent[k] + Flight(k, serving)
             = In01(k \in DOMAIN rows)
      BY DEF AccountsOK, Accounted
    <3>2. /\ answers[k]["create"] \in Int /\ answers[k]["delete"] \in Int /\ silent[k] \in Int
          /\ In01(k \in DOMAIN rows) \in Int
      BY DEF AccountsOK, AnswersTyped, Adm!Ops, In01
    <3>3. answers'[k]["create"] - answers'[k]["delete"] + silent'[k] =
              answers[k]["create"] - answers[k]["delete"] + silent[k] + Weight(k, serving[c])
      BY <2>6
    <3>4. answers'[k]["create"] - answers'[k]["delete"] + silent'[k] + Flight(k, serving')
             = In01(k \in DOMAIN rows)
      BY <2>5, <3>1, <3>2, <3>3
    <3> QED BY <1>1, <3>4 DEF Accounted
  <2> QED BY <2>6, <2>7 DEF AccountsOK
<1> QED BY <1>5, <1>6

(* A statement committed after its request changes rows and silent alike.   *)
LEMMA AccountsLate ==
    ASSUME AccountsOK, NEW r \in Requests, Adm!CommitLate(r)
    PROVE  AccountsOK'
<1>1. PICK s : s = Adm!Statement(rows, r)
  OBVIOUS
<1>2. /\ rows' = s.rows /\ silent' = [silent EXCEPT ![r.id] = @ + s.changed]
      /\ answers' = answers /\ serving' = serving
  BY <1>1 DEF Adm!CommitLate
<1>3. s.changed \in Int /\ r.id \in Keys
  <2>0. Outcome(r, rows, s)
    BY <1>1, StatementFacts
  <2>1. s.changed = Changed(r, s.code)
    BY <2>0 DEF Outcome
  <2>2. Changed(r, s.code) \in {-1, 0, 1}
    BY DEF Changed
  <2> QED BY <2>1, <2>2, AdminAssumed
<1>4. silent \in [Keys -> Int] /\ answers \in [Keys -> [Adm!Ops -> Nat]]
  BY DEF AccountsOK, AnswersTyped
<1>5. silent' \in [Keys -> Int]
  <2>1. silent[r.id] + s.changed \in Int
    BY <1>3, <1>4
  <2> QED BY <1>2, <1>4, <2>1
<1>6. ASSUME NEW k \in Keys PROVE Accounted(k, answers', silent', serving', rows')
  <2>1. silent'[k] = silent[k] + (IF k = r.id THEN s.changed ELSE 0)
    <3>1. silent[k] \in Int
      BY <1>4
    <3> QED BY <1>2, <1>3, <1>4, <3>1
  <2>2. In01(k \in DOMAIN rows') = In01(k \in DOMAIN rows) + (IF k = r.id THEN s.changed ELSE 0)
    BY <1>1, <1>2, RowChanges
  <2>3. Flight(k, serving) \in Int
    <3>1. /\ Gained(k, serving) \in SUBSET Clients /\ Lost(k, serving) \in SUBSET Clients
      BY DEF Gained, Lost
    <3>2. IsFiniteSet(Gained(k, serving)) /\ IsFiniteSet(Lost(k, serving))
      BY <3>1, AdminAssumed, FS_Subset
    <3>3. Cardinality(Gained(k, serving)) \in Nat /\ Cardinality(Lost(k, serving)) \in Nat
      BY <3>2, FS_CardinalityType
    <3> QED BY <3>3 DEF Flight
  <2>4. /\ answers[k]["create"] \in Int /\ answers[k]["delete"] \in Int /\ silent[k] \in Int
        /\ In01(k \in DOMAIN rows) \in Int
    BY <1>4 DEF Adm!Ops, In01
  <2>5. answers[k]["create"] - answers[k]["delete"] + silent[k] + Flight(k, serving)
           = In01(k \in DOMAIN rows)
    BY DEF AccountsOK, Accounted
  <2>6. answers[k]["create"] - answers[k]["delete"] + silent'[k] + Flight(k, serving)
           = In01(k \in DOMAIN rows')
    BY <1>3, <2>1, <2>2, <2>3, <2>4, <2>5
  <2> QED BY <1>2, <2>6 DEF Accounted
<1> QED BY <1>2, <1>4, <1>5, <1>6 DEF AccountsOK, AnswersTyped

(* Every step of the admin endpoints keeps the rows accounted for.          *)
LEMMA AccountsNext ==
    ServingOK /\ RowsOK /\ AccountsOK /\ Adm!Next => AccountsOK'
<1> SUFFICES ASSUME ServingOK, RowsOK, AccountsOK, Adm!Next PROVE AccountsOK'
  OBVIOUS
<1>0. ServingOK'
  BY ServingNext
<1>1. CASE Adm!Replenish
  <2>1. UNCHANGED <<answers, silent, rows, serving>>
    BY <1>1 DEF Adm!Replenish
  <2> QED BY <2>1 DEF AccountsOK, AnswersTyped
<1>2. ASSUME NEW c \in Clients,
             Adm!Receive(c) \/ Adm!require_admin_auth(c) \/ Adm!ExecuteFails(c)
      PROVE  AccountsOK'
  <2>1. UNCHANGED <<answers, silent, rows>>
    BY <1>2 DEF Adm!Receive, Adm!require_admin_auth, Adm!ExecuteFails
  <2>2. \A d \in Clients : d # c => serving'[d] = serving[d]
    BY <1>2 DEF Adm!Receive, Adm!require_admin_auth, Adm!ExecuteFails,
                Adm!auth_failure_rate_limited, ServingOK
  <2>3. \A k : Weight(k, serving[c]) = 0
    BY <1>2 DEF Adm!Receive, Adm!require_admin_auth, Adm!ExecuteFails, Weight, Adm!Idle
  <2>4. \A k : Weight(k, serving'[c]) = 0
    <3>1. CASE Adm!Receive(c)
      BY <3>1 DEF Adm!Receive, Weight, ServingOK
    <3>2. CASE Adm!require_admin_auth(c)
      <4>1. PICK r \in Requests : serving[c] = [pc |-> "received", request |-> r]
        BY <3>2 DEF Adm!require_admin_auth, ServingOK, RequestAt, Adm!Idle
      <4>2. serving'[c].pc \in {"authorised", "answer"}
        BY <3>2, <4>1 DEF Adm!require_admin_auth, Adm!auth_failure_rate_limited, ServingOK
      <4> QED BY <4>2 DEF Weight
    <3>3. CASE Adm!ExecuteFails(c)
      BY <3>3 DEF Adm!ExecuteFails, Weight, ServingOK
    <3> QED BY <1>2, <3>1, <3>2, <3>3
  <2> QED BY <1>0, <2>1, <2>2, <2>3, <2>4, AccountsQuiet
<1>3. ASSUME NEW c \in Clients, Adm!Execute(c) PROVE AccountsOK'
  BY <1>0, <1>3, AccountsExecute
<1>4. ASSUME NEW c \in Clients, Adm!Respond(c) \/ Adm!Disconnect(c) PROVE AccountsOK'
  BY <1>0, <1>4, AccountsLeave
<1>5. ASSUME NEW r \in Requests, Adm!CommitLate(r) PROVE AccountsOK'
  BY <1>5, AccountsLate
<1> QED BY <1>1, <1>2, <1>3, <1>4, <1>5 DEF Adm!Next

-----------------------------------------------------------------------------
(* What the admin endpoints keep, whatever the other endpoints do.          *)
AdminOK == ServingOK /\ RowsOK /\ AccountsOK

(* The invariant of the admin endpoints.                                    *)
LEMMA AdminAlways == ServerSpec => []AdminOK
<1>1. ServerInit => AdminOK
  BY ServingInit, AccountsInit DEF ServerInit, AdminOK
<1>2. AdminOK /\ UNCHANGED adminVars => AdminOK'
  BY ServingStays DEF AdminOK, adminVars, RowsOK, AccountsOK, AnswersTyped
<1>3. AdminOK /\ Adm!Next => AdminOK'
  BY ServingNext, AccountsNext DEF AdminOK
<1>4. AdminOK /\ [ServerNext]_serverVars => AdminOK'
  <2>1. [ServerNext]_serverVars => Adm!Next \/ UNCHANGED adminVars
    BY DEF ServerNext, serverVars, adminVars
  <2> QED BY <1>2, <1>3, <2>1
<1> QED BY <1>1, <1>4, PTL DEF ServerSpec

(* TokensDecide: whatever failures came before and however far the limiter  *)
(* is exhausted, a request with a configured token is not refused, and one  *)
(* without, or with the empty one, never reaches the tables                 *)
(* (require_admin_auth).                                                    *)
THEOREM TokensAlwaysDecide == ServerSpec => []TokensDecide
<1>1. AdminOK => TokensDecide
  <2> SUFFICES ASSUME AdminOK, NEW c \in Clients
               PROVE  /\ serving[c].pc = "answer" => serving[c].request.token \notin RawTokens \ {Empty}
                      /\ serving[c].pc \in {"authorised", "done"} =>
                            serving[c].request.token \in RawTokens \ {Empty, NULL}
    BY DEF TokensDecide, Adm!TokensDecide
  <2>1. CASE serving[c] = Adm!Idle
    BY <2>1 DEF Adm!Idle
  <2>2. ASSUME NEW r \in Requests, RequestAt(serving[c], r)
        PROVE  /\ serving[c].pc = "answer" => serving[c].request.token \notin RawTokens \ {Empty}
               /\ serving[c].pc \in {"authorised", "done"} =>
                     serving[c].request.token \in RawTokens \ {Empty, NULL}
    BY <2>2, AdminAssumed DEF RequestAt
  <2> QED BY <2>1, <2>2 DEF AdminOK, ServingOK
<1> QED BY <1>1, AdminAlways, PTL

(* AnswersAccountForRows: however creates, updates and deletes of a key     *)
(* race, fail, lose their client or are committed after an error was        *)
(* answered, the OKs, the changes without one and those about to be         *)
(* answered add up to the row being there or not (writer.rs: a plain        *)
(* INSERT, and rows_affected after UPDATE and DELETE).                      *)
THEOREM AnswersAlwaysAccount == ServerSpec => []AnswersAccountForRows
<1>1. AdminOK => Adm!TypeOK
  <2> SUFFICES ASSUME AdminOK PROVE Adm!TypeOK
    OBVIOUS
  <2>1. ASSUME NEW c \in Clients
        PROVE  /\ serving[c].pc \in {"idle", "received", "authorised", "answer", "done"}
               /\ serving[c].pc \in {"answer", "done"} => serving[c].code \in Adm!Codes
    <3>1. CASE serving[c] = Adm!Idle
      BY <3>1 DEF Adm!Idle
    <3>2. CASE \E r \in Requests : RequestAt(serving[c], r)
      BY <3>2 DEF RequestAt, Adm!Codes
    <3> QED BY <3>1, <3>2 DEF AdminOK, ServingOK
  <2>2. \A k \in DOMAIN rows : NULL \notin {rows[k][f] : f \in DOMAIN rows[k]}
    BY DEF AdminOK, RowsOK
  <2> QED BY <2>1, <2>2 DEF Adm!TypeOK, AdminOK, RowsOK
<1>2. \A k : Adm!InFlight(k) = Flight(k, serving)
  <2> TAKE k
  <2> DEFINE done == {c \in Clients : serving[c].pc = "done" /\ serving[c].request.id = k}
  <2>1. {c \in done : serving[c].changed = 1} = Gained(k, serving)
    BY DEF Gained
  <2>2. {c \in done : serving[c].changed = -1} = Lost(k, serving)
    BY DEF Lost
  <2>3. Adm!InFlight(k) = Adm!Cardinality({c \in done : serving[c].changed = 1})
                             - Adm!Cardinality({c \in done : serving[c].changed = -1})
    BY DEF Adm!InFlight
  <2> HIDE DEF done
  <2> QED BY <2>1, <2>2, <2>3, SameCardinality DEF Flight
<1>3. AdminOK => Adm!AnswersAccountForRows
  BY <1>2 DEF AdminOK, AccountsOK, Accounted, In01, Adm!AnswersAccountForRows
<1>4. AdminOK => AnswersAccountForRows
  BY <1>1, <1>3 DEF AnswersAccountForRows
<1> QED BY <1>4, AdminAlways, PTL

-----------------------------------------------------------------------------
(* The state of a trader's orders.  The columns of order_updates are of the *)
(* type BIGINT: a quantity of 2^63 or more comes back negative, and only of *)
(* an order that fits do its rows say what is left of it.                   *)

BookOK(o, b) ==
    /\ b \in [quantity : Nat, filled : Nat, state : O!States]
    /\ b.filled <= b.quantity /\ b.quantity <= Quantity[o]
    /\ b.state = "open" => b.filled < b.quantity
    /\ b.state = "absent" => b.filled = 0

(* What a row says of its order, on the chain in state b.                   *)
ColumnsOK(c, b) ==
    /\ c.status \in {"Placed", "Modified", "Canceled", "Expired"}
    /\ c.filled_quantity \in Int /\ c.original_quantity \in Int
    /\ b.state # "absent" /\ c.filled_quantity <= b.filled
    /\ c.status = "Canceled" => b.state = "canceled"
    /\ c.status = "Expired" => b.state = "expired"
    /\ c.status \in {"Canceled", "Expired"} => c.filled_quantity = O!AsI64(b.filled)
    /\ O!Fits(c.order_id) =>
          /\ 0 <= c.filled_quantity /\ c.filled_quantity <= c.original_quantity
          /\ c.status \in {"Placed", "Modified"} => c.filled_quantity # c.original_quantity

RowOK(r, bk, t) ==
    /\ r.columns.order_id \in Orders /\ r.ts \in 1..t
    /\ ColumnsOK(r.columns, bk[r.columns.order_id])

(* The end of an order is its last row, and its placement is one.           *)
PairOK(r, s) ==
    r.columns.order_id = s.columns.order_id =>
        /\ r.columns.status \in {"Canceled", "Expired"} => s.ts <= r.ts
        /\ r.columns.status = "Placed" /\ s.columns.status = "Placed" => r.ts = s.ts

(* The answer is one to a query of the table as it is.                      *)
AnswerOK ==
    \/ listed = O!None
    \/ \E q \in OrderQueries : \E page \in O!get_orders_status(q) :
          listed = [query |-> q, orders |-> page]

OrdersOK ==
    /\ time \in Nat \ {0}
    /\ book = [o \in Orders |-> book[o]] /\ \A o \in Orders : BookOK(o, book[o])
    /\ \A r \in updates \cup emitted : RowOK(r, book, time)
    /\ \A r, s \in updates \cup emitted : PairOK(r, s)
    /\ AnswerOK

(* What is stored of a quantity n and of the part f of it that is filled.   *)
LEMMA StoredAs ==
    ASSUME NEW o \in Orders, NEW n \in Nat, n <= Quantity[o], NEW f \in Nat, f <= n
    PROVE  /\ O!AsI64(n) \in Int /\ O!AsI64(f) \in Int /\ O!AsI64(f) <= f
           /\ O!Fits(o) => O!AsI64(n) = n /\ O!AsI64(f) = f
           /\ O!AsI64((n - (n - f)) % Word) = O!AsI64(f)
<1>1. Word \in Nat /\ Word > 0
  BY WordAssumption
<1>2. Word \div 2 \in Int
  BY <1>1
<1>3. Quantity[o] \in 0..(Word - 1)
  BY ServerAssumption DEF O!OrdersAssumption
<1>4. n < Word /\ f < Word /\ n - (n - f) = f
  BY <1>1, <1>3
<1>5. f % Word = f
  BY <1>1, <1>4
<1>6. \A m \in Nat : O!AsI64(m) \in Int /\ O!AsI64(m) <= m /\ (m < Word \div 2 => O!AsI64(m) = m)
  BY <1>1, <1>2 DEF O!AsI64
<1>7. O!Fits(o) => n < Word \div 2 /\ f < Word \div 2
  BY <1>2, <1>3 DEF O!Fits
<1> QED BY <1>4, <1>5, <1>6, <1>7

(* The row of an event that leaves order o in state b.                      *)
Fresh(row, o, b) ==
    /\ row.columns.order_id = o /\ row.ts = time /\ ColumnsOK(row.columns, b)
    /\ row.columns.status = "Placed" => book[o].state = "absent"

(* A step of one order on the chain, and the row of its event, if any.      *)
OrderStep(o, b, row) ==
    /\ book[o].state \in {"absent", "open"}
    /\ book' = [book EXCEPT ![o] = b]
    /\ BookOK(o, b) /\ b.state # "absent" /\ book[o].filled <= b.filled
    /\ emitted' = emitted \/ (emitted' = emitted \cup {row} /\ Fresh(row, o, b))
    /\ time' = time /\ updates' = updates /\ listed' = O!None

(* Such a step keeps rows and orders in order.                              *)
LEMMA OrdersTrade ==
    ASSUME OrdersOK, NEW o \in Orders, NEW b, NEW row, OrderStep(o, b, row)
    PROVE  OrdersOK'
<1> USE DEF OrderStep
<1>1. book' = [p \in Orders |-> IF p = o THEN b ELSE book[p]]
  BY DEF OrdersOK
<1>2. book' = [p \in Orders |-> book'[p]] /\ \A p \in Orders : BookOK(p, book'[p])
  BY <1>1 DEF OrdersOK
<1>3. ASSUME NEW r \in updates \cup emitted PROVE RowOK(r, book', time')
  <2>1. RowOK(r, book, time)
    BY DEF OrdersOK
  <2>2. CASE r.columns.order_id # o
    BY <1>1, <2>1, <2>2 DEF RowOK
  <2>3. CASE r.columns.order_id = o
    <3>1. ColumnsOK(r.columns, book[o]) /\ r.ts \in 1..time'
      BY <2>1, <2>3 DEF RowOK
    <3>2. BookOK(o, book[o]) /\ book[o].filled \in Nat /\ b.filled \in Nat
      BY DEF OrdersOK, BookOK
    <3>3. ColumnsOK(r.columns, b)
      BY <3>1, <3>2 DEF ColumnsOK
    <3> QED BY <1>1, <2>3, <3>1, <3>3 DEF RowOK
  <2> QED BY <2>2, <2>3
<1>4. ASSUME Fresh(row, o, b)
      PROVE  /\ RowOK(row, book', time') /\ PairOK(row, row)
             /\ \A s \in updates \cup emitted : PairOK(row, s) /\ PairOK(s, row)
  <2>1. row.ts \in 1..time'
    BY <1>4 DEF OrdersOK, Fresh
  <2>2. RowOK(row, book', time')
    BY <1>1, <1>4, <2>1 DEF RowOK, Fresh
  <2>3. PairOK(row, row)
    BY <2>1 DEF PairOK
  <2>4. ASSUME NEW s \in updates \cup emitted PROVE PairOK(row, s) /\ PairOK(s, row)
    <3>1. RowOK(s, book, time)
      BY DEF OrdersOK
    <3>2. s.ts <= row.ts
      BY <1>4, <3>1 DEF RowOK, OrdersOK, Fresh
    <3>3. s.columns.order_id = o => /\ s.columns.status \notin {"Canceled", "Expired"}
                                    /\ book[o].state # "absent"
      BY <3>1 DEF RowOK, ColumnsOK
    <3> QED BY <1>4, <3>2, <3>3 DEF PairOK, Fresh
  <2> QED BY <2>2, <2>3, <2>4
<1>7. \A r \in (updates \cup emitted)' : r \in updates \cup emitted \/ (r = row /\ Fresh(row, o, b))
  OBVIOUS
<1>8. \A r \in (updates \cup emitted)' : RowOK(r, book', time')
  BY <1>3, <1>4, <1>7
<1>9. \A r, s \in (updates \cup emitted)' : PairOK(r, s)
  BY <1>4, <1>7 DEF OrdersOK
<1>10. time' \in Nat \ {0} /\ AnswerOK'
  BY DEF OrdersOK, AnswerOK
<1> QED BY <1>2, <1>8, <1>9, <1>10 DEF OrdersOK

(* What the rows of an order of quantity n, f of it filled, say of it.      *)
LEMMA OrderColumns ==
    ASSUME NEW o \in Orders, NEW f \in Nat, NEW n \in Nat, f <= n, n <= Quantity[o], NEW b,
           b.filled = f,
           NEW c, c.order_id = o, c.original_quantity = O!AsI64(n), c.filled_quantity = O!AsI64(f),
           \/ c.status = "Modified" /\ b.state = "open" /\ f < n
           \/ c.status = "Canceled" /\ b.state = "canceled"
           \/ c.status = "Expired" /\ b.state = "expired"
    PROVE  ColumnsOK(c, b)
<1>1. /\ O!AsI64(n) \in Int /\ O!AsI64(f) \in Int /\ O!AsI64(f) <= f
      /\ O!Fits(o) => O!AsI64(n) = n /\ O!AsI64(f) = f
  BY StoredAs
<1> QED BY <1>1 DEF ColumnsOK

(* Trading keeps rows and orders in order.                                  *)
LEMMA OrdersTrades == ASSUME OrdersOK, O!Trade PROVE OrdersOK'
<1>1. PICK o \in Orders : \/ \E e \in 0..(Quantity[o] - 1) : O!Place(o, e)
                          \/ \E m \in 1..Quantity[o] : O!Fill(o, m)
                          \/ \E m \in 1..Quantity[o] : O!Modify(o, m)
                          \/ O!Cancel(o)
                          \/ O!Expire(o)
  BY DEF O!Trade
<1>2. time' = time /\ updates' = updates /\ listed' = O!None
  BY DEF O!Trade
<1>3. BookOK(o, book[o]) /\ Quantity[o] \in Nat
  BY ServerAssumption, WordAssumption DEF OrdersOK, O!OrdersAssumption
<1>4. PICK n \in Nat, f \in Nat, z \in O!States :
         /\ book[o] = [quantity |-> n, filled |-> f, state |-> z]
         /\ f <= n /\ n <= Quantity[o] /\ (z = "open" => f < n) /\ (z = "absent" => f = 0)
  BY <1>3 DEF BookOK
<1>5. ASSUME NEW e \in 0..(Quantity[o] - 1), O!Place(o, e) PROVE OrdersOK'
  <2> DEFINE b == [quantity |-> Quantity[o], filled |-> e, state |-> "open"]
             left == Quantity[o] - e
             c == [status |-> "Placed", order_id |-> o, original_quantity |-> O!AsI64(left),
                   quantity |-> O!AsI64(left), filled_quantity |-> 0]
             row == [columns |-> c, ts |-> time]
  <2>1. O!process_order_placed([order_id |-> o, placed_quantity |-> left]) = c
    BY DEF O!process_order_placed
  <2>2. book[o].state = "absent" /\ book' = [book EXCEPT ![o] = b] /\ emitted' = emitted \cup {row}
    BY <1>5, <2>1 DEF O!Place, O!Emit
  <2>3. BookOK(o, b) /\ ColumnsOK(c, b)
    <3>1. left \in Nat /\ left <= Quantity[o] /\ left > 0 /\ e \in Nat
      BY <1>3
    <3>2. O!AsI64(left) \in Int /\ (O!Fits(o) => O!AsI64(left) = left)
      BY <3>1, StoredAs
    <3>3. BookOK(o, b)
      BY <1>3, <3>1 DEF BookOK, O!States
    <3> HIDE DEF left
    <3>4. ColumnsOK(c, b)
      BY <3>1, <3>2 DEF ColumnsOK
    <3> QED BY <3>3, <3>4
  <2>4. Fresh(row, o, b)
    BY <2>2, <2>3 DEF Fresh
  <2>5. book[o].filled <= b.filled /\ b.state # "absent"
    BY <1>4, <2>2
  <2>6. OrderStep(o, b, row)
    BY <1>2, <2>2, <2>3, <2>4, <2>5 DEF OrderStep
  <2> HIDE DEF b, c, row
  <2> QED BY <2>6, OrdersTrade
<1>6. ASSUME NEW m \in 1..Quantity[o], O!Fill(o, m) PROVE OrdersOK'
  <2>0. PICK e : e = IF f + m = n THEN "filled" ELSE "open"
    OBVIOUS
  <2> DEFINE b == [quantity |-> n, filled |-> f + m, state |-> e]
  <2>1. z = "open" /\ f + m <= n /\ emitted' = emitted
    BY <1>4, <1>6 DEF O!Fill
  <2>2. book' = [book EXCEPT ![o] = b]
    <3>1. book[o].filled = f /\ book[o].quantity = n
      BY <1>4
    <3>2. book' = [book EXCEPT ![o] = [book[o] EXCEPT !.filled = @ + m, !.state = e]]
      BY <1>6, <2>0, <3>1 DEF O!Fill, OrdersOK
    <3>3. b = [book[o] EXCEPT !.filled = @ + m, !.state = e]
      <4>1. [book[o] EXCEPT !.filled = @ + m] = [quantity |-> n, filled |-> f + m, state |-> z]
        BY <1>4
      <4>2. [book[o] EXCEPT !.filled = @ + m, !.state = e]
               = [[book[o] EXCEPT !.filled = @ + m] EXCEPT !.state = e]
        OBVIOUS
      <4>3. [[quantity |-> n, filled |-> f + m, state |-> z] EXCEPT !.state = e] = b
        OBVIOUS
      <4> HIDE DEF b
      <4> QED BY <4>1, <4>2, <4>3
    <3> QED BY <3>2, <3>3
  <2>3. BookOK(o, b)
    BY <1>3, <1>4, <2>0, <2>1 DEF BookOK, O!States
  <2>4. book[o].filled <= b.filled /\ b.state # "absent" /\ book[o].state = "open"
    BY <1>4, <2>0, <2>1
  <2> HIDE DEF b
  <2>6. PICK row : TRUE
    OBVIOUS
  <2>5. OrderStep(o, b, row)
    BY <1>2, <2>1, <2>2, <2>3, <2>4 DEF OrderStep
  <2> QED BY <2>5, OrdersTrade
<1>7. ASSUME NEW m \in 1..Quantity[o], O!Modify(o, m) PROVE OrdersOK'
  <2> DEFINE b == [quantity |-> m, filled |-> f, state |-> "open"]
             c == [status |-> "Modified", order_id |-> o, original_quantity |-> O!AsI64(n),
                   quantity |-> O!AsI64(m), filled_quantity |-> O!AsI64(f)]
             row == [columns |-> c, ts |-> time]
  <2>1. z = "open" /\ m \in Nat /\ f < m /\ m < n
    BY <1>4, <1>7 DEF O!Modify
  <2>2. O!process_order_modified([order_id |-> o, previous_quantity |-> n,
                                  filled_quantity |-> f, new_quantity |-> m]) = c
    BY DEF O!process_order_modified
  <2>3. emitted' = emitted \cup {row}
    BY <1>4, <1>7, <2>2 DEF O!Modify, O!Emit
  <2>4. book' = [book EXCEPT ![o] = b]
    <3>1. book' = [book EXCEPT ![o].quantity = m]
      BY <1>7 DEF O!Modify
    <3>2. b = [book[o] EXCEPT !.quantity = m]
      BY <1>4, <2>1
    <3> QED BY <3>1, <3>2
  <2>5. BookOK(o, b) /\ ColumnsOK(c, b)
    <3>1. BookOK(o, b)
      BY <1>3, <1>4, <2>1 DEF BookOK, O!States
    <3>2. ColumnsOK(c, b)
      BY <1>4, <2>1, OrderColumns
    <3> QED BY <3>1, <3>2
  <2>6. Fresh(row, o, b)
    BY <2>5 DEF Fresh
  <2>7. book[o].filled <= b.filled /\ b.state # "absent" /\ book[o].state = "open"
    BY <1>4, <2>1
  <2>8. OrderStep(o, b, row)
    BY <1>2, <2>3, <2>4, <2>5, <2>6, <2>7 DEF OrderStep
  <2> HIDE DEF b, c, row
  <2> QED BY <2>8, OrdersTrade
<1>8. CASE O!Cancel(o)
  <2> DEFINE b == [quantity |-> n, filled |-> f, state |-> "canceled"]
             c == [status |-> "Canceled", order_id |-> o, original_quantity |-> O!AsI64(n),
                   quantity |-> O!AsI64(n - f), filled_quantity |-> O!AsI64(f)]
             row == [columns |-> c, ts |-> time]
  <2>1. z = "open"
    BY <1>4, <1>8 DEF O!Cancel
  <2>2. O!process_order_canceled([order_id |-> o, original_quantity |-> n,
                                  canceled_quantity |-> n - f]) = c
    BY <1>4, StoredAs DEF O!process_order_canceled
  <2>3. emitted' = emitted \cup {row}
    BY <1>4, <1>8, <2>2 DEF O!Cancel, O!Emit
  <2>4. book' = [book EXCEPT ![o] = b]
    <3>1. book' = [book EXCEPT ![o].state = "canceled"]
      BY <1>8 DEF O!Cancel
    <3>2. b = [book[o] EXCEPT !.state = "canceled"]
      BY <1>4
    <3> QED BY <3>1, <3>2
  <2>5. BookOK(o, b) /\ ColumnsOK(c, b)
    <3>1. BookOK(o, b)
      BY <1>3, <1>4 DEF BookOK, O!States
    <3>2. ColumnsOK(c, b)
      BY <1>4, OrderColumns
    <3> QED BY <3>1, <3>2
  <2>6. Fresh(row, o, b)
    BY <2>5 DEF Fresh
  <2>7. book[o].filled <= b.filled /\ b.state # "absent" /\ book[o].state = "open"
    BY <1>4, <2>1
  <2>8. OrderStep(o, b, row)
    BY <1>2, <2>3, <2>4, <2>5, <2>6, <2>7 DEF OrderStep
  <2> HIDE DEF b, c, row
  <2> QED BY <2>8, OrdersTrade
<1>9. CASE O!Expire(o)
  <2> DEFINE b == [quantity |-> n, filled |-> f, state |-> "expired"]
             c == [status |-> "Expired", order_id |-> o, original_quantity |-> O!AsI64(n),
                   quantity |-> O!AsI64(n - f), filled_quantity |-> O!AsI64(f)]
             row == [columns |-> c, ts |-> time]
  <2>1. z = "open"
    BY <1>4, <1>9 DEF O!Expire
  <2>2. O!process_order_expired([order_id |-> o, original_quantity |-> n,
                                 canceled_quantity |-> n - f]) = c
    BY <1>4, StoredAs DEF O!process_order_expired
  <2>3. emitted' = emitted \cup {row}
    BY <1>4, <1>9, <2>2 DEF O!Expire, O!Emit
  <2>4. book' = [book EXCEPT ![o] = b]
    <3>1. book' = [book EXCEPT ![o].state = "expired"]
      BY <1>9 DEF O!Expire
    <3>2. b = [book[o] EXCEPT !.state = "expired"]
      BY <1>4
    <3> QED BY <3>1, <3>2
  <2>5. BookOK(o, b) /\ ColumnsOK(c, b)
    <3>1. BookOK(o, b)
      BY <1>3, <1>4 DEF BookOK, O!States
    <3>2. ColumnsOK(c, b)
      BY <1>4, OrderColumns
    <3> QED BY <3>1, <3>2
  <2>6. Fresh(row, o, b)
    BY <2>5 DEF Fresh
  <2>7. book[o].filled <= b.filled /\ b.state # "absent" /\ book[o].state = "open"
    BY <1>4, <2>1
  <2>8. OrderStep(o, b, row)
    BY <1>2, <2>3, <2>4, <2>5, <2>6, <2>7 DEF OrderStep
  <2> HIDE DEF b, c, row
  <2> QED BY <2>8, OrdersTrade
<1> QED BY <1>1, <1>5, <1>6, <1>7, <1>8, <1>9

(* Every step of the chain, of the indexer and of the endpoint.             *)
LEMMA OrdersNext == ASSUME OrdersOK, O!Next PROVE OrdersOK'
<1>1. CASE O!Trade
  BY <1>1, OrdersTrades
<1>2. CASE O!NextCheckpoint
  <2>1. /\ time' = time + 1 /\ listed' = O!None
        /\ book' = book /\ updates' = updates /\ emitted' = emitted
    BY <1>2 DEF O!NextCheckpoint
  <2>2. \A r \in updates \cup emitted : RowOK(r, book, time + 1)
    BY DEF OrdersOK, RowOK
  <2> QED BY <2>1, <2>2 DEF OrdersOK, AnswerOK
<1>3. CASE O!Store
  <2>1. PICK r \in emitted : updates' = updates \cup {r} /\ emitted' = emitted \ {r}
    BY <1>3 DEF O!Store
  <2>2. (updates \cup emitted)' \subseteq updates \cup emitted
    BY <2>1
  <2>3. listed' = O!None /\ book' = book /\ time' = time
    BY <1>3 DEF O!Store
  <2> QED BY <2>2, <2>3 DEF OrdersOK, AnswerOK
<1>4. CASE O!Ask
  <2>1. book' = book /\ time' = time /\ emitted' = emitted /\ updates' = updates
    BY <1>4 DEF O!Ask
  <2>2. PICK q \in OrderQueries : \E page \in O!get_orders_status(q) :
                                     listed' = [query |-> q, orders |-> page]
    BY <1>4 DEF O!Ask
  <2>3. O!get_orders_status(q)' = O!get_orders_status(q)
    BY <2>1 DEF O!get_orders_status, O!Picks, O!Matching, O!Mine, O!order_status,
                O!latest_events, O!placed_events, O!InWindow, O!Of
  <2>4. AnswerOK'
    BY <2>2, <2>3 DEF AnswerOK
  <2> QED BY <2>1, <2>4 DEF OrdersOK
<1> QED BY <1>1, <1>2, <1>3, <1>4 DEF O!Next

(* An order that is listed is one of the manager's, read from one of its    *)
(* last rows in the window.                                                 *)
ListedFrom(a, q, r) ==
    /\ listed.query = q /\ r.columns.order_id \in Orders
    /\ Owner[r.columns.order_id] = q.manager
    /\ r \in O!latest_events(r.columns.order_id, q)
    /\ a = O!order_status(r, q)

(* What is listed comes from such a row.                                    *)
LEMMA ListedHasRow ==
    ASSUME OrdersOK, NEW a \in O!Answered
    PROVE  \E q \in OrderQueries : \E r \in updates : ListedFrom(a, q, r)
<1>1. listed # O!None /\ a \in listed.orders
  BY DEF O!Answered
<1>0. PICK q \in OrderQueries : \E page \in O!get_orders_status(q) :
                                   listed = [query |-> q, orders |-> page]
  BY <1>1 DEF OrdersOK, AnswerOK
<1>2. PICK page \in O!get_orders_status(q) : listed = [query |-> q, orders |-> page]
  BY <1>0
<1>3. PICK pick \in O!Picks(q) : page \in SUBSET O!Matching(q, pick)
  BY DEF O!get_orders_status
<1>4. a \in O!Matching(q, pick)
  BY <1>1, <1>2, <1>3
<1>5. PICK o \in O!Mine(q) : a = O!order_status(pick[o], q)
  BY <1>4 DEF O!Matching
<1>6. pick[o] \in O!latest_events(o, q)
  BY <1>3, <1>5 DEF O!Picks
<1>7. pick[o] \in updates /\ pick[o].columns.order_id = o
  BY <1>6 DEF O!latest_events, O!Of, O!InWindow
<1>8. o \in Orders /\ Owner[o] = q.manager
  BY <1>5 DEF O!Mine
<1>9. ListedFrom(a, q, pick[o])
  BY <1>2, <1>5, <1>6, <1>7, <1>8 DEF ListedFrom
<1> QED BY <1>7, <1>9

(* What the fields of an answer are.                                        *)
LEMMA StatusFields ==
    ASSUME OrdersOK, NEW q, NEW r \in updates
    PROVE  LET a == O!order_status(r, q)
               c == r.columns
           IN  /\ a.order_id = c.order_id /\ a.original_quantity = c.original_quantity
               /\ a.filled_quantity = c.filled_quantity
               /\ c.status = "Canceled" => a.current_status = "canceled"
               /\ c.status = "Expired" => a.current_status = "expired"
               /\ c.status \in {"Placed", "Modified"} =>
                     /\ a.current_status \in {"placed", "partially_filled", "filled"}
                     /\ O!Fits(c.order_id) => a.current_status # "filled"
<1> DEFINE a == O!order_status(r, q)
           c == r.columns
<1>1. /\ a.order_id = c.order_id /\ a.original_quantity = c.original_quantity
      /\ a.filled_quantity = c.filled_quantity /\ a.current_status = O!current_status(c)
  BY DEF O!order_status
<1>2. RowOK(r, book, time)
  BY DEF OrdersOK
<1>3. c.filled_quantity \in Int /\ c.original_quantity \in Int
  BY <1>2 DEF RowOK, ColumnsOK
<1>4. CASE c.status \in {"Placed", "Modified"}
  <2>1. CASE c.filled_quantity < c.original_quantity
    <3>1. ~(c.filled_quantity >= c.original_quantity)
      BY <1>3, <2>1
    <3>2. O!current_status(c) = IF c.filled_quantity > 0 THEN "partially_filled" ELSE "placed"
      BY <1>4, <2>1, <3>1 DEF O!current_status
    <3> QED BY <1>1, <1>4, <3>2
  <2>2. CASE ~(c.filled_quantity < c.original_quantity)
    <3>1. c.filled_quantity >= c.original_quantity
      BY <1>3, <2>2
    <3>2. O!current_status(c) = "filled"
      BY <1>4, <2>2, <3>1 DEF O!current_status
    <3>3. ~O!Fits(c.order_id)
      BY <1>2, <1>3, <1>4, <3>1 DEF RowOK, ColumnsOK
    <3> QED BY <1>1, <1>4, <3>2, <3>3
  <2> QED BY <2>1, <2>2
<1>5. CASE c.status = "Canceled"
  <2>1. O!current_status(c) = "canceled"
    BY <1>5 DEF O!current_status
  <2> QED BY <1>1, <1>5, <2>1
<1>6. CASE c.status = "Expired"
  <2>1. O!current_status(c) = "expired"
    BY <1>6 DEF O!current_status
  <2> QED BY <1>1, <1>6, <2>1
<1> QED BY <1>1, <1>2, <1>4, <1>5, <1>6 DEF RowOK, ColumnsOK

(* What is listed is as the order is.                                       *)
LEMMA ListedAsItIs == OrdersOK => OrdersLookAsTheyAre
<1> SUFFICES ASSUME OrdersOK PROVE OrdersLookAsTheyAre
  OBVIOUS
<1> DEFINE Ends == {"Canceled", "Expired"}
<1>1. ASSUME NEW a \in O!Answered
      PROVE  LET o == a.order_id
                 q == listed.query
                 all == O!Of(o, O!InWindow(q))
             IN  /\ O!Fits(o) => a.filled_quantity \in 0..a.original_quantity
                 /\ O!Fits(o) /\ book[o].state = "open" => a.current_status \in {"placed", "partially_filled"}
                 /\ (/\ \E e \in all : e.columns.status \in Ends
                     /\ \A r, s \in all : r.ts = s.ts => r = s) => a.current_status = book[o].state
                 /\ a.filled_quantity <= book[o].filled
                 /\ a.current_status \in {"canceled", "expired"} =>
                       a.filled_quantity = O!AsI64(book[o].filled)
                 /\ Owner[o] = q.manager
                 /\ \A r \in O!InWindow(q) :
                       (r.columns.order_id = o /\ r.columns.status = "Placed") => a.placed_at = r.ts
  <2>1. PICK q \in OrderQueries, r \in updates : ListedFrom(a, q, r)
    BY ListedHasRow
  <2> DEFINE c == r.columns
             o == c.order_id
             all == O!Of(o, O!InWindow(q))
  <2>2. a = O!order_status(r, q) /\ listed.query = q /\ Owner[o] = q.manager
    BY <2>1 DEF ListedFrom
  <2>3. /\ a.order_id = o /\ a.original_quantity = c.original_quantity
        /\ a.filled_quantity = c.filled_quantity
        /\ c.status = "Canceled" => a.current_status = "canceled"
        /\ c.status = "Expired" => a.current_status = "expired"
        /\ c.status \in {"Placed", "Modified"} =>
              /\ a.current_status \in {"placed", "partially_filled", "filled"}
              /\ O!Fits(o) => a.current_status # "filled"
    BY <2>2, StatusFields
  <2>4. ColumnsOK(c, book[o]) /\ o \in Orders
    BY DEF OrdersOK, RowOK
  <2>5. /\ O!Fits(o) => c.filled_quantity \in 0..c.original_quantity
        /\ c.filled_quantity <= book[o].filled
        /\ c.status \in Ends => c.filled_quantity = O!AsI64(book[o].filled)
        /\ c.status \in {"Placed", "Modified", "Canceled", "Expired"}
        /\ c.status = "Canceled" => book[o].state = "canceled"
        /\ c.status = "Expired" => book[o].state = "expired"
    BY <2>4 DEF ColumnsOK
  <2>6. r \in all /\ \A s \in all : s.ts <= r.ts
    BY <2>1 DEF ListedFrom, O!latest_events
  <2>7. \A s \in all : s \in updates /\ s.columns.order_id = o /\ s.ts \in Int
    BY DEF O!Of, O!InWindow, OrdersOK, RowOK
  <2>8. ASSUME NEW e \in all, e.columns.status \in Ends, \A s, t \in all : s.ts = t.ts => s = t
        PROVE  a.current_status = book[o].state
    <3>1. PairOK(e, r) /\ e.columns.order_id = o
      BY <2>7 DEF OrdersOK
    <3>2. r.ts <= e.ts /\ e.ts <= r.ts
      BY <2>6, <2>8, <3>1 DEF PairOK
    <3>3. e = r
      BY <2>6, <2>7, <2>8, <3>2
    <3> QED BY <2>3, <2>5, <2>8, <3>3
  <2>9. ASSUME NEW s \in O!InWindow(q), s.columns.order_id = o, s.columns.status = "Placed"
        PROVE  a.placed_at = s.ts
    <3> DEFINE placed == O!placed_events(o, q)
    <3>1. placed = {s.ts}
      <4>1. s \in all
        BY <2>9 DEF O!Of
      <4>2. \A t \in all : t.columns.status = "Placed" => t.ts = s.ts
        <5> TAKE t \in all
        <5>1. PairOK(t, s)
          BY <2>7, <4>1 DEF OrdersOK
        <5> QED BY <2>7, <2>9, <5>1 DEF PairOK
      <4>3. placed = {t.ts : t \in {u \in all : u.columns.status = "Placed"}}
        BY DEF O!placed_events
      <4> HIDE DEF placed, all
      <4> QED BY <2>9, <4>1, <4>2, <4>3
    <3>2. a.placed_at = IF placed = {} THEN r.ts
                        ELSE CHOOSE t \in placed : \A u \in placed : t <= u
      BY <2>2 DEF O!order_status
    <3>3. s.ts \in Int
      BY <2>7, <2>9 DEF O!Of
    <3> HIDE DEF placed
    <3>4. placed # {} /\ \A t \in placed : t = s.ts
      BY <3>1
    <3>5. s.ts \in placed /\ \A u \in placed : s.ts <= u
      BY <3>1, <3>3
    <3> QED BY <3>2, <3>4, <3>5
  <2> HIDE DEF c, o, all
  <2>10. a.order_id = o /\ listed.query = q
    BY <2>2, <2>3
  <2> QED BY <2>2, <2>3, <2>5, <2>8, <2>9, <2>10 DEF all
<1>2. O!TypeOK
  BY <1>1 DEF O!TypeOK, OrdersOK, BookOK, RowOK
<1>3. O!OpenOrdersLookOpen
  BY <1>1 DEF O!OpenOrdersLookOpen
<1>4. O!EndedOrdersLookEnded
  BY <1>1 DEF O!EndedOrdersLookEnded
<1>5. O!FilledNeverOverstated
  BY <1>1 DEF O!FilledNeverOverstated
<1>6. O!PlacedAtIsPlacement
  BY <1>1 DEF O!PlacedAtIsPlacement
<1> QED BY <1>2, <1>3, <1>4, <1>5, <1>6 DEF OrdersLookAsTheyAre

(* OrdersLookAsTheyAre, for orders of any quantities, partly executed       *)
(* before they rest or not, whatever their events' rows wait for and        *)
(* whatever is asked: an open order of less than 2^63 never looks over, an  *)
(* ended one not open, no fill is invented, and nobody is shown another's   *)
(* orders (get_orders_status).                                              *)
THEOREM OrdersAlwaysLookAsTheyAre == ServerSpec => []OrdersLookAsTheyAre
<1>1. ServerInit => OrdersOK
  <2> SUFFICES ASSUME O!Init PROVE OrdersOK
    BY DEF ServerInit
  <2>1. \A o \in Orders : BookOK(o, book[o])
    BY ServerAssumption, WordAssumption DEF O!Init, BookOK, O!States, O!OrdersAssumption
  <2> QED BY <2>1 DEF O!Init, OrdersOK, AnswerOK
<1>2. OrdersOK /\ UNCHANGED ordersVars => OrdersOK'
  <2> SUFFICES ASSUME OrdersOK, UNCHANGED ordersVars PROVE OrdersOK'
    OBVIOUS
  <2>1. UNCHANGED <<book, time, emitted, updates, listed>>
    BY DEF ordersVars
  <2>2. \A q : O!get_orders_status(q)' = O!get_orders_status(q)
    BY <2>1 DEF O!get_orders_status, O!Picks, O!Matching, O!Mine, O!order_status,
                O!latest_events, O!placed_events, O!InWindow, O!Of
  <2>3. AnswerOK'
    BY <2>1, <2>2 DEF OrdersOK, AnswerOK
  <2> QED BY <2>1, <2>3 DEF OrdersOK
<1>3. OrdersOK /\ [ServerNext]_serverVars => OrdersOK'
  <2>1. [ServerNext]_serverVars => O!Next \/ UNCHANGED ordersVars
    BY DEF ServerNext, serverVars, ordersVars
  <2> QED BY <1>2, <2>1, OrdersNext
<1> QED BY <1>1, <1>3, ListedAsItIs, PTL DEF ServerSpec

-----------------------------------------------------------------------------
(* The listings.                                                            *)

Sound(e) ==
    e.query.table = e.name /\ e.params = e.query.filters /\ e.query.limited \in BOOLEAN

(* Every endpoint asks the table it is named after, and hands the query its *)
(* parameters in the order of the columns they filter.                      *)
LEMMA EndpointFacts == \A e \in L!AllEndpoints : Sound(e)
<1> USE DEF Sound, L!Endpoint, L!Query
<1>1. Sound(L!order_updates)
  BY DEF L!order_updates, L!get_order_updates
<1>2. Sound(L!trades)
  BY DEF L!trades, L!get_orders
<1>3. Sound(L!margin_manager_created)
  BY DEF L!margin_manager_created, L!get_margin_manager_created
<1>4. Sound(L!loan_borrowed)
  BY DEF L!loan_borrowed, L!get_loan_borrowed
<1>5. Sound(L!loan_repaid)
  BY DEF L!loan_repaid, L!get_loan_repaid
<1>6. Sound(L!liquidation)
  BY DEF L!liquidation, L!get_liquidation
<1>7. Sound(L!asset_supplied)
  BY DEF L!asset_supplied, L!get_asset_supplied
<1>8. Sound(L!asset_withdrawn)
  BY DEF L!asset_withdrawn, L!get_asset_withdrawn
<1>9. Sound(L!margin_pool_created)
  BY DEF L!margin_pool_created, L!get_margin_pool_created
<1>10. Sound(L!deepbook_pool_updated)
  BY DEF L!deepbook_pool_updated, L!get_deepbook_pool_updated
<1>11. Sound(L!interest_params_updated)
  BY DEF L!interest_params_updated, L!get_interest_params_updated
<1>12. Sound(L!margin_pool_config_updated)
  BY DEF L!margin_pool_config_updated, L!get_margin_pool_config_updated
<1>13. Sound(L!maintainer_cap_updated)
  BY DEF L!maintainer_cap_updated, L!get_maintainer_cap_updated
<1>14. Sound(L!maintainer_fees_withdrawn)
  BY DEF L!maintainer_fees_withdrawn, L!get_maintainer_fees_withdrawn
<1>15. Sound(L!protocol_fees_withdrawn)
  BY DEF L!protocol_fees_withdrawn, L!get_protocol_fees_withdrawn
<1>16. Sound(L!supplier_cap_minted)
  BY DEF L!supplier_cap_minted, L!get_supplier_cap_minted
<1>17. Sound(L!supply_referral_minted)
  BY DEF L!supply_referral_minted, L!get_supply_referral_minted
<1>18. Sound(L!pause_cap_updated)
  BY DEF L!pause_cap_updated, L!get_pause_cap_updated
<1>19. Sound(L!protocol_fees_increased)
  BY DEF L!protocol_fees_increased, L!get_protocol_fees_increased
<1>20. Sound(L!referral_fees_claimed)
  BY DEF L!referral_fees_claimed, L!get_referral_fees_claimed
<1>21. Sound(L!referral_fee_events)
  BY DEF L!referral_fee_events, L!get_referral_fee_events
<1>22. Sound(L!deepbook_pool_registered)
  BY DEF L!deepbook_pool_registered, L!get_deepbook_pool_registered
<1>23. Sound(L!deepbook_pool_updated_registry)
  BY DEF L!deepbook_pool_updated_registry, L!get_deepbook_pool_updated_registry
<1>24. Sound(L!deepbook_pool_config_updated)
  BY DEF L!deepbook_pool_config_updated, L!get_deepbook_pool_config_updated
<1>25. Sound(L!collateral_events)
  BY DEF L!collateral_events, L!get_collateral_events
<1>26. Sound(L!pool_created)
  BY DEF L!pool_created, L!get_pool_created
<1> HIDE DEF Sound
<1> QED BY <1>1, <1>2, <1>3, <1>4, <1>5, <1>6, <1>7, <1>8, <1>9, <1>10, <1>11, <1>12, <1>13,
           <1>14, <1>15, <1>16, <1>17, <1>18, <1>19, <1>20, <1>21, <1>22, <1>23, <1>24, <1>25, <1>26 DEF L!AllEndpoints

(* What is assumed of the listings.                                         *)
LEMMA ListingsAssumed ==
    /\ Endpoints \subseteq L!AllEndpoints
    /\ Second \in Nat \ {0} /\ Limits \subseteq Nat \ {0} /\ NULL \notin Nat
    /\ \A r \in Rows : r.ts \in Nat
BY ServerAssumption DEF L!ListingsAssumption

(* The cardinality that Listings speaks of.                                 *)
LEMMA ListingsCardinality == \A S : L!Cardinality(S) = Cardinality(S)
BY DEF L!Cardinality, Cardinality

(* RoundUp gives the first second that is not before t.                     *)
LEMMA RoundUpFacts ==
    ASSUME NEW t \in Nat
    PROVE  /\ L!RoundUp(t) \in Nat /\ t <= L!RoundUp(t) * Second
           /\ \A n \in Nat : t <= n * Second => L!RoundUp(t) <= n
<1> DEFINE q == L!RoundUp(t)
<1>1. Second \in Nat \ {0}
  BY ListingsAssumed
<1>2. /\ q \in Nat /\ q * Second <= t + Second - 1
      /\ t + Second - 1 < q * Second + Second
  BY <1>1 DEF L!RoundUp
<1> HIDE DEF q
<1>3. q * Second \in Nat
  BY <1>1, <1>2
<1>4. t <= q * Second
  BY <1>1, <1>2, <1>3
<1>5. ASSUME NEW n \in Nat, t <= n * Second PROVE q <= n
  <2>1. SUFFICES ASSUME n + 1 <= q PROVE FALSE
    BY <1>2
  <2>2. (n + 1) * Second <= q * Second
    BY <1>1, <1>2, <2>1
  <2>3. (n + 1) * Second = n * Second + Second /\ n * Second \in Nat
    BY <1>1
  <2> QED BY <1>1, <1>2, <1>3, <1>5, <2>2, <2>3
<1> QED BY <1>2, <1>4, <1>5 DEF q

(* The rows of the table are those of its endpoint, and not of the future.  *)
TableOK ==
    /\ endpoint \in L!AllEndpoints /\ clock \in Nat /\ IsFiniteSet(table)
    /\ \A r \in table : r.ts \in Nat /\ r.ts <= clock /\ r.table = endpoint.name

Walk(p, f, l, e, g, s) ==
    [pc |-> p, filters |-> f, limit |-> l, end_time |-> e, began |-> g, seen |-> s]

Ahead(r, e) == e = NULL \/ r.ts <= e * Second
Crowd(f, e) == {r \in table : L!Wanted(r, f) /\ L!RoundUp(r.ts) = e}

(* A client that walks has seen what is behind it: a row it has not seen is *)
(* within the window it asks for next.                                      *)
WalkedOK(w) ==
    /\ w = Walk(w.pc, w.filters, w.limit, w.end_time, w.began, w.seen)
    /\ w.pc \in {"ask", "complete", "stuck"}
    /\ w.limit \in Nat \ {0} /\ w.end_time \in Nat \cup {NULL}
    /\ w.began.rows \subseteq table /\ w.seen \subseteq table
    /\ \A r \in w.seen : L!Wanted(r, w.filters)
    /\ w.pc = "ask" =>
          \A r \in w.began.rows : L!Wanted(r, w.filters) => r \in w.seen \/ Ahead(r, w.end_time)
    /\ w.pc = "complete" => \A r \in w.began.rows : L!Wanted(r, w.filters) => r \in w.seen
    /\ w.pc = "stuck" => Cardinality(Crowd(w.filters, w.end_time)) >= w.limit

ListingsOK == TableOK /\ (walk = [pc |-> "idle"] \/ WalkedOK(walk))

(* What an endpoint finds is what the client wants, within the window.      *)
LEMMA FoundIsWanted ==
    ASSUME TableOK, NEW w
    PROVE  L!Found(endpoint.query, w) =
              {r \in table : L!InWindow(r, endpoint.query, w) /\ L!Wanted(r, w.filters)}
<1>1. Sound(endpoint)
  BY EndpointFacts DEF TableOK
<1>2. L!Contents(endpoint.query.table) = table
  BY <1>1 DEF L!Contents, Sound
<1>3. \A r : L!Wanted(r, w.filters) <=>
                \A i \in DOMAIN endpoint.query.filters :
                    L!Passes(r, endpoint.query, endpoint.query.filters[i], w.filters[i])
  BY <1>1 DEF L!Wanted, Sound
<1> QED BY <1>2, <1>3 DEF L!Found

(* Rows that are indexed take nothing from a walk.                          *)
LEMMA WalkStays ==
    ASSUME TableOK, TableOK', WalkedOK(walk), endpoint' = endpoint, walk' = walk,
           table \subseteq table'
    PROVE  WalkedOK(walk)'
<1>1. \A r, f : L!Wanted(r, f)' = L!Wanted(r, f)
  BY DEF L!Wanted, L!Passes
<1>2. Crowd(walk.filters, walk.end_time) \subseteq Crowd(walk.filters, walk.end_time)'
  BY <1>1 DEF Crowd, L!RoundUp
<1>3. IsFiniteSet(Crowd(walk.filters, walk.end_time)')
  BY FS_Subset DEF TableOK, Crowd
<1>4. /\ Cardinality(Crowd(walk.filters, walk.end_time)) \in Nat
      /\ Cardinality(Crowd(walk.filters, walk.end_time)') \in Nat
      /\ Cardinality(Crowd(walk.filters, walk.end_time))
            <= Cardinality(Crowd(walk.filters, walk.end_time)')
  BY <1>2, <1>3, FS_Subset, FS_CardinalityType
<1>5. walk.pc = "stuck" => Cardinality(Crowd(walk.filters, walk.end_time)') >= walk.limit
  BY <1>4 DEF WalkedOK
<1> QED BY <1>1, <1>5 DEF WalkedOK, Walk, Ahead

(* A set of times has a first.                                              *)
LEMMA LeastTime ==
    ASSUME NEW S \in SUBSET Nat, S # {}
    PROVE  \E m \in S : \A n \in S : m <= n
<1>1. IsWellFoundedOn(OpToRel(<, Nat), Nat)
  BY NatLessThanWellFounded, Zenon
<1>2. PICK m \in S : \A n \in S : ~ (<<n, m>> \in OpToRel(<, Nat))
  BY <1>1, WFMin, Zenon
<1>3. \A n \in S : n < m => <<n, m>> \in OpToRel(<, Nat)
  BY DEF OpToRel
<1>4. \A n \in S : ~ (n < m)
  BY <1>2, <1>3
<1>5. \A n \in S : m \in Nat /\ n \in Nat
  OBVIOUS
<1>6. \A n \in S : m <= n
  BY <1>4, <1>5
<1> QED BY <1>6

(* WalkedOK of the fields.                                                  *)
WalkParts(p, f, l, e, g, s) ==
    /\ p \in {"ask", "complete", "stuck"} /\ l \in Nat \ {0} /\ e \in Nat \cup {NULL}
    /\ g.rows \subseteq table /\ s \subseteq table
    /\ \A r \in s : L!Wanted(r, f)
    /\ p = "ask" => \A r \in g.rows : L!Wanted(r, f) => r \in s \/ Ahead(r, e)
    /\ p = "complete" => \A r \in g.rows : L!Wanted(r, f) => r \in s
    /\ p = "stuck" => Cardinality(Crowd(f, e)) >= l

(* The fields of a walk are what it was made of.                            *)
LEMMA WalkIs ==
    ASSUME NEW p, NEW f, NEW l, NEW e, NEW g, NEW s, WalkParts(p, f, l, e, g, s)
    PROVE  WalkedOK(Walk(p, f, l, e, g, s))
<1> DEFINE w == Walk(p, f, l, e, g, s)
<1>1. /\ w.pc = p /\ w.filters = f /\ w.limit = l /\ w.end_time = e
      /\ w.began = g /\ w.seen = s
  BY DEF Walk
<1> HIDE DEF w
<1>2. w = Walk(p, f, l, e, g, s)
  BY DEF w
<1> QED BY <1>1, <1>2 DEF WalkedOK, WalkParts

(* A page that is full has a first second, which is where the walk goes on. *)
NextSecond(page) == L!RoundUp(CHOOSE t \in {r.ts : r \in page} : \A r \in page : t <= r.ts)

(* The oldest row of a page, of which there is one.                         *)
LEMMA OldestOfPage ==
    ASSUME TableOK, NEW page \in SUBSET table, Cardinality(page) \in Nat \ {0}
    PROVE  \E first \in page : /\ \A r \in page : first.ts <= r.ts
                               /\ NextSecond(page) = L!RoundUp(first.ts)
<1> DEFINE times == {r.ts : r \in page}
<1>1. page # {}
  BY FS_EmptySet
<1>2. times # {} /\ times \subseteq Nat
  BY <1>1 DEF TableOK
<1>3. PICK m \in times : \A n \in times : m <= n
  BY <1>2, LeastTime
<1>4. \E t \in times : \A r \in page : t <= r.ts
  BY <1>3
<1>5. PICK t \in times : /\ \A r \in page : t <= r.ts
                         /\ t = CHOOSE u \in times : \A r \in page : u <= r.ts
  BY <1>4
<1>6. NextSecond(page) = L!RoundUp(t)
  BY <1>5 DEF NextSecond
<1>7. PICK first \in page : first.ts = t
  OBVIOUS
<1> HIDE DEF times
<1> QED BY <1>5, <1>6, <1>7

(* One more page.                                                           *)
LEMMA WalkAsks ==
    ASSUME TableOK, WalkedOK(walk), L!Ask
    PROVE  /\ UNCHANGED <<endpoint, table, clock>>
           /\ WalkedOK(walk')
<1>0. UNCHANGED <<endpoint, table, clock>> /\ walk.pc = "ask"
  BY DEF L!Ask
<1> DEFINE found == L!Found(endpoint.query, walk)
           full(page) == endpoint.query.limited /\ L!Cardinality(page) = walk.limit
<1>1. PICK page \in SUBSET found :
         /\ L!IsPage(page, found, endpoint.query, walk.limit)
         /\ walk' = [walk EXCEPT
                       !.seen = @ \cup page,
                       !.end_time = IF full(page) THEN NextSecond(page) ELSE @,
                       !.pc = IF ~full(page) THEN "complete"
                              ELSE IF @ = "ask" /\ walk.end_time = NextSecond(page)
                                   THEN "stuck" ELSE "ask"]
  BY DEF L!Ask, NextSecond
<1>2. PICK f, l, e, g, s : walk = Walk("ask", f, l, e, g, s)
  BY <1>0 DEF WalkedOK
<1>3. /\ walk.filters = f /\ walk.limit = l /\ walk.end_time = e
      /\ walk.began = g /\ walk.seen = s
  BY <1>2 DEF Walk
<1>4. PICK e2, p2 : /\ e2 = IF full(page) THEN NextSecond(page) ELSE e
                    /\ p2 = IF ~full(page) THEN "complete"
                            ELSE IF e = NextSecond(page) THEN "stuck" ELSE "ask"
  OBVIOUS
<1>5. walk' = Walk(p2, f, l, e2, g, s \cup page)
  <2>1. walk' = [[[walk EXCEPT !.seen = s \cup page] EXCEPT !.end_time = e2] EXCEPT !.pc = p2]
    BY <1>0, <1>1, <1>3, <1>4
  <2>2. [walk EXCEPT !.seen = s \cup page] = Walk("ask", f, l, e, g, s \cup page)
    BY <1>2, <1>3 DEF Walk
  <2>3. [Walk("ask", f, l, e, g, s \cup page) EXCEPT !.end_time = e2]
           = Walk("ask", f, l, e2, g, s \cup page)
    BY DEF Walk
  <2>4. [Walk("ask", f, l, e2, g, s \cup page) EXCEPT !.pc = p2]
           = Walk(p2, f, l, e2, g, s \cup page)
    BY DEF Walk
  <2> QED BY <2>1, <2>2, <2>3, <2>4
<1>6. found = {r \in table : L!InWindow(r, endpoint.query, walk) /\ L!Wanted(r, f)}
  BY <1>3, FoundIsWanted
<1> HIDE DEF found
<1>7. /\ l \in Nat \ {0} /\ e \in Nat \cup {NULL} /\ g.rows \subseteq table /\ s \subseteq table
      /\ \A r \in s : L!Wanted(r, f)
      /\ \A r \in g.rows : L!Wanted(r, f) => r \in s \/ Ahead(r, e)
  BY <1>0, <1>3 DEF WalkedOK
<1>8. \A r \in table : r.ts \in Nat /\ r.ts <= clock
  BY DEF TableOK
<1>9. \A r \in table : Ahead(r, e) => L!InWindow(r, endpoint.query, walk)
  BY <1>3, <1>7, <1>8, ListingsAssumed DEF L!InWindow, L!end_time, Ahead
<1>10. \A r \in g.rows : L!Wanted(r, f) => r \in s \/ r \in found
  BY <1>6, <1>7, <1>9
<1>11. page \subseteq table /\ \A r \in s \cup page : L!Wanted(r, f)
  BY <1>6, <1>7
<1>12. endpoint.query.limited \in BOOLEAN
  BY EndpointFacts DEF TableOK, Sound
<1>13. CASE ~full(page)
  <2>1. page = found
    BY <1>1, <1>3, <1>12, <1>13 DEF L!IsPage
  <2>2. p2 = "complete" /\ e2 = e
    BY <1>4, <1>13
  <2>3. \A r \in g.rows : L!Wanted(r, f) => r \in s \cup page
    BY <1>10, <2>1
  <2>7. WalkParts(p2, f, l, e2, g, s \cup page)
    BY <1>7, <1>11, <2>2, <2>3 DEF WalkParts
  <2> QED BY <1>0, <1>5, <2>7, WalkIs
<1>14. CASE full(page)
  <2>1. Cardinality(page) = l /\ page \in SUBSET table
    BY <1>3, <1>11, <1>14, ListingsCardinality
  <2>2. PICK first \in page : /\ \A r \in page : first.ts <= r.ts
                              /\ NextSecond(page) = L!RoundUp(first.ts)
    BY <1>7, <2>1, OldestOfPage
  <2>3. first.ts \in Nat /\ e2 = L!RoundUp(first.ts)
    BY <1>4, <1>8, <1>11, <1>14, <2>2
  <2>4. e2 \in Nat /\ first.ts <= e2 * Second
    BY <2>3, RoundUpFacts
  <2>5. e2 * Second \in Nat
    BY <2>4, ListingsAssumed
  <2>6. \A r \in found \ page : r.ts <= first.ts
    BY <1>1, <1>12, <1>14 DEF L!IsPage
  <2>7. \A r \in g.rows : L!Wanted(r, f) => r \in s \cup page \/ Ahead(r, e2)
    BY <1>6, <1>8, <1>10, <2>3, <2>4, <2>5, <2>6 DEF Ahead
  <2>8. CASE e # e2
    <3>1. p2 = "ask"
      BY <1>4, <1>14, <2>8
    <3>7. WalkParts(p2, f, l, e2, g, s \cup page)
      BY <1>7, <1>11, <2>4, <2>7, <3>1 DEF WalkParts
    <3> QED BY <1>0, <1>5, <3>7, WalkIs
  <2>9. CASE e = e2
    <3>1. p2 = "stuck"
      BY <1>4, <1>14, <2>9
    <3>2. ASSUME NEW r \in page PROVE L!RoundUp(r.ts) = e2
      <4>1. r.ts \in Nat /\ first.ts <= r.ts
        BY <1>8, <1>11, <2>2
      <4>2. r.ts <= e2 * Second
        <5>1. L!InWindow(r, endpoint.query, walk) /\ walk.end_time = e2 /\ e2 # NULL
          BY <1>3, <1>6, <2>4, <2>9, ListingsAssumed
        <5> QED BY <5>1 DEF L!InWindow, L!end_time
      <4>3. L!RoundUp(r.ts) \in Nat /\ L!RoundUp(r.ts) <= e2 /\ r.ts <= L!RoundUp(r.ts) * Second
        BY <2>4, <4>1, <4>2, RoundUpFacts
      <4>4. L!RoundUp(r.ts) * Second \in Nat
        BY <4>3, ListingsAssumed
      <4>5. first.ts <= L!RoundUp(r.ts) * Second
        BY <2>3, <4>1, <4>3, <4>4
      <4>6. e2 <= L!RoundUp(r.ts)
        BY <2>3, <4>3, <4>5, RoundUpFacts
      <4> QED BY <2>4, <4>3, <4>6
    <3>3. page \subseteq Crowd(f, e2)
      BY <1>11, <3>2 DEF Crowd
    <3>4. IsFiniteSet(Crowd(f, e2))
      BY FS_Subset DEF TableOK, Crowd
    <3>5. Cardinality(Crowd(f, e2)) \in Nat /\ Cardinality(page) <= Cardinality(Crowd(f, e2))
      BY <3>3, <3>4, FS_Subset, FS_CardinalityType
    <3>6. Cardinality(Crowd(f, e2)) >= l
      BY <1>7, <2>1, <3>5
    <3>7. WalkParts(p2, f, l, e2, g, s \cup page)
      BY <1>7, <1>11, <2>4, <3>1, <3>6 DEF WalkParts
    <3> QED BY <1>0, <1>5, <3>7, WalkIs
  <2> QED BY <2>8, <2>9
<1> QED BY <1>0, <1>13, <1>14

(* WalkedOK looks at endpoint and table.                                    *)
LEMMA WalkAt ==
    ASSUME UNCHANGED <<endpoint, table>>, WalkedOK(walk')
    PROVE  WalkedOK(walk)'
<1>1. \A r, f : L!Wanted(r, f)' = L!Wanted(r, f)
  BY DEF L!Wanted, L!Passes
<1>2. \A f, e : {r \in table' : L!Wanted(r, f)' /\ L!RoundUp(r.ts) = e} = Crowd(f, e)
  BY <1>1 DEF Crowd
<1>3. Crowd(walk.filters, walk.end_time)' = Crowd(walk'.filters, walk'.end_time)
  BY <1>2 DEF Crowd, L!RoundUp
<1> QED BY <1>1, <1>3 DEF WalkedOK, Walk, Ahead

(* Every step of the indexer, the clock and the client.                     *)
LEMMA ListingsNext == ASSUME ListingsOK, L!Next PROVE ListingsOK'
<1>1. CASE L!IndexRow
  <2>1. PICK x \in Rows : x.ts <= clock /\ table' = table \cup {L!Tagged(endpoint.name, x)}
    BY <1>1 DEF L!IndexRow
  <2>2. endpoint' = endpoint /\ clock' = clock /\ walk' = walk
    BY <1>1 DEF L!IndexRow
  <2> DEFINE new == L!Tagged(endpoint.name, x)
  <2>3. new.ts = x.ts /\ new.table = endpoint.name
    BY DEF L!Tagged
  <2> HIDE DEF new
  <2>4. IsFiniteSet(table')
    BY <2>1, FS_AddElement DEF ListingsOK, TableOK, new
  <2>5. x.ts \in Nat
    BY ListingsAssumed
  <2>6. TableOK'
    BY <2>1, <2>2, <2>3, <2>4, <2>5 DEF ListingsOK, TableOK, new
  <2>7. table \subseteq table'
    BY <2>1
  <2> QED BY <2>2, <2>6, <2>7, WalkStays DEF ListingsOK
<1>2. CASE L!Tick
  <2>1. PICK x \in Rows : x.ts > clock /\ clock' = x.ts
    BY <1>2 DEF L!Tick
  <2>2. endpoint' = endpoint /\ table' = table /\ walk' = walk
    BY <1>2 DEF L!Tick
  <2>3. x.ts \in Nat
    BY ListingsAssumed
  <2>4. TableOK'
    BY <2>1, <2>2, <2>3 DEF ListingsOK, TableOK
  <2> QED BY <2>2, <2>4, WalkStays DEF ListingsOK
<1>3. CASE L!Begin
  <2>1. PICK f \in L!Filters(endpoint), l \in Limits :
           walk' = Walk("ask", f, l, NULL, [rows |-> table, now |-> clock], {})
    BY <1>3 DEF L!Begin, Walk
  <2>2. UNCHANGED <<endpoint, table, clock>>
    BY <1>3 DEF L!Begin
  <2>3. WalkParts("ask", f, l, NULL, [rows |-> table, now |-> clock], {})
    BY ListingsAssumed DEF WalkParts, Ahead
  <2>4. WalkedOK(walk')
    BY <2>1, <2>3, WalkIs
  <2> QED BY <2>2, <2>4, WalkAt DEF ListingsOK, TableOK
<1>4. CASE L!Ask
  <2>1. WalkedOK(walk)
    BY <1>4 DEF ListingsOK, L!Ask
  <2>2. UNCHANGED <<endpoint, table, clock>> /\ WalkedOK(walk')
    BY <1>4, <2>1, WalkAsks DEF ListingsOK
  <2> QED BY <2>2, WalkAt DEF ListingsOK, TableOK
<1> QED BY <1>1, <1>2, <1>3, <1>4 DEF L!Next

(* PagesServeWhatIsAsked, for every listing, any rows, filters, limits and  *)
(* clock: the rows served are of the endpoint's table and match the columns *)
(* its parameters are named after; a walk back in time that ends has seen   *)
(* every row there was when it began, and gets stuck only on a second that  *)
(* holds a page of rows (reader.rs, end_time of ParameterUtil).             *)
THEOREM PagesAlwaysServeWhatIsAsked == ServerSpec => []PagesServeWhatIsAsked
<1>1. ServerInit => ListingsOK
  BY FS_EmptySet, ListingsAssumed DEF ServerInit, L!Init, ListingsOK, TableOK
<1>2. ListingsOK /\ UNCHANGED listingsVars => ListingsOK'
  <2> SUFFICES ASSUME ListingsOK, UNCHANGED listingsVars PROVE ListingsOK'
    OBVIOUS
  <2>1. UNCHANGED <<endpoint, table, clock, walk>>
    BY DEF listingsVars
  <2>2. TableOK'
    BY <2>1 DEF ListingsOK, TableOK
  <2> QED BY <2>1, <2>2, WalkStays DEF ListingsOK
<1>3. ListingsOK /\ [ServerNext]_serverVars => ListingsOK'
  <2>1. [ServerNext]_serverVars => L!Next \/ UNCHANGED listingsVars
    BY DEF ServerNext, serverVars, listingsVars
  <2> QED BY <1>2, <2>1, ListingsNext
<1>4. ListingsOK => PagesServeWhatIsAsked
  <2> SUFFICES ASSUME ListingsOK PROVE PagesServeWhatIsAsked
    OBVIOUS
  <2>1. walk.pc # "idle" => WalkedOK(walk)
    BY DEF ListingsOK
  <2>2. L!ServesWhatIsAsked
    BY <2>1 DEF L!ServesWhatIsAsked, WalkedOK, ListingsOK, TableOK
  <2>3. L!WalkSeesAll
    BY <2>1 DEF L!WalkSeesAll, WalkedOK
  <2>4. L!StuckMeansCrowded
    BY <2>1, ListingsCardinality DEF L!StuckMeansCrowded, WalkedOK, Crowd
  <2> QED BY <2>2, <2>3, <2>4 DEF PagesServeWhatIsAsked
<1> QED BY <1>1, <1>3, <1>4, PTL DEF ServerSpec

-----------------------------------------------------------------------------
(* The poller of the margin pools.                                          *)

Past(i) == {States[v] : v \in 1..chain[i]}

(* The gauges of a pool are those of one of its past states.                *)
GaugesOf(g, past) ==
    \/ g.state = Unset
    \/ /\ g.state \in past
       /\ g.state.total_borrow > 0 =>
             g.solvency = <<g.state.vault_balance, g.state.total_borrow>>

(* The snapshots of a pool tell of its past states.                         *)
TellOf(saved, past) == \A x \in saved : \E s \in past : Tells(x, s)

PollerOK ==
    /\ TypeOK /\ chain \in [Ids -> 1..Len(States)]
    /\ gauges = [i \in Ids |-> gauges[i]] /\ snapshots = [i \in Ids |-> snapshots[i]]
    /\ \A i \in Ids : TellOf(snapshots[i], Past(i)) /\ GaugesOf(gauges[i], Past(i))

(* The results of the view calls, taken out by index, are those of the      *)
(* functions they are taken for.                                            *)
LEMMA ResultsInOrder == \A s \in View : query_pool_state(s) = s
<1> TAKE s \in View
<1> DEFINE results == [k \in DOMAIN ViewCalls |-> s[ViewCalls[k]]]
<1>1. DOMAIN ViewCalls = 1..6
  BY DEF ViewCalls
<1>2. \A k \in 1..6 : results[k] = s[ViewCalls[k]]
  BY <1>1
<1>3. /\ ViewCalls[1] = "total_supply" /\ ViewCalls[2] = "total_borrow"
      /\ ViewCalls[3] = "vault_balance" /\ ViewCalls[4] = "supply_cap"
      /\ ViewCalls[5] = "interest_rate" /\ ViewCalls[6] = "get_available_withdrawal"
  BY DEF ViewCalls
<1>4. query_pool_state(s) =
        [total_supply |-> results[1], total_borrow |-> results[2],
         vault_balance |-> results[3], supply_cap |-> results[4],
         interest_rate |-> results[5], get_available_withdrawal |-> results[6]]
  BY DEF query_pool_state
<1> HIDE DEF results
<1>5. /\ results[1] = s.total_supply /\ results[2] = s.total_borrow
      /\ results[3] = s.vault_balance /\ results[4] = s.supply_cap
      /\ results[5] = s.interest_rate /\ results[6] = s.get_available_withdrawal
  BY <1>2, <1>3
<1>6. s = [total_supply |-> s.total_supply, total_borrow |-> s.total_borrow,
           vault_balance |-> s.vault_balance, supply_cap |-> s.supply_cap,
           interest_rate |-> s.interest_rate,
           get_available_withdrawal |-> s.get_available_withdrawal]
  BY DEF View
<1> QED BY <1>4, <1>5, <1>6

(* What is saved of a state tells of it.                                    *)
LEMMA SavedTells == \A s \in View : Tells(AsSaved(s), s)
<1> TAKE s \in View
<1>1. /\ DOMAIN AsSaved(s) = DOMAIN s
      /\ \A figure \in DOMAIN s : AsSaved(s)[figure] = AsI64(s[figure])
  BY DEF AsSaved
<1> QED BY <1>1 DEF Tells, AsI64

(* A pool that answers, whether its snapshot is saved or not.               *)
LEMMA PollerAnswers ==
    ASSUME PollerOK, NEW p \in Pools, PoolAnswers(p) \/ SnapshotFails(p)
    PROVE  PollerOK'
<1> DEFINE i == p.pool_id
           s == States[chain[i]]
<1>1. i \in Ids
  BY DEF Ids
<1>2. chain[i] \in 1..Len(States) /\ chain[i] \in 1..chain[i] /\ s \in View
  BY <1>1, PollerAssumption DEF PollerOK
<1>3. query_pool_state(s) = s
  BY <1>2, ResultsInOrder
<1>4. s \in Past(i)
  BY <1>2 DEF Past
<1>5. /\ gauges' = [gauges EXCEPT ![i] = update_pool_metrics(@, s)]
      /\ updated' = updated \cup {i}
      /\ snapshots' = snapshots \/ snapshots' = [snapshots EXCEPT ![i] = @ \cup {AsSaved(s)}]
      /\ chain' = chain /\ pc' = pc /\ outcome' = outcome /\ pc = "query"
  BY <1>3 DEF PoolAnswers, SnapshotFails, NextPool
<1> HIDE DEF i, s
<1>6. GaugesOf(update_pool_metrics(gauges[i], s), Past(i))
  <2> DEFINE g == update_pool_metrics(gauges[i], s)
  <2>1. g.state = s /\ g.solvency = IF s.total_borrow > 0
                                    THEN <<s.vault_balance, s.total_borrow>> ELSE gauges[i].solvency
    BY DEF update_pool_metrics
  <2> HIDE DEF g
  <2>2. GaugesOf(g, Past(i))
    BY <1>4, <2>1 DEF GaugesOf
  <2> QED BY <2>2 DEF g
<1>7. \A j \in Ids : Past(j)' = Past(j)
  BY <1>5 DEF Past
<1>8. /\ gauges' = [j \in Ids |-> gauges'[j]]
      /\ \A j \in Ids : gauges'[j] = IF j = i THEN update_pool_metrics(gauges[i], s) ELSE gauges[j]
  BY <1>1, <1>5 DEF PollerOK
<1>9. /\ snapshots' = [j \in Ids |-> snapshots'[j]]
      /\ \A j \in Ids : snapshots'[j] = snapshots[j]
                           \/ (j = i /\ snapshots'[j] = snapshots[j] \cup {AsSaved(s)})
  BY <1>1, <1>5 DEF PollerOK
<1>10. ASSUME NEW j \in Ids PROVE TellOf(snapshots'[j], Past(j)) /\ GaugesOf(gauges'[j], Past(j))
  <2>1. TellOf(snapshots[j], Past(j))
    BY DEF PollerOK
  <2>2. j = i => \E v \in Past(j) : Tells(AsSaved(s), v)
    BY <1>2, <1>4, SavedTells
  <2>3. TellOf(snapshots'[j], Past(j))
    BY <1>9, <2>1, <2>2 DEF TellOf
  <2>4. GaugesOf(gauges'[j], Past(j))
    BY <1>6, <1>8 DEF PollerOK
  <2> QED BY <2>3, <2>4
<1>11. TypeOK'
  BY <1>1, <1>5 DEF PollerOK, TypeOK
<1>12. \A j \in Ids : TellOf(snapshots[j], Past(j))' /\ GaugesOf(gauges[j], Past(j))'
  BY <1>7, <1>10 DEF GaugesOf, TellOf
<1>13. (chain \in [Ids -> 1..Len(States)])'
  BY <1>5 DEF PollerOK
<1> QED BY <1>8, <1>9, <1>11, <1>12, <1>13 DEF PollerOK

(* Steps that leave the figures alone and no pool behind.                   *)
LEMMA PollerQuiet ==
    ASSUME PollerOK, UNCHANGED <<chain, gauges, snapshots>>, TypeOK'
    PROVE  PollerOK'
<1>1. \A i \in Ids : Past(i)' = Past(i)
  BY DEF Past
<1> QED BY <1>1 DEF PollerOK, GaugesOf, TellOf

(* Every step of the chain, the database and the poller.                    *)
LEMMA PollerNext == ASSUME PollerOK, Next PROVE PollerOK'
<1>1. CASE PoolChanges
  <2>1. PICK i \in Ids : chain[i] < Len(States) /\ chain' = [chain EXCEPT ![i] = @ + 1]
    BY <1>1 DEF PoolChanges
  <2>2. UNCHANGED <<assets, pc, todo, gauges, snapshots, outcome, updated>>
    BY <1>1 DEF PoolChanges
  <2>3. Len(States) \in Nat
    BY PollerAssumption
  <2>4. chain' \in [Ids -> 1..Len(States)] /\ \A j \in Ids : chain'[j] >= chain[j]
    BY <2>1, <2>3 DEF PollerOK
  <2>5. \A j \in Ids : 1..chain[j] \subseteq 1..chain'[j]
    BY <2>3, <2>4 DEF PollerOK
  <2>6. \A j \in Ids : Past(j) \subseteq Past(j)'
    BY <2>5 DEF Past
  <2>7. \A j \in Ids : TellOf(snapshots[j], Past(j)') /\ GaugesOf(gauges[j], Past(j)')
    BY <2>6 DEF PollerOK, GaugesOf, TellOf
  <2>8. TypeOK'
    BY <2>2 DEF PollerOK, TypeOK
  <2> QED BY <2>2, <2>4, <2>7, <2>8 DEF PollerOK, GaugesOf, TellOf
<1>2. CASE AssetsEdited
  BY <1>2, PollerQuiet DEF AssetsEdited, PollerOK, TypeOK
<1>3. CASE Wake
  <2>1. TypeOK'
    BY <1>3 DEF Wake, PollerOK, TypeOK
  <2> QED BY <1>3, <2>1, PollerQuiet DEF Wake
<1>4. CASE List
  <2>1. TypeOK'
    BY <1>4 DEF List, EndPoll, PollerOK, TypeOK
  <2> QED BY <1>4, <2>1, PollerQuiet DEF List
<1>5. CASE Connect
  <2>1. TypeOK'
    BY <1>5 DEF Connect, EndPoll, PollerOK, TypeOK
  <2> QED BY <1>5, <2>1, PollerQuiet DEF Connect
<1>6. ASSUME NEW p \in Pools, PoolAnswers(p) \/ SnapshotFails(p) PROVE PollerOK'
  BY <1>6, PollerAnswers
<1>7. ASSUME NEW p \in Pools, PoolFails(p) PROVE PollerOK'
  <2>1. TypeOK'
    BY <1>7 DEF PoolFails, NextPool, PollerOK, TypeOK
  <2> QED BY <1>7, <2>1, PollerQuiet DEF PoolFails
<1>8. CASE EndOfPoll
  <2>1. TypeOK'
    BY <1>8 DEF EndOfPoll, EndPoll, PollerOK, TypeOK
  <2> QED BY <1>8, <2>1, PollerQuiet DEF EndOfPoll
<1> QED BY <1>1, <1>2, <1>3, <1>4, <1>5, <1>6, <1>7, <1>8 DEF Next, Poll

(* FiguresWereTrue, for any pools, assets and states of the pools, and      *)
(* whichever calls fail: the gauges show, and each snapshot tells as far as *)
(* an i64 can, one state the pool was in (query_pool_state,                 *)
(* update_pool_metrics, save_snapshot).                                     *)
THEOREM FiguresAlwaysWereTrue == Spec => []FiguresWereTrue
<1>1. Init => PollerOK
  <2> SUFFICES ASSUME Init PROVE PollerOK
    OBVIOUS
  <2>1. Len(States) \in Nat /\ Len(States) > 0
    BY PollerAssumption
  <2>2. TypeOK
    BY DEF Init, TypeOK
  <2>3. chain \in [Ids -> 1..Len(States)]
    BY <2>1 DEF Init
  <2> QED BY <2>2, <2>3 DEF Init, PollerOK, GaugesOf, NoGauges, TellOf
<1>2. PollerOK /\ [Next]_vars => PollerOK'
  <2>1. PollerOK /\ UNCHANGED vars => PollerOK'
    BY PollerQuiet DEF vars, PollerOK, TypeOK
  <2> QED BY <2>1, PollerNext
<1>3. PollerOK => FiguresWereTrue
  BY DEF PollerOK, FiguresWereTrue, GaugesOf, Past, TellOf
<1> QED BY <1>1, <1>2, <1>3, PTL DEF Spec
=============================================================================
