----------------------------- MODULE EventLog -----------------------------
(***************************************************************************)
(* What the indexer promises, without saying how: the events of the chain  *)
(* that concern a pipeline end up stored, none is ever lost again, and the  *)
(* horizon a pipeline announces never runs ahead of what it has stored.     *)
(* A reference <<p, k>> is the event with key k, of concern to pipeline p.  *)
(***************************************************************************)
EXTENDS Naturals, Sequences

CONSTANTS
    Pipelines,     \* the names of the pipelines
    Batches        \* the sets of references that one checkpoint can publish

VARIABLES
    published,     \* published[c]: the references of checkpoint c
    stored,        \* the references that can be read
    horizon        \* horizon[p]: pipeline p vouches for checkpoints up to here

logVars == <<published, stored, horizon>>

Of(p, c) == {r \in published[c] : r[1] = p}

AllPublished == UNION {published[c] : c \in DOMAIN published}

(* Everything that p should have stored of the first n checkpoints is there. *)
Complete(p, n) == \A c \in 1..n : Of(p, c) \subseteq stored

LogInit ==
    /\ published = <<>>
    /\ stored = {}
    /\ horizon = [p \in Pipelines |-> 0]

Publish ==
    /\ published' \in {Append(published, b) : b \in Batches}
    /\ UNCHANGED <<stored, horizon>>

Store ==
    /\ \E s \in SUBSET (AllPublished \ stored) : stored' = stored \cup s
    /\ UNCHANGED <<published, horizon>>

Vouch(p) ==
    /\ \E n \in (horizon[p] + 1)..Len(published) :
          /\ Complete(p, n)
          /\ horizon' = [horizon EXCEPT ![p] = n]
    /\ UNCHANGED <<published, stored>>

LogNext == Publish \/ Store \/ \E p \in Pipelines : Vouch(p)

LogSpec == LogInit /\ [][LogNext]_logVars
=============================================================================
