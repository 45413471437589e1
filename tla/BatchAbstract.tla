---------------------------- MODULE BatchAbstract ----------------------------
(***************************************************************************)
(* What one batching server promises its callers, with the accumulator,    *)
(* the pending-request list, the chunked lookup and the result buffer      *)
(* abstracted away.                                                        *)
(*                                                                         *)
(* Once opened with a capacity, every call is either answered at once (an *)
(* error, or an empty reply) or parked with its query, as long as the      *)
(* parked queries fit the capacity.  Closing answers the parked callers in *)
(* the order they arrived: each, up to the first whose reply fails, gets   *)
(* the directory's answer to exactly its own query; the one whose reply    *)
(* failed gets nothing, nor does anyone after it.  Or closing fails and    *)
(* every parked caller gets nothing.  An answer, once given, is final.     *)
(***************************************************************************)
EXTENDS Naturals, Sequences, SequencesExt

CONSTANTS
  Phones,      \* query phone values
  Directory,   \* phone -> uuid, or the zero uuid
  MaxCalls,    \* bound on calls
  MaxQuery,    \* bound on the phones of one query
  Capacities   \* capacities the server may be opened with

VARIABLES
  phase,       \* "new", "accepting" or "terminated"
  capacity,    \* phones the server may hold parked
  outcome,     \* call -> [st, data]: what its caller was given
  calls,       \* calls made so far
  sent         \* call -> the phones its query carried

vars == <<phase, capacity, outcome, calls, sent>>

Calls == 1..MaxCalls

Parked == {k \in Calls : outcome[k].st = "parked"}

\* Phones held for the parked callers.
Pending == MapThenSumSet(LAMBDA k : Len(sent[k]), Parked)

\* The position of a parked call among the parked calls, by arrival.
Rank(k) == Cardinality({j \in Parked : j <= k})

Answer(k) == [st |-> "data", data |-> [j \in DOMAIN sent[k] |-> Directory[sent[k][j]]]]

Init ==
  /\ phase = "new"
  /\ capacity = 0
  /\ outcome = [k \in Calls |-> [st |-> "none", data |-> <<>>]]
  /\ calls = 0
  /\ sent = [k \in Calls |-> <<>>]

Open ==
  /\ phase = "new"
  /\ phase' = "accepting"
  /\ capacity' \in Capacities
  /\ UNCHANGED <<outcome, calls, sent>>

\* A call answered at once, the accumulator untouched.
Refuse ==
  /\ phase = "accepting" /\ calls < MaxCalls
  /\ \E st \in {"error", "empty"} :
       outcome' = [outcome EXCEPT ![calls + 1] = [st |-> st, data |-> <<>>]]
  /\ calls' = calls + 1
  /\ UNCHANGED <<phase, capacity, sent>>

\* A call parked with its non-empty query, within the capacity.
Park ==
  /\ phase = "accepting" /\ calls < MaxCalls
  /\ \E q \in BoundedSeq(Phones, MaxQuery) :
       /\ q # <<>>
       /\ Pending + Len(q) <= capacity
       /\ sent' = [sent EXCEPT ![calls + 1] = q]
  /\ outcome' = [outcome EXCEPT ![calls + 1] = [st |-> "parked", data |-> <<>>]]
  /\ calls' = calls + 1
  /\ UNCHANGED <<phase, capacity>>

\* Closing with the r-th parked caller's reply failing (r = 0: none fails).
Close(r) ==
  /\ phase = "accepting"
  /\ phase' = "terminated"
  /\ outcome' = [k \in Calls |->
                   CASE k \notin Parked           -> outcome[k]
                     [] r = 0 \/ Rank(k) < r      -> Answer(k)
                     [] Rank(k) = r               -> [st |-> "lost", data |-> <<>>]
                     [] OTHER                     -> [st |-> "dropped", data |-> <<>>]]
  /\ UNCHANGED <<capacity, calls, sent>>

\* Closing fails before any answer: every parked caller is dropped.
CloseFailed ==
  /\ phase = "accepting"
  /\ phase' = "terminated"
  /\ outcome' = [k \in Calls |->
                   IF k \in Parked THEN [st |-> "dropped", data |-> <<>>]
                   ELSE outcome[k]]
  /\ UNCHANGED <<capacity, calls, sent>>

Next ==
  \/ Open \/ Refuse \/ Park
  \/ \E r \in 0..MaxCalls : Close(r)
  \/ CloseFailed

Spec == Init /\ [][Next]_vars
=============================================================================
