----------------------------- MODULE SgxsdServer -----------------------------
(***************************************************************************)
(* One SgxsdServerState of src/enclave/cds_enclave/src/service/main.rs:    *)
(* init, handle_call (request decoding, the ratelimit branch and the       *)
(* batching branch) and terminate (overflow checks, the chunked            *)
(* hash_lookup, and the split of the results among the pending requests).  *)
(*                                                                         *)
(* A server is owned by the thread dispatching it, so its calls are        *)
(* sequential.  The host is free in what it passes: every call may be      *)
(* malformed (null args, a bad slice, a size mismatch, a MAC failure, a    *)
(* commitment mismatch), and any in_phone_count is possible.  The ratelimit *)
(* branch's own work is Ratelimit's; here only its outcome is chosen.      *)
(* hash_lookup (C code outside src/) writes, for each query phone of a     *)
(* chunk, the directory's uuid for it or the zero uuid, as spec 4.8 says.  *)
(***************************************************************************)
EXTENDS Naturals, Sequences, SequencesExt

CONSTANTS
  Phones,           \* query phone values
  Directory,        \* phone -> uuid (or ZeroUuid) in the host's directory
  MaxCalls,         \* bound on handle_call invocations
  MaxQuery,         \* bound on query_phone_count
  Capacities,       \* max_query_phones values init may be given
  MaxHashTableSize, \* MAX_HASH_TABLE_SIZE
  UsizeMax,         \* usize::MAX
  InPhoneCounts,    \* in_phone_count values terminate may be given
  QuerySizes,       \* query.size values a call may be given, in bytes
  ZeroUuid          \* the all-zero uuid: no match

VARIABLES
  phase,       \* "new", "accepting" (after init) or "terminated"
  capacity,    \* query_phones.capacity(), i.e. max_query_phones
  rlEnabled,   \* ratelimit_state_map is Some (max_ratelimit_states # 0)
  queryPhones, \* self.query_phones: the accumulated phones
  requests,    \* self.requests: the PendingRequests, in push order
  outcome,     \* call -> what its caller was given
  calls,       \* handle_call invocations so far
  sent         \* history: call -> the phones its query carried

vars == <<phase, capacity, rlEnabled, queryPhones, requests, outcome, calls,
          sent>>

BytesPerPhone == 8
BytesPerUuid == 16
CommitmentNonceSize == 32

Calls == 1..MaxCalls

\* What a caller (its SgxsdMsgFrom) was given: nothing yet, an error reply,
\* an empty reply (a ratelimit update), parked as a PendingRequest, its
\* slice of the lookup results, or nothing ever (its reply failed, or its
\* MsgFrom was dropped by a terminate that stopped early).
Out(st) == [st |-> st, data |-> <<>>]
Outcomes == {Out(s) : s \in {"none", "error", "empty", "parked", "lost",
                             "dropped"}}
            \cup [st : {"data"}, data : Seq(Range(Directory) \cup {ZeroUuid})]

\* The uuid the host's directory holds for a phone, or ZeroUuid.
Lookup(p) == Directory[p]

-----------------------------------------------------------------------------
(* Terminate's arithmetic: pure operators.                                 *)

\* slice::chunks(m): consecutive pieces of m elements, the last shorter.
RECURSIVE Chunks(_, _)
Chunks(s, m) ==
  IF s = <<>> THEN <<>>
  ELSE <<SubSeq(s, 1, IF Len(s) < m THEN Len(s) ELSE m)>>
         \o Chunks(SubSeq(s, m + 1, Len(s)), m)

\* chunks_mut(m * BYTES_PER_UUID) of a buffer of len uuids, as the
\* [lo, hi] uuid positions of each piece.
ResultChunks(len, m) ==
  [i \in 1..((len + m - 1) \div m) |->
     [lo |-> (i - 1) * m + 1,
      hi |-> IF i * m > len THEN len ELSE i * m]]

\* Mutant of HashLookup: every chunk written at the start of the buffer.
HashLookupNoOffset(buf, qc, rc) ==
  [p \in DOMAIN buf |-> IF p <= Len(qc) THEN Lookup(qc[p]) ELSE buf[p]]

\* hash_lookup(.., query_phones_chunk, in_query_phones_result_chunk): the
\* i-th result of the chunk is the directory's uuid for its i-th phone.
HashLookup(buf, qc, rc) ==
  [p \in DOMAIN buf |->
     IF p \in rc.lo..rc.hi /\ p - rc.lo + 1 <= Len(qc)
     THEN Lookup(qc[p - rc.lo + 1]) ELSE buf[p]]

\* The loop over query_phones_chunks.zip(in_query_phones_result_chunks).
RECURSIVE LookupChunks(_, _, _)
LookupChunks(buf, qcs, rcs) ==
  IF qcs = <<>> \/ rcs = <<>> THEN buf
  ELSE LookupChunks(HashLookup(buf, Head(qcs), Head(rcs)), Tail(qcs), Tail(rcs))

\* The secret result buffer after every chunk was looked up: it starts
\* zeroed (vec![0u8; ..]), one uuid per accumulated phone.
Results(qs) ==
  LookupChunks([p \in 1..Len(qs) |-> ZeroUuid],
               Chunks(qs, MaxHashTableSize),
               ResultChunks(Len(qs), MaxHashTableSize))

\* The loop over self.requests: split_at_mut(request_phone_count * 16)
\* takes each request's slice off the front of what remains.
RECURSIVE SplitReplies(_, _)
SplitReplies(buf, reqs) ==
  IF reqs = <<>> THEN <<>>
  ELSE <<SubSeq(buf, 1, Head(reqs).count)>>
         \o SplitReplies(SubSeq(buf, Head(reqs).count + 1, Len(buf)), Tail(reqs))
-----------------------------------------------------------------------------
(* The server.                                                             *)

TypeOK ==
  /\ phase \in {"new", "accepting", "terminated"}
  /\ capacity \in Capacities \cup {0}
  /\ rlEnabled \in BOOLEAN
  /\ queryPhones \in Seq(Phones)
  /\ requests \in Seq([from : Calls, count : 1..MaxQuery])
  /\ outcome \in [Calls -> Outcomes]
  /\ calls \in 0..MaxCalls
  /\ sent \in [Calls -> BoundedSeq(Phones, MaxQuery)]

Init ==
  /\ phase = "new"
  /\ capacity = 0
  /\ rlEnabled = FALSE
  /\ queryPhones = <<>>
  /\ requests = <<>>
  /\ outcome = [k \in Calls |-> Out("none")]
  /\ calls = 0
  /\ sent = [k \in Calls |-> <<>>]

\* init(StartArgs): the accumulator gets capacity max_query_phones; a
\* non-zero max_ratelimit_states gives the server the global map.
InitServer ==
  /\ phase = "new"
  /\ phase' = "accepting"
  /\ \E cap \in Capacities, rl \in BOOLEAN :
       /\ capacity' = cap
       /\ rlEnabled' = rl
  /\ UNCHANGED <<queryPhones, requests, outcome, calls, sent>>

\* Mutant of ExceedsCapacity: a zero query_phone_count let through.
ExceedsCapacityNoZero(c) == c > capacity - Len(queryPhones)

\* Mutant of ExceedsCapacity: one phone more than the remaining capacity.
ExceedsCapacityOffByOne(c) == c = 0 \/ c > capacity - Len(queryPhones) + 1

\* decode_request's first check: query_phone_count is zero or more than the
\* accumulator can still take (for ratelimit requests too).
ExceedsCapacity(c) == c = 0 \/ c > capacity - Len(queryPhones)

\* The phones RequestPhoneList's iterator yields for a query of sz bytes:
\* the data after the commitment nonce (none if it is shorter) in
\* chunks_exact of eight bytes, a shorter remainder dropped.
DecodedCount(sz) ==
  IF sz < CommitmentNonceSize THEN 0
  ELSE (sz - CommitmentNonceSize) \div BytesPerPhone

\* Mutant of SizeMatches: the phone count is not compared with the size.
SizeMatchesNoCount(c, sz) ==
  /\ sz >= CommitmentNonceSize
  /\ (sz - CommitmentNonceSize) % BytesPerPhone = 0

\* decode_request's size checks: query.size minus COMMITMENT_NONCE_SIZE
\* does not underflow, is a whole number of phones, and that number is
\* query_phone_count.
SizeMatches(c, sz) ==
  /\ sz >= CommitmentNonceSize
  /\ (sz - CommitmentNonceSize) % BytesPerPhone = 0
  /\ (sz - CommitmentNonceSize) \div BytesPerPhone = c

\* A handle_call, as call k = calls + 1, whose caller gets the outcome o.
Answer(o) ==
  /\ calls' = calls + 1
  /\ outcome' = [outcome EXCEPT ![calls + 1] = o]

\* handle_call fails with (error, from): null args, a count the accumulator
\* cannot take, or a query decode_request rejects (a bad slice, a size
\* mismatch, a MAC failure, a commitment mismatch).  The host can always
\* pass a malformed query, so every call may end here.
CallRejected ==
  /\ phase = "accepting" /\ calls < MaxCalls
  /\ Answer(Out("error"))
  /\ UNCHANGED <<phase, capacity, rlEnabled, queryPhones, requests, sent>>

\* handle_call with a ratelimit uuid: SgxsdServerState::update_ratelimit_state
\* fails with SGX_ERROR_INVALID_STATE without the map; otherwise its result
\* (modelled in Ratelimit) is an empty reply or an error.  The accumulator
\* is not touched.
CallRatelimited ==
  /\ phase = "accepting" /\ calls < MaxCalls
  /\ \E c \in 0..MaxQuery : ~ExceedsCapacity(c)
  /\ IF rlEnabled THEN \E o \in {"empty", "error"} : Answer(Out(o))
                  ELSE Answer(Out("error"))
  /\ UNCHANGED <<phase, capacity, rlEnabled, queryPhones, requests, sent>>

\* handle_call without a ratelimit uuid: the phones the request's iterator
\* yields are appended to query_phones and a PendingRequest{from,
\* request_phone_count} is pushed with the iterator's length.
CallQueued ==
  /\ phase = "accepting" /\ calls < MaxCalls
  /\ \E c \in 0..MaxQuery, sz \in QuerySizes :
     \E ps \in BoundedSeq(Phones, DecodedCount(sz)) :
       /\ ~ExceedsCapacity(c)
       /\ SizeMatches(c, sz)
       /\ Len(ps) = DecodedCount(sz)
       /\ queryPhones' = queryPhones \o ps
       /\ requests' = Append(requests, [from |-> calls + 1, count |-> Len(ps)])
       /\ sent' = [sent EXCEPT ![calls + 1] = ps]
       /\ Answer(Out("parked"))
  /\ UNCHANGED <<phase, capacity, rlEnabled>>

\* terminate's checked_mul of in_phone_count by BYTES_PER_PHONE and by
\* BYTES_PER_UUID.
SizesFit(n) == n * BytesPerPhone <= UsizeMax /\ n * BytesPerUuid <= UsizeMax

\* The checked_mul of query_phones.len() by BYTES_PER_UUID.
ResultLenFits == Len(queryPhones) * BytesPerUuid <= UsizeMax

\* self is consumed: the MsgFrom of every request still parked is dropped.
DropParked ==
  [k \in Calls |-> IF outcome[k].st = "parked" THEN Out("dropped")
                                             ELSE outcome[k]]

\* Mutant of Dispatch: the reply loop walks the requests from the back.
DispatchReversed(replies, r) ==
  [k \in Calls |->
     IF \E i \in DOMAIN requests : requests[i].from = k
     THEN LET i == CHOOSE i \in DOMAIN requests : requests[i].from = k
              j == Len(requests) + 1 - i
          IN CASE r = 0 \/ j < r -> [st |-> "data", data |-> replies[i]]
               [] j = r          -> Out("lost")
               [] OTHER          -> Out("dropped")
     ELSE outcome[k]]

\* The reply loop, its reply to request r failing (r = 0: none fails): the
\* requests before r get their slices, r's reply is lost and the ones after
\* it are dropped with the iterator.
Dispatch(replies, r) ==
  [k \in Calls |->
     IF \E i \in DOMAIN requests : requests[i].from = k
     THEN LET i == CHOOSE i \in DOMAIN requests : requests[i].from = k
          IN CASE r = 0 \/ i < r -> [st |-> "data", data |-> replies[i]]
               [] i = r          -> Out("lost")
               [] OTHER          -> Out("dropped")
     ELSE outcome[k]]

\* terminate fails before any lookup: null args, an in_phone_count whose
\* byte sizes overflow, in_phones or in_uuids not outside the enclave, or
\* an overflowing result length.
TerminateRejected ==
  /\ phase = "accepting"
  /\ phase' = "terminated"
  /\ outcome' = DropParked
  /\ UNCHANGED <<capacity, rlEnabled, queryPhones, requests, calls, sent>>

\* terminate passes its checks, and hash_lookup fails on one of the
\* chunks (there is at least one): the error propagates.
TerminateLookupFailed ==
  /\ phase = "accepting"
  /\ queryPhones # <<>>
  /\ \E n \in InPhoneCounts : SizesFit(n)
  /\ ResultLenFits
  /\ phase' = "terminated"
  /\ outcome' = DropParked
  /\ UNCHANGED <<capacity, rlEnabled, queryPhones, requests, calls, sent>>

\* terminate runs to the reply loop: every chunk is looked up, the results
\* are split by request_phone_count in push order, and each request is
\* replied to in turn until a reply fails.
TerminateReplied ==
  /\ phase = "accepting"
  /\ \E n \in InPhoneCounts : SizesFit(n)
  /\ ResultLenFits
  /\ \E r \in 0..Len(requests) :
       outcome' = Dispatch(SplitReplies(Results(queryPhones), requests), r)
  /\ phase' = "terminated"
  /\ UNCHANGED <<capacity, rlEnabled, queryPhones, requests, calls, sent>>

\* The server is gone.
Done ==
  /\ phase = "terminated"
  /\ UNCHANGED vars

Next ==
  \/ InitServer
  \/ CallRejected \/ CallRatelimited \/ CallQueued
  \/ TerminateRejected \/ TerminateLookupFailed \/ TerminateReplied
  \/ Done

Spec == Init /\ [][Next]_vars

-----------------------------------------------------------------------------
(* Properties.                                                             *)

\* Every caller that terminate answers with data gets the directory's
\* uuids for exactly the phones its own query carried, in their order,
\* however the accumulated phones were cut into MAX_HASH_TABLE_SIZE chunks
\* and whatever the other requests carried: the chunk zip and the
\* split_at_mut by request_phone_count line up with the push order.
RepliesMatchQueries ==
  \A k \in Calls :
    outcome[k].st = "data" =>
      outcome[k].data = [j \in DOMAIN sent[k] |-> Lookup(sent[k][j])]

\* The accumulator never holds more phones than init gave it capacity
\* for, it holds exactly the phones the pending requests count, and the
\* callers left parked are exactly the pending requests' callers, so the
\* reply split at terminate covers the whole result buffer.
BatchConsistent ==
  /\ Len(queryPhones) <= capacity
  /\ Len(queryPhones) = FoldLeft(LAMBDA acc, r : acc + r.count, 0, requests)
  /\ phase = "accepting" =>
       {k \in Calls : outcome[k].st = "parked"}
         = {requests[i].from : i \in DOMAIN requests}

Batch == INSTANCE BatchAbstract

\* The server implements BatchAbstract: every call is answered at once or
\* parked within the capacity, answers are final, and terminate answers
\* the parked callers in arrival order, each with the lookup of its own
\* query, up to the first failed reply, after which nobody is answered.
BatchSpec == Batch!Spec
=============================================================================
