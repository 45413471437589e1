------------------------------ MODULE CdsEnclave ------------------------------
(***************************************************************************)
(* One SgxsdServerState composed with the enclave's rate-limit state.      *)
(*                                                                         *)
(* SgxsdServer takes handle_call's ratelimit branch as one step whose      *)
(* outcome is chosen.  Here that branch is what the code runs: the         *)
(* server's dispatching thread enters Ratelimit as a server ecall on the   *)
(* process-wide map, reads the slab, finds the cell, spins for its lock    *)
(* and updates it, while other threads make free, delete and other        *)
(* servers' ecalls on the same clients; handle_call then returns the       *)
(* result, its error mapped to (error, from).  The server is blocked for   *)
(* the whole call: it is owned by its dispatching thread.  Enclave         *)
(* restarts are left out here (the ratelimit run has them): a restart      *)
(* would end the server as well.                                           *)
(***************************************************************************)
EXTENDS Naturals, FiniteSets, Sequences

CONSTANTS
  Uuids, Phones, Dispatcher, Others, NonceMax, RlMaxCalls, MaxQuery,
  PlaintextLen, UsizeMax, U32Max, NoState, NoThread, NoCall,
  Directory, SrvMaxCalls, Capacities, MaxHashTableSize, InPhoneCounts,
  QuerySizes, ZeroUuid

ASSUME Dispatcher \notin Others

VARIABLES
  cells, inMap, owner, pc, call, reply, revealed, nextKey, rlCalls,
  restarts, evalCount, gen,                     \* Ratelimit's
  phase, capacity, rlEnabled, queryPhones, requests, outcome, srvCalls,
  sent,                                         \* SgxsdServer's
  pending   \* NoCall, or the uuid and phones of the server's handle_call
            \* that is inside update_ratelimit_state

rlVars == <<cells, inMap, owner, pc, call, reply, revealed, nextKey, rlCalls,
            restarts, evalCount, gen>>
srvVars == <<phase, capacity, rlEnabled, queryPhones, requests, outcome,
             srvCalls, sent>>
vars == <<rlVars, srvVars, pending>>

RL == INSTANCE Ratelimit
        WITH Threads <- {Dispatcher} \cup Others, calls <- rlCalls,
             MaxCalls <- RlMaxCalls, MaxRestarts <- 0

Srv == INSTANCE SgxsdServer WITH calls <- srvCalls, MaxCalls <- SrvMaxCalls

Init == RL!Init /\ Srv!Init /\ pending = NoCall

\* init, the batching and rejected handle_calls, and terminate: only while
\* no handle_call of the server is in progress.
ServerStep ==
  /\ pending = NoCall
  /\ \/ Srv!InitServer
     \/ Srv!CallRejected \/ Srv!CallQueued
     \/ Srv!TerminateRejected \/ Srv!TerminateLookupFailed
     \/ Srv!TerminateReplied
  /\ UNCHANGED <<rlVars, pending>>

\* handle_call with a ratelimit uuid, once decode_request accepted it: the
\* decoded phones go to SgxsdServerState::update_ratelimit_state, i.e. the
\* dispatching thread starts a server ecall on the map with them, through
\* the server's own ratelimit_state_map.
RatelimitCallStart ==
  /\ pending = NoCall /\ phase = "accepting" /\ srvCalls < SrvMaxCalls
  /\ RL!Start(Dispatcher)
  /\ call'[Dispatcher].kind = "server"
  /\ call'[Dispatcher].enabled = rlEnabled
  /\ ~Srv!ExceedsCapacity(Cardinality(call'[Dispatcher].phones))
  /\ pending' = [uuid |-> call'[Dispatcher].uuid,
                phones |-> call'[Dispatcher].phones]
  /\ UNCHANGED srvVars

\* Mutant of RatelimitCallReturn: the error of update_ratelimit_state is
\* dropped and the call answered as if it had succeeded.
RatelimitCallReturnSwallowsError ==
  /\ pending # NoCall /\ pc[Dispatcher] = "idle"
  /\ Srv!Answer(Srv!Out("empty"))
  /\ pending' = NoCall
  /\ UNCHANGED <<phase, capacity, rlEnabled, queryPhones, requests, sent>>
  /\ UNCHANGED rlVars

\* update_ratelimit_state has returned: Ok gives the caller an empty reply,
\* an error is mapped to (error, from).
RatelimitCallReturn ==
  /\ pending # NoCall /\ pc[Dispatcher] = "idle"
  /\ Srv!Answer(Srv!Out(IF reply[Dispatcher] = "ok" THEN "empty" ELSE "error"))
  /\ pending' = NoCall
  /\ UNCHANGED <<phase, capacity, rlEnabled, queryPhones, requests, sent>>
  /\ UNCHANGED rlVars

\* A step of an ecall on the map: the server's, or another thread's.
RatelimitStep ==
  /\ \/ \E t \in Others : RL!Start(t) \/ RL!StartRejected(t)
     \/ \E t \in {Dispatcher} \cup Others :
          \/ RL!ReadState(t) \/ RL!GetCell(t) \/ RL!Lock(t)
          \/ RL!Update(t) \/ RL!Delete(t)
  /\ UNCHANGED <<srvVars, pending>>

\* The server has terminated and no ecall is left.
Done ==
  /\ phase = "terminated" /\ pending = NoCall
  /\ rlCalls = RlMaxCalls
  /\ \A t \in {Dispatcher} \cup Others : pc[t] = "idle"
  /\ UNCHANGED vars

Next ==
  \/ ServerStep
  \/ RatelimitCallStart \/ RatelimitCallReturn
  \/ RatelimitStep
  \/ Done

Spec == Init /\ [][Next]_vars

-----------------------------------------------------------------------------
(* Properties.                                                             *)

\* An empty reply to a ratelimit call tells the client its query was
\* recorded: whenever the server answers one, the host has been handed a
\* ciphertext for that client whose set holds the call's phones.  An error
\* of update_ratelimit_state, the write_bytes failures after it included,
\* must reach the caller, whatever the other threads did meanwhile.
EmptyReplyMeansRecorded ==
  [][\A k \in 1..SrvMaxCalls :
       (outcome[k].st = "none" /\ outcome'[k].st = "empty") =>
         \E c \in revealed[pending.uuid] : pending.phones \subseteq c.set]_vars
=============================================================================
