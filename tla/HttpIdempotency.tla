-------------------------- MODULE HttpIdempotency --------------------------
(***************************************************************************)
(* POST /orders with one Idempotency-Key: IdempotencyGuard, the create     *)
(* order use case and IdempotencyInterceptor, for requests that carry the  *)
(* same key and the in-memory store of one API process.  Other keys do not *)
(* meet this one.                                                          *)
(*                                                                         *)
(* The guard awaits get, isProcessing and startProcessing one after the    *)
(* other, and the interceptor awaits set and finishProcessing; each await  *)
(* resumes one turn of the microtask queue later, in the order of the      *)
(* calls.  A guard whose get comes before the set therefore asks           *)
(* isProcessing before the finishProcessing, so that the guard and the     *)
(* interceptor each act in one step.                                       *)
(***************************************************************************)
EXTENDS Naturals, FiniteSets

CONSTANTS
    Requests,    \* requests with the key, client retries included
    NoRequest,   \* model value
    MaxFaults,   \* bound: throwing calls and crashes in a behaviour
    MaxExpiries  \* bound: times the stored response outlives its 24 hours

ASSUME NoRequestAssumption == NoRequest \notin Requests
ASSUME MaxFaultsAssumption == MaxFaults \in Nat
ASSUME MaxExpiriesAssumption == MaxExpiries \in Nat

VARIABLES
    store,       \* the request whose response is cached under the key
    processing,  \* the key is in the processing set
    at,          \* how far each request got, or how it was answered
    answer,      \* answer[r]: the request whose order the answer to r shows
    saved,       \* requests whose order row was committed
    started,     \* requests whose order has a workflow
    undone,      \* history: what made the program forget an order of the key
    faults,      \* faults so far
    expiries     \* expiries so far

vars == <<store, processing, at, answer, saved, started, undone, faults,
          expiries>>

InFlight == {"save", "start", "answer"}
Answered == {"created", "replayed", "conflict", "failed", "lost"}

Fault ==
    /\ faults < MaxFaults
    /\ faults' = faults + 1

----------------------------------------------------------------------------
Init ==
    /\ store = NoRequest
    /\ processing = FALSE
    /\ at = [r \in Requests |-> "idle"]
    /\ answer = [r \in Requests |-> NoRequest]
    /\ saved = {}
    /\ started = {}
    /\ undone = 0
    /\ faults = 0
    /\ expiries = 0

\* A cached response is sent again.
Replay(r) ==
    /\ at[r] = "idle"
    /\ store # NoRequest
    /\ at' = [at EXCEPT ![r] = "replayed"]
    /\ answer' = [answer EXCEPT ![r] = store]
    /\ UNCHANGED <<store, processing, saved, started, undone, faults, expiries>>

\* 409 while another request holds the key.
Conflict(r) ==
    /\ at[r] = "idle"
    /\ store = NoRequest
    /\ processing
    /\ at' = [at EXCEPT ![r] = "conflict"]
    /\ UNCHANGED <<store, processing, answer, saved, started, undone, faults,
                   expiries>>

\* Variant: the guard does not ask whether the key is being processed.
StartUnchecked(r) ==
    /\ at[r] = "idle"
    /\ store = NoRequest
    /\ processing' = TRUE
    /\ at' = [at EXCEPT ![r] = "save"]
    /\ UNCHANGED <<store, answer, saved, started, undone, faults, expiries>>

\* startProcessing: the request takes the key and goes on to the controller.
StartProcessing(r) ==
    /\ at[r] = "idle"
    /\ store = NoRequest
    /\ ~processing
    /\ processing' = TRUE
    /\ at' = [at EXCEPT ![r] = "save"]
    /\ UNCHANGED <<store, answer, saved, started, undone, faults, expiries>>

\* orderRepository.save.
SaveOrder(r) ==
    /\ at[r] = "save"
    /\ saved' = saved \cup {r}
    /\ at' = [at EXCEPT ![r] = "start"]
    /\ UNCHANGED <<store, processing, answer, started, undone, faults, expiries>>

\* startOrderProcessing.
StartWorkflow(r) ==
    /\ at[r] = "start"
    /\ started' = started \cup {r}
    /\ at' = [at EXCEPT ![r] = "answer"]
    /\ UNCHANGED <<store, processing, answer, saved, undone, faults, expiries>>

\* The interceptor's tap: the response is cached and the key is free.
Answer(r) ==
    /\ at[r] = "answer"
    /\ store' = r
    /\ processing' = FALSE
    /\ at' = [at EXCEPT ![r] = "created"]
    /\ answer' = [answer EXCEPT ![r] = r]
    /\ UNCHANGED <<saved, started, undone, faults, expiries>>

\* Validation refuses the body, or the save throws, perhaps after its COMMIT was
\* applied: catchError frees the key, and an order that is stored is forgotten.
SaveFails(r) ==
    /\ Fault
    /\ at[r] = "save"
    /\ \/ UNCHANGED <<saved, undone>>
       \/ saved' = saved \cup {r} /\ undone' = undone + 1
    /\ processing' = FALSE
    /\ at' = [at EXCEPT ![r] = "failed"]
    /\ UNCHANGED <<store, answer, started, expiries>>

\* Variant: the key is not freed on an error.
StartFailsHoldingKey(r) ==
    /\ Fault
    /\ at[r] = "start"
    /\ started' \in {started, started \cup {r}}
    /\ undone' = undone + 1
    /\ at' = [at EXCEPT ![r] = "failed"]
    /\ UNCHANGED <<store, processing, answer, saved, expiries>>

\* Variant: the error is cached like a response.
StartFailsCached(r) ==
    /\ Fault
    /\ at[r] = "start"
    /\ started' \in {started, started \cup {r}}
    /\ undone' = undone + 1
    /\ processing' = FALSE
    /\ store' = r
    /\ at' = [at EXCEPT ![r] = "failed"]
    /\ UNCHANGED <<answer, saved, expiries>>

\* The start throws, perhaps after the server recorded it: 500, the order row
\* stays and the key is free.
StartFails(r) ==
    /\ Fault
    /\ at[r] = "start"
    /\ started' \in {started, started \cup {r}}
    /\ undone' = undone + 1
    /\ processing' = FALSE
    /\ at' = [at EXCEPT ![r] = "failed"]
    /\ UNCHANGED <<store, answer, saved, expiries>>

\* The cached response is 24 hours old: get, or the hourly cleanup, drops it.
Expire ==
    /\ store # NoRequest
    /\ expiries < MaxExpiries
    /\ expiries' = expiries + 1
    /\ undone' = undone + 1
    /\ store' = NoRequest
    /\ UNCHANGED <<processing, at, answer, saved, started, faults>>

\* The API process dies: store, processing set and requests are gone.
Restart ==
    /\ Fault
    /\ store' = NoRequest
    /\ processing' = FALSE
    /\ at' = [r \in Requests |-> IF at[r] \in InFlight THEN "lost" ELSE at[r]]
    /\ undone' = undone + 1
    /\ UNCHANGED <<answer, saved, started, expiries>>

----------------------------------------------------------------------------
Proceed(r) == SaveOrder(r) \/ StartWorkflow(r) \/ Answer(r)

Next ==
    \/ \E r \in Requests :
           \/ Replay(r) \/ Conflict(r) \/ StartProcessing(r)
           \/ Proceed(r)
           \/ SaveFails(r) \/ StartFails(r)
    \/ Expire
    \/ Restart

Spec == Init /\ [][Next]_vars

\* A request that is under way goes on: its database and Temporal calls return.
FairSpec == Spec /\ \A r \in Requests : WF_vars(Proceed(r))

----------------------------------------------------------------------------
\* Properties

TypeOK ==
    /\ store \in Requests \cup {NoRequest}
    /\ processing \in BOOLEAN
    /\ at \in [Requests -> {"idle"} \cup InFlight \cup Answered]
    /\ answer \in [Requests -> Requests \cup {NoRequest}]
    /\ saved \subseteq Requests
    /\ started \subseteq saved
    /\ undone \in 0..MaxFaults + MaxExpiries
    /\ faults \in 0..MaxFaults
    /\ expiries \in 0..MaxExpiries
    /\ processing <=> \E r \in Requests : at[r] \in InFlight

\* README.md:313 "Prevent duplicate order processing": requests with one key
\* save one order, and one more only each time a save that threw after its COMMIT,
\* a failed start, a restart of the process or the expiry of the response made the
\* program forget the last one.
OneOrderUnlessForgotten == Cardinality(saved) <= 1 + undone

\* A replayed response is the response to a request that went through: its
\* order is stored, its workflow runs and the client of that request was told
\* the same.
ReplaysAnOrderInProgress ==
    \A r \in Requests :
        at[r] = "replayed" =>
            /\ answer[r] \in saved \cap started
            /\ at[answer[r]] = "created"

\* A key does not stay in use: the request that holds it is answered or fails.
KeyIsReleased == processing ~> ~processing

============================================================================
