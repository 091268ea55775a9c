---------------------------- MODULE RequestQueue ----------------------------
(***************************************************************************)
(* The approval queue in front of the YubiKey (src/src/requests.rs).       *)
(*                                                                         *)
(* A queue is a record; each operator is one method of Queue and returns   *)
(* the queue after the call.  The Vec of requests is a function on request *)
(* ids: ids are handed out in increasing order and never reused, so the    *)
(* order of the Vec is the order of the ids.  An id that has not been      *)
(* handed out yet, or whose request was pruned, is "Absent".               *)
(***************************************************************************)
EXTENDS Grants

CONSTANTS
    MaxRequests,  \* bound on the ids handed out (the code's u64)
    Cooldown,     \* limits.cooldown
    Ttl,          \* limits.ttl, config.request_ttl
    MaxPending    \* limits.max_pending_per_scope

ASSUME QueueAssumption ==
    /\ MaxRequests \in Nat
    /\ Cooldown \in Nat
    /\ Ttl \in Nat \ {0}
    /\ MaxPending \in Nat

NoId == 0
Ids == 1..MaxRequests

ActiveStates == {"Pending", "Decrypting"}
OverStates == {"Granted", "Denied", "TimedOut", "Failed"}

(* prune drops a finished request at twice the ttl; no age beyond matters. *)
Horizon == 2 * Ttl

Request == [scope      : Scopes \cup {None},
            key        : Keys \cup {None},
            state      : ActiveStates \cup OverStates \cup {"Absent"},
            generation : Nat,
            age        : 0..Horizon]

NoRequest == [scope |-> None, key |-> None, state |-> "Absent",
              generation |-> 0, age |-> 0]

(* sinceFinished is the age of last_finished, capped at the cooldown; the  *)
(* cap also stands for None, since both let the next request through.      *)
Queue == [requests      : [Ids -> Request],
          nextId        : 1..(MaxRequests + 1),
          generation    : Nat,
          inflight      : Ids \cup {NoId},
          sinceFinished : 0..Cooldown]

NewQueue == [requests      |-> [i \in Ids |-> NoRequest],
             nextId        |-> 1,
             generation    |-> 0,
             inflight      |-> NoId,
             sinceFinished |-> Cooldown]

StateOf(q, i) == q.requests[i].state
IsActive(q, i) == StateOf(q, i) \in ActiveStates
First(i, S) == i \in S /\ \A j \in S : i <= j

-----------------------------------------------------------------------------
(* enqueue, in its three outcomes: join a request, refuse, or append one.  *)

CoalesceAlways(q, s, k) ==
    {i \in Ids : IsActive(q, i) /\ q.requests[i].scope = s /\ q.requests[i].key = k}

CoalesceAnyScope(q, s, k) ==
    {i \in Ids : k \notin CapKeys /\ IsActive(q, i) /\ q.requests[i].key = k}

Coalescible(q, s, k) ==
    {i \in Ids : /\ k \notin CapKeys
                 /\ IsActive(q, i)
                 /\ q.requests[i].scope = s
                 /\ q.requests[i].key = k}

(* A capability request is counted against capability requests only. *)
Counted(q, s, k) ==
    {i \in Ids : /\ IsActive(q, i)
                 /\ q.requests[i].scope = s
                 /\ (k \in CapKeys => q.requests[i].key \in CapKeys)}

LimitFor(k) == IF k \in CapKeys THEN 1 ELSE MaxPending

HasRoomOffByOne(q, s, k) == Cardinality(Counted(q, s, k)) <= LimitFor(k)

HasRoom(q, s, k) == Cardinality(Counted(q, s, k)) < LimitFor(k)

Push(q, s, k) ==
    [q EXCEPT !.requests[q.nextId] = [scope |-> s, key |-> k,
                                      state |-> "Pending",
                                      generation |-> 0, age |-> 0],
              !.nextId = @ + 1]

-----------------------------------------------------------------------------
(* next_ready and mark_decrypting. *)

HardwareFreeNoCooldown(q) == q.inflight = NoId

HardwareFree(q) == q.inflight = NoId /\ q.sinceFinished >= Cooldown

PendingIds(q) == {i \in Ids : StateOf(q, i) = "Pending"}

NextReadyAny(q, i) == HardwareFree(q) /\ i \in PendingIds(q)

NextReady(q, i) == HardwareFree(q) /\ First(i, PendingIds(q))

MarkDecrypting(q, i) ==
    [q EXCEPT !.requests[i].state = "Decrypting",
              !.requests[i].generation = q.generation + 1,
              !.generation = @ + 1,
              !.inflight = i]

-----------------------------------------------------------------------------
(* The ways a request ends. *)

FinishFreesAlways(q, i) == [q EXCEPT !.inflight = NoId, !.sinceFinished = 0]

Finish(q, i) == [q EXCEPT !.inflight = IF @ = i THEN NoId ELSE @,
                          !.sinceFinished = 0]

StillCurrentIgnoringState(q, i, g) == TRUE

StillCurrent(q, i, g) ==
    StateOf(q, i) = "Decrypting" /\ q.requests[i].generation = g

Complete(q, i, g) ==
    Finish(IF StillCurrent(q, i, g)
           THEN [q EXCEPT !.requests[i].state = "Granted"]
           ELSE q,
           i)

(* fail overwrites whatever state the request is in. *)
Fail(q, i) ==
    Finish(IF StateOf(q, i) = "Absent"
           THEN q
           ELSE [q EXCEPT !.requests[i].state = "Failed"],
           i)

CancelAnyState(q, i, outcome) ==
    Finish([q EXCEPT !.requests[i].state = outcome,
                     !.requests[i].generation = @ + 1],
           i)

(* The common body of timeout and deny. *)
Cancel(q, i, outcome) ==
    IF IsActive(q, i)
    THEN Finish([q EXCEPT !.requests[i].state = outcome,
                          !.requests[i].generation = @ + 1],
                i)
    ELSE q

Timeout(q, i) == Cancel(q, i, "TimedOut")
Deny(q, i) == Cancel(q, i, "Denied")

Overdue(q) == {i \in Ids : IsActive(q, i) /\ q.requests[i].age > Ttl}

SweepTimeouts(q) ==
    [q EXCEPT !.requests = [i \in Ids |->
                              IF i \in Overdue(q)
                              THEN [q.requests[i] EXCEPT !.state = "TimedOut",
                                                         !.generation = @ + 1]
                              ELSE q.requests[i]],
              !.inflight = IF @ \in Overdue(q) THEN NoId ELSE @,
              !.sinceFinished = IF Overdue(q) = {} THEN @ ELSE 0]

Prune(q) ==
    [q EXCEPT !.requests = [i \in Ids |->
                              IF IsActive(q, i) \/ q.requests[i].age < Horizon
                              THEN q.requests[i]
                              ELSE NoRequest]]

(* The clock: every Instant the queue holds becomes one unit older. *)
AgeQueue(q) ==
    [q EXCEPT !.requests = [i \in Ids |->
                              IF StateOf(q, i) = "Absent" \/ q.requests[i].age = Horizon
                              THEN q.requests[i]
                              ELSE [q.requests[i] EXCEPT !.age = @ + 1]],
              !.sinceFinished = IF @ < Cooldown THEN @ + 1 ELSE @]

=============================================================================
