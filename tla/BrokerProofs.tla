---------------------------- MODULE BrokerProofs ----------------------------
(***************************************************************************)
(* Invariants of the daemon, proved for every value of the constants: any  *)
(* number of connections, sessions, keys and requests, and any cooldown    *)
(* that outlasts the touch cache.                                          *)
(*                                                                         *)
(* First what each method of the queue does to the queue, as lemmas that   *)
(* the proofs about the daemon cite instead of expanding the records; then *)
(* the types, who holds the hardware and who can kill it, and what any     *)
(* step does to the queue as a whole.                                      *)
(***************************************************************************)
EXTENDS Broker, TLAPS

-----------------------------------------------------------------------------
(* The queue. *)

LEMMA NewQueueType == NewQueue \in Queue
  BY QueueAssumption DEF NewQueue, Queue, NoRequest, Request, Ids, NoId, Horizon

LEMMA PushLemma ==
    ASSUME NEW q \in Queue, NEW s \in Scopes, NEW k \in Keys, q.nextId \in Ids
    PROVE  /\ Push(q, s, k) \in Queue
           /\ Push(q, s, k).nextId = q.nextId + 1
           /\ Push(q, s, k).inflight = q.inflight
           /\ Push(q, s, k).generation = q.generation
           /\ Push(q, s, k).sinceFinished = q.sinceFinished
           /\ \A j \in Ids \ {q.nextId} : Push(q, s, k).requests[j] = q.requests[j]
           /\ Push(q, s, k).requests[q.nextId].state = "Pending"
           /\ Push(q, s, k).requests[q.nextId].scope = s
           /\ Push(q, s, k).requests[q.nextId].key = k
  <1> DEFINE r == [scope |-> s, key |-> k, state |-> "Pending",
                   generation |-> 0, age |-> 0]
  <1>1. r \in Request
    BY QueueAssumption DEF Request, ActiveStates, Horizon
  <1>2. Push(q, s, k) = [q EXCEPT !.requests = [q.requests EXCEPT ![q.nextId] = r],
                                  !.nextId = q.nextId + 1]
    BY DEF Push, Queue
  <1>3. q.nextId + 1 \in 1..(MaxRequests + 1)
    BY QueueAssumption DEF Ids
  <1> HIDE DEF r
  <1>4. Push(q, s, k) \in Queue
    BY <1>1, <1>2, <1>3, ZenonT(30) DEF Queue
  <1>5. Push(q, s, k).requests = [q.requests EXCEPT ![q.nextId] = r]
    BY <1>2 DEF Queue
  <1>6. /\ Push(q, s, k).requests[q.nextId] = r
        /\ \A j \in Ids \ {q.nextId} : Push(q, s, k).requests[j] = q.requests[j]
    BY <1>5 DEF Queue
  <1>7. r.state = "Pending" /\ r.scope = s /\ r.key = k
    BY DEF r
  <1> QED
    BY <1>2, <1>4, <1>6, <1>7 DEF Queue

(* Queue p is q with a request of scope s for key k. *)
Appended(p, q, s, k) ==
    /\ p.nextId = q.nextId + 1
    /\ p.inflight = q.inflight
    /\ \A j \in Ids \ {q.nextId} : p.requests[j] = q.requests[j]
    /\ p.requests[q.nextId].state = "Pending"
    /\ p.requests[q.nextId].scope = s
    /\ p.requests[q.nextId].key = k

LEMMA PushAppends ==
    ASSUME NEW q \in Queue, NEW s \in Scopes, NEW k \in Keys, q.nextId \in Ids,
           NEW p, p = Push(q, s, k)
    PROVE  Appended(p, q, s, k)
  BY PushLemma DEF Appended

LEMMA RequestOf ==
    ASSUME NEW q \in Queue, NEW i \in Ids
    PROVE  /\ q.requests[i] \in Request
           /\ q.requests[i].state \in ActiveStates \cup OverStates \cup {"Absent"}
           /\ q.requests[i].generation \in Nat
           /\ q.requests[i].age \in 0..Horizon
           /\ q.requests[i].scope \in Scopes \cup {None}
           /\ q.requests[i].key \in Keys \cup {None}
  <1>1. q.requests[i] \in Request
    BY DEF Queue
  <1> QED
    BY <1>1 DEF Request

(* Replacing one request by one with another state and generation. *)
LEMMA ReplaceRequest ==
    ASSUME NEW q \in Queue, NEW i \in Ids,
           NEW st \in ActiveStates \cup OverStates, NEW g \in Nat
    PROVE  [q.requests EXCEPT ![i] = [q.requests[i] EXCEPT !.state = st,
                                                           !.generation = g]]
             \in [Ids -> Request]
  <1>1. [q.requests[i] EXCEPT !.state = st, !.generation = g] \in Request
    BY RequestOf, Zenon DEF Request
  <1> QED
    BY <1>1 DEF Queue

LEMMA MarkDecryptingLemma ==
    ASSUME NEW q \in Queue, NEW i \in Ids
    PROVE  /\ MarkDecrypting(q, i) \in Queue
           /\ MarkDecrypting(q, i).nextId = q.nextId
           /\ MarkDecrypting(q, i).inflight = i
           /\ MarkDecrypting(q, i).generation = q.generation + 1
           /\ MarkDecrypting(q, i).sinceFinished = q.sinceFinished
           /\ \A j \in Ids \ {i} : MarkDecrypting(q, i).requests[j] = q.requests[j]
           /\ MarkDecrypting(q, i).requests[i].state = "Decrypting"
           /\ MarkDecrypting(q, i).requests[i].generation = q.generation + 1
           /\ MarkDecrypting(q, i).requests[i].scope = q.requests[i].scope
           /\ MarkDecrypting(q, i).requests[i].key = q.requests[i].key
           /\ MarkDecrypting(q, i).requests[i].age = q.requests[i].age
  <1> DEFINE r == [q.requests[i] EXCEPT !.state = "Decrypting",
                                        !.generation = q.generation + 1]
             f == [q.requests EXCEPT ![i] = r]
  <1>1. q.generation + 1 \in Nat
    BY DEF Queue
  <1>2. f \in [Ids -> Request]
    BY <1>1, ReplaceRequest, Zenon DEF ActiveStates
  <1>3. /\ \A j \in Ids \ {i} : f[j] = q.requests[j]
        /\ f[i] = r
    BY Zenon DEF Queue
  <1>4. /\ r.state = "Decrypting" /\ r.generation = q.generation + 1
        /\ r.scope = q.requests[i].scope /\ r.key = q.requests[i].key
        /\ r.age = q.requests[i].age
    BY RequestOf DEF Request
  <1>5. MarkDecrypting(q, i) =
          [q EXCEPT !.requests = f, !.generation = q.generation + 1, !.inflight = i]
    BY RequestOf, ZenonT(30) DEF MarkDecrypting, Queue, Request
  <1> HIDE DEF f, r
  <1> QED
    BY <1>1, <1>2, <1>3, <1>4, <1>5, Zenon DEF Queue

LEMMA FinishLemma ==
    ASSUME NEW q \in Queue, NEW i \in Ids
    PROVE  /\ Finish(q, i) \in Queue
           /\ Finish(q, i).requests = q.requests
           /\ Finish(q, i).nextId = q.nextId
           /\ Finish(q, i).generation = q.generation
           /\ Finish(q, i).inflight = IF q.inflight = i THEN NoId ELSE q.inflight
           /\ Finish(q, i).sinceFinished = 0
  <1>1. 0 \in 0..Cooldown
    BY QueueAssumption
  <1> QED
    BY <1>1, Zenon DEF Finish, Queue

(* Request i of q with another state and generation. *)
SetOutcome(q, i, st, g) ==
    [q EXCEPT !.requests = [q.requests EXCEPT ![i] = [q.requests[i] EXCEPT
                                                        !.state = st, !.generation = g]]]

LEMMA SetOutcomeLemma ==
    ASSUME NEW q \in Queue, NEW i \in Ids, NEW st \in OverStates, NEW g \in Nat
    PROVE  /\ SetOutcome(q, i, st, g) \in Queue
           /\ SetOutcome(q, i, st, g).nextId = q.nextId
           /\ SetOutcome(q, i, st, g).generation = q.generation
           /\ SetOutcome(q, i, st, g).inflight = q.inflight
           /\ \A j \in Ids \ {i} : SetOutcome(q, i, st, g).requests[j] = q.requests[j]
           /\ SetOutcome(q, i, st, g).requests[i].state = st
           /\ SetOutcome(q, i, st, g).requests[i].scope = q.requests[i].scope
           /\ SetOutcome(q, i, st, g).requests[i].key = q.requests[i].key
  <1> DEFINE r == [q.requests[i] EXCEPT !.state = st, !.generation = g]
             f == [q.requests EXCEPT ![i] = r]
  <1>1. f \in [Ids -> Request]
    BY ReplaceRequest, Zenon
  <1>2. /\ \A j \in Ids \ {i} : f[j] = q.requests[j]
        /\ f[i] = r
    BY Zenon DEF Queue
  <1>3. /\ r.state = st
        /\ r.scope = q.requests[i].scope /\ r.key = q.requests[i].key
    BY RequestOf DEF Request
  <1>4. SetOutcome(q, i, st, g) = [q EXCEPT !.requests = f]
    BY DEF SetOutcome
  <1> HIDE DEF f, r
  <1> QED
    BY <1>1, <1>2, <1>3, <1>4 DEF Queue

(* p is q after its request i ended as st: the hardware is released if i   *)
(* held it, and the cooldown starts.                                       *)
EndedAs(p, q, i, st) ==
    /\ p \in Queue
    /\ p.nextId = q.nextId
    /\ p.generation = q.generation
    /\ p.inflight = IF q.inflight = i THEN NoId ELSE q.inflight
    /\ p.sinceFinished = 0
    /\ \A j \in Ids \ {i} : p.requests[j] = q.requests[j]
    /\ p.requests[i].state = st
    /\ p.requests[i].scope = q.requests[i].scope
    /\ p.requests[i].key = q.requests[i].key

LEMMA FinishOutcome ==
    ASSUME NEW q \in Queue, NEW i \in Ids, NEW st \in OverStates, NEW g \in Nat
    PROVE  EndedAs(Finish(SetOutcome(q, i, st, g), i), q, i, st)
  <1> DEFINE p == SetOutcome(q, i, st, g)
  <1>1. p \in Queue
    BY SetOutcomeLemma
  <1>2. /\ p.nextId = q.nextId /\ p.generation = q.generation
        /\ p.inflight = q.inflight
        /\ \A j \in Ids \ {i} : p.requests[j] = q.requests[j]
        /\ p.requests[i].state = st
        /\ p.requests[i].scope = q.requests[i].scope
        /\ p.requests[i].key = q.requests[i].key
    BY SetOutcomeLemma
  <1> HIDE DEF p
  <1>3. /\ Finish(p, i) \in Queue
        /\ Finish(p, i).requests = p.requests
        /\ Finish(p, i).nextId = p.nextId
        /\ Finish(p, i).generation = p.generation
        /\ Finish(p, i).inflight = IF p.inflight = i THEN NoId ELSE p.inflight
        /\ Finish(p, i).sinceFinished = 0
    BY <1>1, FinishLemma
  <1>4. EndedAs(Finish(p, i), q, i, st)
    BY <1>2, <1>3 DEF EndedAs
  <1> QED
    BY <1>4 DEF p

LEMMA CancelLemma ==
    ASSUME NEW q \in Queue, NEW i \in Ids, NEW st \in OverStates
    PROVE  /\ IsActive(q, i) => EndedAs(Cancel(q, i, st), q, i, st)
           /\ ~IsActive(q, i) => Cancel(q, i, st) = q
  <1> DEFINE g == q.requests[i].generation + 1
  <1>1. g \in Nat
    BY RequestOf
  <1>2. [q EXCEPT !.requests[i].state = st, !.requests[i].generation = @ + 1]
          = SetOutcome(q, i, st, g)
    BY RequestOf, Zenon DEF Queue, Request, SetOutcome
  <1>3. Cancel(q, i, st) = IF IsActive(q, i) THEN Finish(SetOutcome(q, i, st, g), i)
                                             ELSE q
    BY <1>2 DEF Cancel
  <1> HIDE DEF g
  <1> QED
    BY <1>1, <1>3, FinishOutcome

LEMMA SetStateLemma ==
    ASSUME NEW q \in Queue, NEW i \in Ids, NEW st \in OverStates
    PROVE  EndedAs(Finish([q EXCEPT !.requests[i].state = st], i), q, i, st)
  <1> DEFINE g == q.requests[i].generation
  <1>1. g \in Nat
    BY RequestOf
  <1>2. [q EXCEPT !.requests[i].state = st] = SetOutcome(q, i, st, g)
    <2>1. [q.requests[i] EXCEPT !.state = st]
            = [q.requests[i] EXCEPT !.state = st, !.generation = g]
      BY RequestOf, Zenon DEF Request
    <2> QED
      BY <2>1 DEF Queue, SetOutcome
  <1> HIDE DEF g
  <1> QED
    BY <1>1, <1>2, FinishOutcome

LEMMA CompleteLemma ==
    ASSUME NEW q \in Queue, NEW i \in Ids, NEW g
    PROVE  /\ StillCurrent(q, i, g) => EndedAs(Complete(q, i, g), q, i, "Granted")
           /\ ~StillCurrent(q, i, g) => Complete(q, i, g) = Finish(q, i)
  BY SetStateLemma, Zenon DEF Complete, OverStates

LEMMA FailLemma ==
    ASSUME NEW q \in Queue, NEW i \in Ids
    PROVE  /\ StateOf(q, i) # "Absent" => EndedAs(Fail(q, i), q, i, "Failed")
           /\ StateOf(q, i) = "Absent" => Fail(q, i) = Finish(q, i)
  BY SetStateLemma, Zenon DEF Fail, OverStates

LEMMA SweepTimeoutsLemma ==
    ASSUME NEW q \in Queue
    PROVE  LET p == SweepTimeouts(q)
           IN  /\ p \in Queue
               /\ p.nextId = q.nextId
               /\ p.generation = q.generation
               /\ p.inflight = IF q.inflight \in Overdue(q) THEN NoId ELSE q.inflight
               /\ p.sinceFinished = IF Overdue(q) = {} THEN q.sinceFinished ELSE 0
               /\ \A j \in Ids \ Overdue(q) : p.requests[j] = q.requests[j]
               /\ \A j \in Overdue(q) :
                     /\ IsActive(q, j)
                     /\ p.requests[j].state = "TimedOut"
                     /\ p.requests[j].scope = q.requests[j].scope
                     /\ p.requests[j].key = q.requests[j].key
  <1> DEFINE d == Overdue(q)
             f == [j \in Ids |-> IF j \in d
                                 THEN [q.requests[j] EXCEPT !.state = "TimedOut",
                                                            !.generation = @ + 1]
                                 ELSE q.requests[j]]
             n == IF q.inflight \in d THEN NoId ELSE q.inflight
             t == IF d = {} THEN q.sinceFinished ELSE 0
  <1>1. SweepTimeouts(q) = [q EXCEPT !.requests = f, !.inflight = n,
                                     !.sinceFinished = t]
    BY DEF SweepTimeouts, Queue
  <1>2. f \in [Ids -> Request]
    <2>1. ASSUME NEW j \in Ids
          PROVE  [q.requests[j] EXCEPT !.state = "TimedOut", !.generation = @ + 1]
                    \in Request
      <3>1. q.requests[j].generation + 1 \in Nat
        BY RequestOf
      <3> QED
        BY <3>1, RequestOf, Zenon DEF Request, OverStates
    <2> QED
      BY <2>1, RequestOf, Zenon
  <1>3. d \subseteq Ids /\ \A j \in d : IsActive(q, j)
    BY DEF Overdue
  <1>4. \A j \in Ids \ d : f[j] = q.requests[j]
    OBVIOUS
  <1>5. \A j \in d : /\ f[j].state = "TimedOut"
                     /\ f[j].scope = q.requests[j].scope
                     /\ f[j].key = q.requests[j].key
    BY <1>3, RequestOf, ZenonT(30) DEF Request
  <1>6. n \in Ids \cup {NoId} /\ t \in 0..Cooldown
    BY QueueAssumption DEF Queue
  <1> HIDE DEF d, f
  <1>7. SweepTimeouts(q) \in Queue
    BY <1>1, <1>2, <1>6, Zenon DEF Queue
  <1>8. /\ SweepTimeouts(q).requests = f
        /\ SweepTimeouts(q).inflight = n
        /\ SweepTimeouts(q).sinceFinished = t
        /\ SweepTimeouts(q).nextId = q.nextId
        /\ SweepTimeouts(q).generation = q.generation
    BY <1>1 DEF Queue
  <1> QED
    BY <1>3, <1>4, <1>5, <1>7, <1>8 DEF d

LEMMA PruneLemma ==
    ASSUME NEW q \in Queue
    PROVE  /\ Prune(q) \in Queue
           /\ Prune(q).nextId = q.nextId
           /\ Prune(q).generation = q.generation
           /\ Prune(q).inflight = q.inflight
           /\ Prune(q).sinceFinished = q.sinceFinished
           /\ \A j \in Ids : \/ Prune(q).requests[j] = q.requests[j]
                             \/ ~IsActive(q, j) /\ Prune(q).requests[j] = NoRequest
  <1> DEFINE f == [j \in Ids |-> IF IsActive(q, j) \/ q.requests[j].age < Horizon
                                 THEN q.requests[j] ELSE NoRequest]
  <1>1. NoRequest \in Request
    BY QueueAssumption DEF NoRequest, Request, Horizon
  <1>2. f \in [Ids -> Request]
    BY <1>1, RequestOf
  <1>3. Prune(q) = [q EXCEPT !.requests = f]
    BY DEF Prune
  <1>4. \A j \in Ids : \/ f[j] = q.requests[j]
                       \/ ~IsActive(q, j) /\ f[j] = NoRequest
    OBVIOUS
  <1> HIDE DEF f
  <1> QED
    BY <1>2, <1>3, <1>4 DEF Queue

LEMMA AgeQueueLemma ==
    ASSUME NEW q \in Queue
    PROVE  /\ AgeQueue(q) \in Queue
           /\ AgeQueue(q).nextId = q.nextId
           /\ AgeQueue(q).generation = q.generation
           /\ AgeQueue(q).inflight = q.inflight
           /\ AgeQueue(q).sinceFinished = IF q.sinceFinished < Cooldown
                                          THEN q.sinceFinished + 1
                                          ELSE q.sinceFinished
           /\ \A j \in Ids :
                 /\ AgeQueue(q).requests[j].state = q.requests[j].state
                 /\ AgeQueue(q).requests[j].generation = q.requests[j].generation
                 /\ AgeQueue(q).requests[j].scope = q.requests[j].scope
                 /\ AgeQueue(q).requests[j].key = q.requests[j].key
  <1> DEFINE f == [j \in Ids |->
                     IF StateOf(q, j) = "Absent" \/ q.requests[j].age = Horizon
                     THEN q.requests[j]
                     ELSE [q.requests[j] EXCEPT !.age = @ + 1]]
             t == IF q.sinceFinished < Cooldown THEN q.sinceFinished + 1
                  ELSE q.sinceFinished
  <1>1. f \in [Ids -> Request]
    <2>1. ASSUME NEW j \in Ids, q.requests[j].age # Horizon
          PROVE  [q.requests[j] EXCEPT !.age = @ + 1] \in Request
      <3>1. q.requests[j].age + 1 \in 0..Horizon
        BY <2>1, RequestOf, QueueAssumption DEF Horizon
      <3> QED
        BY <3>1, RequestOf DEF Request
    <2> QED
      BY <2>1, RequestOf
  <1>2. \A j \in Ids : /\ f[j].state = q.requests[j].state
                      /\ f[j].generation = q.requests[j].generation
                      /\ f[j].scope = q.requests[j].scope
                      /\ f[j].key = q.requests[j].key
    BY RequestOf DEF Request
  <1>3. t \in 0..Cooldown
    BY QueueAssumption DEF Queue
  <1>4. AgeQueue(q) = [q EXCEPT !.requests = f, !.sinceFinished = t]
    BY DEF AgeQueue, Queue
  <1> HIDE DEF f
  <1> QED
    BY <1>1, <1>2, <1>3, <1>4, Zenon DEF Queue

-----------------------------------------------------------------------------
(* Every request in the queue names a scope and a key. *)

QueueOK(q) ==
    /\ q \in Queue
    /\ \A i \in Ids : StateOf(q, i) # "Absent" =>
          q.requests[i].scope \in Scopes /\ q.requests[i].key \in Keys

LEMMA NewQueueOK == QueueOK(NewQueue)
  BY NewQueueType, ZenonT(30) DEF QueueOK, NewQueue, NoRequest, StateOf

LEMMA PushOK ==
    ASSUME NEW q, QueueOK(q), NEW s \in Scopes, NEW k \in Keys, q.nextId \in Ids
    PROVE  QueueOK(Push(q, s, k))
  <1>1. q \in Queue
    BY DEF QueueOK
  <1>2. ASSUME NEW j \in Ids, Push(q, s, k).requests[j].state # "Absent"
        PROVE  /\ Push(q, s, k).requests[j].scope \in Scopes
               /\ Push(q, s, k).requests[j].key \in Keys
    <2>1. CASE j = q.nextId
      BY <1>1, <2>1, PushLemma
    <2>2. CASE j # q.nextId
      <3>1. Push(q, s, k).requests[j] = q.requests[j]
        BY <1>1, <2>2, PushLemma
      <3> QED
        BY <3>1, <1>2 DEF QueueOK, StateOf
    <2> QED
      BY <2>1, <2>2
  <1> QED
    BY <1>1, <1>2, PushLemma DEF QueueOK, StateOf

LEMMA MarkDecryptingOK ==
    ASSUME NEW q, QueueOK(q), NEW i \in Ids, StateOf(q, i) # "Absent"
    PROVE  QueueOK(MarkDecrypting(q, i))
  <1>1. q \in Queue
    BY DEF QueueOK
  <1>2. ASSUME NEW j \in Ids, MarkDecrypting(q, i).requests[j].state # "Absent"
        PROVE  /\ MarkDecrypting(q, i).requests[j].scope \in Scopes
               /\ MarkDecrypting(q, i).requests[j].key \in Keys
    <2>1. CASE j = i
      BY <1>1, <2>1, MarkDecryptingLemma DEF QueueOK, StateOf
    <2>2. CASE j # i
      <3>1. MarkDecrypting(q, i).requests[j] = q.requests[j]
        BY <1>1, <2>2, MarkDecryptingLemma
      <3> QED
        BY <3>1, <1>2 DEF QueueOK, StateOf
    <2> QED
      BY <2>1, <2>2
  <1> QED
    BY <1>1, <1>2, MarkDecryptingLemma DEF QueueOK, StateOf

LEMMA FinishOK ==
    ASSUME NEW q, QueueOK(q), NEW i \in Ids
    PROVE  QueueOK(Finish(q, i))
  BY FinishLemma DEF QueueOK, StateOf

LEMMA EndedOK ==
    ASSUME NEW q, QueueOK(q), NEW i \in Ids, NEW st, NEW p,
           EndedAs(p, q, i, st), StateOf(q, i) # "Absent"
    PROVE  QueueOK(p)
  <1>1. ASSUME NEW j \in Ids, StateOf(p, j) # "Absent"
        PROVE  p.requests[j].scope \in Scopes /\ p.requests[j].key \in Keys
    <2>1. CASE j = i
      BY <2>1 DEF EndedAs, QueueOK
    <2>2. CASE j # i
      BY <1>1, <2>2 DEF EndedAs, QueueOK, StateOf
    <2> QED
      BY <2>1, <2>2
  <1> QED
    BY <1>1 DEF QueueOK, EndedAs

LEMMA CancelOK ==
    ASSUME NEW q, QueueOK(q), NEW i \in Ids, NEW st \in OverStates
    PROVE  QueueOK(Cancel(q, i, st))
  <1>1. CASE IsActive(q, i)
    <2>1. EndedAs(Cancel(q, i, st), q, i, st) /\ StateOf(q, i) # "Absent"
      BY <1>1, CancelLemma DEF QueueOK, IsActive, ActiveStates
    <2> QED
      BY <2>1, EndedOK
  <1>2. CASE ~IsActive(q, i)
    BY <1>2, CancelLemma DEF QueueOK
  <1> QED
    BY <1>1, <1>2

LEMMA CompleteOK ==
    ASSUME NEW q, QueueOK(q), NEW i \in Ids, NEW g
    PROVE  QueueOK(Complete(q, i, g))
  <1>1. CASE StillCurrent(q, i, g)
    <2>1. EndedAs(Complete(q, i, g), q, i, "Granted") /\ StateOf(q, i) # "Absent"
      BY <1>1, CompleteLemma DEF QueueOK, StillCurrent
    <2> QED
      BY <2>1, EndedOK
  <1>2. CASE ~StillCurrent(q, i, g)
    BY <1>2, CompleteLemma, FinishOK DEF QueueOK
  <1> QED
    BY <1>1, <1>2

LEMMA FailOK ==
    ASSUME NEW q, QueueOK(q), NEW i \in Ids
    PROVE  QueueOK(Fail(q, i))
  <1>1. CASE StateOf(q, i) # "Absent"
    <2>1. EndedAs(Fail(q, i), q, i, "Failed")
      BY <1>1, FailLemma DEF QueueOK
    <2> QED
      BY <1>1, <2>1, EndedOK
  <1>2. CASE StateOf(q, i) = "Absent"
    BY <1>2, FailLemma, FinishOK, Zenon DEF QueueOK
  <1> QED
    BY <1>1, <1>2

LEMMA SweepTimeoutsOK ==
    ASSUME NEW q, QueueOK(q)
    PROVE  QueueOK(SweepTimeouts(q))
  <1>1. q \in Queue
    BY DEF QueueOK
  <1>2. ASSUME NEW j \in Ids, SweepTimeouts(q).requests[j].state # "Absent"
        PROVE  /\ SweepTimeouts(q).requests[j].scope \in Scopes
               /\ SweepTimeouts(q).requests[j].key \in Keys
    <2>1. CASE j \in Overdue(q)
      <3>1. /\ SweepTimeouts(q).requests[j].scope = q.requests[j].scope
            /\ SweepTimeouts(q).requests[j].key = q.requests[j].key
            /\ IsActive(q, j)
        BY <1>1, <2>1, SweepTimeoutsLemma
      <3> QED
        BY <3>1 DEF QueueOK, IsActive, ActiveStates
    <2>2. CASE j \notin Overdue(q)
      <3>1. SweepTimeouts(q).requests[j] = q.requests[j]
        BY <1>1, <2>2, SweepTimeoutsLemma
      <3> QED
        BY <3>1, <1>2 DEF QueueOK, StateOf
    <2> QED
      BY <2>1, <2>2
  <1> QED
    BY <1>1, <1>2, SweepTimeoutsLemma DEF QueueOK, StateOf

LEMMA PruneOK ==
    ASSUME NEW q, QueueOK(q)
    PROVE  QueueOK(Prune(q))
  <1>1. q \in Queue
    BY DEF QueueOK
  <1>2. NoRequest.state = "Absent"
    BY DEF NoRequest
  <1> QED
    BY <1>1, <1>2, PruneLemma DEF QueueOK, StateOf

LEMMA AgeQueueOK ==
    ASSUME NEW q, QueueOK(q)
    PROVE  QueueOK(AgeQueue(q))
  <1>1. q \in Queue
    BY DEF QueueOK
  <1> QED
    BY <1>1, AgeQueueLemma DEF QueueOK, StateOf

-----------------------------------------------------------------------------
(* The hardware is held exactly for the request that is Decrypting, and    *)
(* the ids from nextId on are unused.                                      *)

FlightOK(q) == \A i \in Ids : StateOf(q, i) = "Decrypting" <=> q.inflight = i

Fresh(q) == \A i \in Ids : i >= q.nextId => StateOf(q, i) = "Absent"

SameRequest(p, q, i) ==
    /\ p.requests[i].state = q.requests[i].state
    /\ p.requests[i].generation = q.requests[i].generation
    /\ p.requests[i].scope = q.requests[i].scope
    /\ p.requests[i].key = q.requests[i].key

(* Every method but enqueue and mark_decrypting leaves a request alone, or *)
(* ends it without holding the hardware for it; it grants only a request   *)
(* that was Decrypting.                                                    *)
Retires(p, q) ==
    /\ p \in Queue
    /\ p.nextId = q.nextId
    /\ p.inflight \in {q.inflight, NoId}
    /\ \A j \in Ids :
          \/ SameRequest(p, q, j) /\ (p.inflight = j <=> q.inflight = j)
          \/ /\ ~IsActive(p, j)
             /\ p.inflight # j
             /\ StateOf(q, j) = "Absent" => StateOf(p, j) = "Absent"
             /\ StateOf(p, j) = "Granted" => StateOf(q, j) \in {"Decrypting", "Granted"}

LEMMA RetiresKeeps ==
    ASSUME NEW q \in Queue, NEW p, Retires(p, q), FlightOK(q), Fresh(q)
    PROVE  FlightOK(p) /\ Fresh(p)
  BY DEF Retires, FlightOK, Fresh, SameRequest, StateOf, IsActive, ActiveStates

LEMMA NoIdNotInIds == NoId \notin Ids
  BY DEF NoId, Ids

LEMMA RetiresRefl ==
    ASSUME NEW q \in Queue
    PROVE  Retires(q, q)
  BY Zenon DEF Retires, SameRequest

LEMMA RetiresTrans ==
    ASSUME NEW o \in Queue, NEW q, NEW p, Retires(q, o), Retires(p, q)
    PROVE  Retires(p, o)
  <1>1. ASSUME NEW j \in Ids
        PROVE  \/ SameRequest(p, o, j) /\ (p.inflight = j <=> o.inflight = j)
               \/ /\ ~IsActive(p, j)
                  /\ p.inflight # j
                  /\ StateOf(o, j) = "Absent" => StateOf(p, j) = "Absent"
                  /\ StateOf(p, j) = "Granted" => StateOf(o, j) \in {"Decrypting", "Granted"}
    BY DEF Retires, SameRequest, StateOf, IsActive, ActiveStates
  <1> QED
    BY <1>1, Zenon DEF Retires

LEMMA EndedRetires ==
    ASSUME NEW q \in Queue, NEW i \in Ids, NEW st \in OverStates, NEW p,
           EndedAs(p, q, i, st), StateOf(q, i) # "Absent",
           st = "Granted" => StateOf(q, i) = "Decrypting"
    PROVE  Retires(p, q)
  <1>1. /\ p \in Queue /\ p.nextId = q.nextId
        /\ p.inflight = IF q.inflight = i THEN NoId ELSE q.inflight
        /\ \A j \in Ids \ {i} : p.requests[j] = q.requests[j]
        /\ StateOf(p, i) = st
    BY DEF EndedAs, StateOf
  <1>2. ASSUME NEW j \in Ids, j # i
        PROVE  SameRequest(p, q, j) /\ (p.inflight = j <=> q.inflight = j)
    BY <1>1, <1>2, NoIdNotInIds DEF SameRequest
  <1>3. ~IsActive(p, i) /\ p.inflight # i
    BY <1>1, NoIdNotInIds DEF IsActive, ActiveStates, OverStates
  <1> QED
    BY <1>1, <1>2, <1>3 DEF Retires

LEMMA CancelRetires ==
    ASSUME NEW q \in Queue, NEW i \in Ids, NEW st \in {"Denied", "TimedOut"}
    PROVE  /\ Retires(Cancel(q, i, st), q)
           /\ ~IsActive(Cancel(q, i, st), i)
           /\ Cancel(q, i, st).sinceFinished \in {0, q.sinceFinished}
  <1>0. st \in OverStates /\ st # "Granted"
    BY DEF OverStates
  <1>1. CASE IsActive(q, i)
    <2>1. EndedAs(Cancel(q, i, st), q, i, st) /\ StateOf(q, i) # "Absent"
      BY <1>0, <1>1, CancelLemma DEF IsActive, ActiveStates
    <2>2. Retires(Cancel(q, i, st), q)
      BY <1>0, <2>1, EndedRetires, Zenon
    <2> QED
      BY <1>0, <2>1, <2>2 DEF EndedAs, IsActive, StateOf, ActiveStates, OverStates
  <1>2. CASE ~IsActive(q, i)
    <2>1. Cancel(q, i, st) = q
      BY <1>0, <1>2, CancelLemma, Zenon
    <2> QED
      BY <1>2, <2>1 DEF Retires, SameRequest
  <1> QED
    BY <1>1, <1>2

LEMMA FinishRetires ==
    ASSUME NEW q \in Queue, NEW i \in Ids, q.inflight # i
    PROVE  Retires(Finish(q, i), q)
  BY FinishLemma, Zenon DEF Retires, SameRequest

LEMMA CompleteRetires ==
    ASSUME NEW q \in Queue, NEW i \in Ids, NEW g, FlightOK(q),
           StateOf(q, i) = "Decrypting" => q.requests[i].generation = g
    PROVE  /\ Retires(Complete(q, i, g), q)
           /\ Complete(q, i, g).inflight # i
           /\ Complete(q, i, g).sinceFinished = 0
  <1>1. CASE StillCurrent(q, i, g)
    <2>1. EndedAs(Complete(q, i, g), q, i, "Granted")
      BY <1>1, CompleteLemma
    <2>2. Retires(Complete(q, i, g), q)
      BY <1>1, <2>1, EndedRetires, Zenon DEF StillCurrent, OverStates
    <2> QED
      BY <2>1, <2>2, NoIdNotInIds DEF EndedAs
  <1>2. CASE ~StillCurrent(q, i, g)
    <2>1. Complete(q, i, g) = Finish(q, i) /\ q.inflight # i
      BY <1>2, CompleteLemma DEF StillCurrent, FlightOK
    <2> QED
      BY <2>1, FinishRetires, FinishLemma
  <1> QED
    BY <1>1, <1>2, Zenon

LEMMA FailRetires ==
    ASSUME NEW q \in Queue, NEW i \in Ids, FlightOK(q)
    PROVE  /\ Retires(Fail(q, i), q)
           /\ Fail(q, i).inflight # i
           /\ Fail(q, i).sinceFinished = 0
  <1>1. CASE StateOf(q, i) # "Absent"
    <2>1. EndedAs(Fail(q, i), q, i, "Failed")
      BY <1>1, FailLemma
    <2>2. Retires(Fail(q, i), q)
      BY <1>1, <2>1, EndedRetires DEF OverStates
    <2> QED
      BY <2>1, <2>2, NoIdNotInIds DEF EndedAs
  <1>2. CASE StateOf(q, i) = "Absent"
    <2>1. Fail(q, i) = Finish(q, i) /\ q.inflight # i
      BY <1>2, FailLemma DEF FlightOK
    <2> QED
      BY <2>1, FinishRetires, FinishLemma
  <1> QED
    BY <1>1, <1>2, Zenon

LEMMA SweepTimeoutsRetires ==
    ASSUME NEW q \in Queue
    PROVE  Retires(SweepTimeouts(q), q)
  <1> DEFINE p == SweepTimeouts(q)
  <1>1. /\ p \in Queue /\ p.nextId = q.nextId
        /\ p.inflight = IF q.inflight \in Overdue(q) THEN NoId ELSE q.inflight
        /\ \A j \in Ids \ Overdue(q) : p.requests[j] = q.requests[j]
        /\ \A j \in Overdue(q) : IsActive(q, j) /\ StateOf(p, j) = "TimedOut"
    BY SweepTimeoutsLemma DEF StateOf
  <1> HIDE DEF p
  <1>2. ASSUME NEW j \in Ids, j \notin Overdue(q)
        PROVE  SameRequest(p, q, j) /\ (p.inflight = j <=> q.inflight = j)
    BY <1>1, <1>2, NoIdNotInIds DEF SameRequest
  <1>3. ASSUME NEW j \in Ids, j \in Overdue(q)
        PROVE  /\ ~IsActive(p, j) /\ p.inflight # j
               /\ StateOf(q, j) # "Absent" /\ StateOf(p, j) # "Granted"
    BY <1>1, <1>3, NoIdNotInIds, Zenon DEF IsActive, ActiveStates
  <1>4. Retires(p, q)
    BY <1>1, <1>2, <1>3 DEF Retires
  <1> QED
    BY <1>4, Zenon DEF p

LEMMA PruneRetires ==
    ASSUME NEW q \in Queue, FlightOK(q)
    PROVE  Retires(Prune(q), q)
  <1> DEFINE p == Prune(q)
  <1>1. /\ p \in Queue /\ p.nextId = q.nextId /\ p.inflight = q.inflight
        /\ \A j \in Ids : \/ p.requests[j] = q.requests[j]
                          \/ ~IsActive(q, j) /\ p.requests[j] = NoRequest
    BY PruneLemma
  <1>2. NoRequest.state = "Absent"
    BY DEF NoRequest
  <1> HIDE DEF p
  <1>3. ASSUME NEW j \in Ids, ~IsActive(q, j), p.requests[j] = NoRequest
        PROVE  /\ ~IsActive(p, j) /\ p.inflight # j /\ StateOf(p, j) = "Absent"
    BY <1>1, <1>2, <1>3, Zenon DEF IsActive, ActiveStates, StateOf, FlightOK
  <1>4. Retires(p, q)
    BY <1>1, <1>3, Zenon DEF Retires, SameRequest
  <1> QED
    BY <1>4 DEF p

LEMMA AgeQueueRetires ==
    ASSUME NEW q \in Queue
    PROVE  Retires(AgeQueue(q), q)
  <1> DEFINE p == AgeQueue(q)
  <1>1. /\ p \in Queue /\ p.nextId = q.nextId /\ p.inflight = q.inflight
        /\ \A j \in Ids : SameRequest(p, q, j)
    BY AgeQueueLemma DEF SameRequest
  <1> HIDE DEF p
  <1>2. Retires(p, q)
    BY <1>1 DEF Retires
  <1> QED
    BY <1>2 DEF p

-----------------------------------------------------------------------------
(* Types.  Besides its type, what a thread carries has to name a scope and *)
(* a key once it has resolved them, and a request once it waits on one.    *)

ConnOK(r) ==
    /\ r \in Conn
    /\ r.pc \in {"await", "waiting", "fetch", "mint"} =>
          /\ r.scope \in Scopes
          /\ r.key \in Keys
          /\ r.op = "AUTHORIZE" => r.key \in CapKeys
    /\ r.pc \in {"waiting", "mint"} => r.id \in Ids
    /\ r.pc = "mint" => r.op = "AUTHORIZE"

WorkerOK(w) ==
    /\ w \in Worker
    /\ w.pc # "idle" => w.id \in Ids /\ w.scope \in Scopes /\ w.key \in Keys

TypeInv ==
    /\ TypeOK
    /\ QueueOK(queue)
    /\ \A c \in Conns : ConnOK(conn[c])
    /\ WorkerOK(worker)

LEMMA RegistryTypes ==
    ASSUME NEW r \in Registry
    PROVE  /\ \A t \in Tokens, s \in Sessions : Register(r, t, s) \in Registry
           /\ \A s \in Sessions : Unregister(r, s) \in Registry
           /\ \A t \in Tokens \cup {None}, y \in Ttys \cup {None} :
                 LearnTty(r, t, y) \in Registry
  <1>1. ASSUME NEW t \in Tokens, NEW s \in Sessions
        PROVE  Register(r, t, s) \in Registry
    BY Zenon DEF Register, Registry, TokensOf
  <1>2. ASSUME NEW s \in Sessions
        PROVE  Unregister(r, s) \in Registry
    BY Zenon DEF Unregister, Registry, TokensOf
  <1>3. ASSUME NEW t \in Tokens \cup {None}, NEW y \in Ttys \cup {None}
        PROVE  LearnTty(r, t, y) \in Registry
    BY DEF LearnTty, Registry
  <1> QED
    BY <1>1, <1>2, <1>3

LEMMA InsertGrantType ==
    ASSUME NEW gs \in SUBSET Grant, NEW s \in Scopes, NEW k \in Keys,
           NEW v \in Nat, NEW i \in Ids
    PROVE  InsertGrant(gs, s, k, v, i) \subseteq Grant
  <1>1. [scope |-> s, key |-> k, version |-> v, age |-> 0, request |-> i] \in Grant
    BY GrantsAssumption DEF Grant, Ids
  <1> QED
    BY <1>1 DEF InsertGrant, Revoke

LEMMA AgeGrantsType ==
    ASSUME NEW gs \in SUBSET Grant
    PROVE  AgeGrants(gs) \subseteq Grant
  <1>1. ASSUME NEW g \in Grant
        PROVE  [g EXCEPT !.age = IF @ < MaxGrant THEN @ + 1 ELSE @] \in Grant
    <2>1. (IF g.age < MaxGrant THEN g.age + 1 ELSE g.age) \in 0..MaxGrant
      BY GrantsAssumption DEF Grant
    <2> QED
      BY <2>1 DEF Grant
  <1> QED
    BY <1>1 DEF AgeGrants

LEMMA ReceiptTypes ==
    ASSUME NEW rs \in SUBSET Receipt
    PROVE  /\ SweepReceipts(rs) \subseteq Receipt
           /\ \A r, cap : Redeem(rs, r, cap) \subseteq Receipt
           /\ \A i \in Ids, n \in Nat, k \in CapKeys :
                 MintReceipt(rs, i, n, k) \subseteq Receipt
           /\ AgeReceipts(rs) \subseteq Receipt
  <1>1. SweepReceipts(rs) \subseteq Receipt
    BY DEF SweepReceipts
  <1>2. \A r, cap : Redeem(rs, r, cap) \subseteq Receipt
    BY <1>1 DEF Redeem
  <1>3. ASSUME NEW i \in Ids, NEW n \in Nat, NEW k \in CapKeys
        PROVE  MintReceipt(rs, i, n, k) \subseteq Receipt
    <2>1. [request |-> i, serial |-> n, cap |-> k, age |-> 0] \in Receipt
      BY ReceiptsAssumption DEF Receipt
    <2> QED
      BY <1>1, <2>1 DEF MintReceipt
  <1>4. ASSUME NEW r \in Receipt
        PROVE  [r EXCEPT !.age = IF @ < ReceiptTtl THEN @ + 1 ELSE @] \in Receipt
    <2>1. (IF r.age < ReceiptTtl THEN r.age + 1 ELSE r.age) \in 0..ReceiptTtl
      BY ReceiptsAssumption DEF Receipt
    <2> QED
      BY <2>1 DEF Receipt
  <1>5. AgeReceipts(rs) \subseteq Receipt
    BY <1>4 DEF AgeReceipts
  <1> QED
    BY <1>1, <1>2, <1>3, <1>5

LEMMA KillActiveType ==
    ASSUME TypeOK, NEW ids, KillActive(ids)
    PROVE  active' \in Ids \cup {NoId} /\ child' \in Child
  BY DEF TypeOK, KillActive, KillGroup, Child

(* What a handler may turn its local state into. *)

LEMMA AnsweredOK ==
    ASSUME NEW a \in Answers
    PROVE  ConnOK([NewConn EXCEPT !.pc = "done", !.answer = a])
  <1>1. 0 \in 0..(Ttl + 1)
    BY QueueAssumption
  <1> QED
    BY <1>1, Zenon DEF ConnOK, Conn, NewConn

LEMMA BytesOK ==
    ASSUME NEW i \in Ids \cup {NoId}, NEW n \in Nat, NEW v \in Nat
    PROVE  ConnOK([NewConn EXCEPT !.pc = "done", !.answer = "BYTES", !.id = i,
                                  !.seen = n, !.served = v])
  <1>1. 0 \in 0..(Ttl + 1)
    BY QueueAssumption
  <1>2. "BYTES" \in Answers
    BY DEF Answers
  <1> QED
    BY <1>1, <1>2, ZenonT(60) DEF ConnOK, Conn, NewConn

LEMMA ResolvingOK ==
    ASSUME NEW r, ConnOK(r), NEW n \in Nat, "AUTHORIZE" \in Ops
    PROVE  ConnOK([r EXCEPT !.pc = "resolve", !.op = "AUTHORIZE", !.epoch = n])
  BY ZenonT(60) DEF ConnOK, Conn

LEMMA AwaitingOK ==
    ASSUME NEW r, ConnOK(r), NEW op \in Ops, NEW k \in Keys, NEW s \in Scopes,
           NEW v \in Nat, NEW n \in Nat, op = "AUTHORIZE" => k \in CapKeys
    PROVE  ConnOK([r EXCEPT !.pc = "await", !.op = op, !.key = k, !.scope = s,
                            !.seen = v, !.reg = n])
  BY ZenonT(60) DEF ConnOK, Conn

LEMMA WaitingOK ==
    ASSUME NEW r, ConnOK(r), r.pc = "await", NEW i \in Ids
    PROVE  ConnOK([r EXCEPT !.pc = "waiting", !.id = i, !.waited = 0])
  <1>1. 0 \in 0..(Ttl + 1)
    BY QueueAssumption
  <1> QED
    BY <1>1, ZenonT(60) DEF ConnOK, Conn

LEMMA FetchingOK ==
    ASSUME NEW r, ConnOK(r), r.pc \in {"await", "waiting"}
    PROVE  ConnOK([r EXCEPT !.pc = "fetch"])
  BY DEF ConnOK, Conn

LEMMA MintingOK ==
    ASSUME NEW r, ConnOK(r), r.pc = "waiting", r.op = "AUTHORIZE"
    PROVE  ConnOK([r EXCEPT !.pc = "mint"])
  BY DEF ConnOK, Conn

LEMMA WaitedOK ==
    ASSUME NEW r, ConnOK(r), r.pc = "waiting", r.waited <= Ttl
    PROVE  ConnOK([r EXCEPT !.waited = @ + 1])
  <1>1. r.waited + 1 \in 0..(Ttl + 1)
    BY QueueAssumption DEF ConnOK, Conn
  <1> QED
    BY <1>1 DEF ConnOK, Conn

LEMMA ConnUpdate ==
    ASSUME conn \in [Conns -> Conn], \A c \in Conns : ConnOK(conn[c]),
           NEW c \in Conns, NEW r, ConnOK(r),
           conn' = [conn EXCEPT ![c] = r]
    PROVE  conn' \in [Conns -> Conn] /\ \A d \in Conns : ConnOK(conn'[d])
  <1>1. r \in Conn
    BY DEF ConnOK
  <1> QED
    BY <1>1

LEMMA AnswerType ==
    ASSUME conn \in [Conns -> Conn], \A c \in Conns : ConnOK(conn[c]),
           NEW c \in Conns, NEW a \in Answers, Answer(c, a)
    PROVE  conn' \in [Conns -> Conn] /\ \A d \in Conns : ConnOK(conn'[d])
  <1> DEFINE r == [NewConn EXCEPT !.pc = "done", !.answer = a]
  <1>1. ConnOK(r)
    BY AnsweredOK, Zenon
  <1>2. conn' = [conn EXCEPT ![c] = r]
    BY Zenon DEF Answer
  <1> HIDE DEF r
  <1> QED
    BY <1>1, <1>2, ConnUpdate, Zenon

LEMMA TypeInit == Init => TypeInv
  <1> SUFFICES ASSUME Init PROVE TypeInv
    BY Zenon
  <1>1. ConnOK(NewConn)
    <2>1. 0 \in 0..(Ttl + 1)
      BY QueueAssumption
    <2> QED
      BY <2>1 DEF ConnOK, Conn, NewConn
  <1>2. conn \in [Conns -> Conn] /\ \A c \in Conns : ConnOK(conn[c])
    <2>1. NewConn \in Conn
      BY <1>1, Zenon DEF ConnOK
    <2> QED
      BY <1>1, <2>1 DEF Init
  <1>3. WorkerOK(worker) /\ worker \in Worker
    <2>1. 0 \in 0..Ttl
      BY QueueAssumption
    <2> QED
      BY <2>1 DEF Init, WorkerOK, Worker, IdleWorker
  <1>4. QueueOK(queue) /\ queue \in Queue
    BY NewQueueOK, Zenon DEF Init, QueueOK
  <1>5. registry \in Registry
    BY DEF Init, NewRegistry, Registry
  <1>6. touch \in [age : 0..TouchCache, id : Ids \cup {NoId}]
    BY BrokerAssumption DEF Init
  <1>7. ceremony \in [Ids -> Ceremony]
    <2>1. <<>> \in Seq(CapKeys)
      OBVIOUS
    <2>2. NoCeremony \in Ceremony
      BY <2>1 DEF NoCeremony, Ceremony
    <2> QED
      BY <2>2 DEF Init
  <1>8. files \in [Keys -> File] /\ child \in Child
    BY Zenon DEF Init, File, Child
  <1> QED
    BY <1>2, <1>3, <1>4, <1>5, <1>6, <1>7, <1>8, Zenon DEF Init, TypeInv, TypeOK

LEMMA CommandType ==
    ASSUME TypeInv, Command
    PROVE  TypeInv'
  <1> USE DEF TypeInv, core, outside, history
  <1>1. ASSUME NEW t \in Tokens, NEW s \in Sessions, RegisterSession(t, s)
        PROVE  TypeInv'
    <2>1. registry' \in Registry
      BY <1>1, RegistryTypes, Zenon DEF RegisterSession, TypeOK
    <2>2. grants' \subseteq Grant
      BY <1>1, Zenon DEF RegisterSession, RevokeTokens, TypeOK
    <2>3. regs' \in [Tokens -> Nat]
      BY <1>1 DEF RegisterSession, TypeOK
    <2> QED
      BY <1>1, <2>1, <2>2, <2>3, Zenon DEF RegisterSession, TypeOK
  <1>2. ASSUME NEW s \in Sessions, UnregisterSession(s)
        PROVE  TypeInv'
    <2>1. registry' \in Registry
      BY <1>2, RegistryTypes, Zenon DEF UnregisterSession, TypeOK
    <2>2. grants' \subseteq Grant
      BY <1>2, Zenon DEF UnregisterSession, RevokeTokens, TypeOK
    <2> QED
      BY <1>2, <2>1, <2>2, Zenon DEF UnregisterSession, TypeOK
  <1>3. ASSUME NEW i \in Ids, DenyRequest(i)
        PROVE  TypeInv'
    <2>1. QueueOK(queue') /\ queue' \in Queue
      BY <1>3, CancelOK DEF DenyRequest, Deny, OverStates, QueueOK
    <2>2. active' \in Ids \cup {NoId} /\ child' \in Child
      BY <1>3, KillActiveType, Zenon DEF DenyRequest
    <2> QED
      BY <1>3, <2>1, <2>2, Zenon DEF DenyRequest, TypeOK
  <1>4. ASSUME Lock
        PROVE  TypeInv'
    <2>1. QueueOK(queue') /\ queue' \in Queue
      <3>1. active \in Ids \cup {NoId}
        BY DEF TypeOK
      <3> QED
        BY <1>4, <3>1, CancelOK, Zenon DEF Lock, Deny, OverStates, QueueOK
    <2>2. active' \in Ids \cup {NoId} /\ child' \in Child
      <3>1. CASE active = NoId
        BY <1>4, <3>1, Zenon DEF Lock, TypeOK
      <3>2. CASE active # NoId
        BY <1>4, <3>2, KillActiveType, Zenon DEF Lock
      <3> QED
        BY <3>1, <3>2, Zenon
    <2>3. lockEpoch' \in Nat
      BY <1>4 DEF Lock, TypeOK
    <2> QED
      BY <1>4, <2>1, <2>2, <2>3, Zenon DEF Lock, TypeOK
  <1>5. ASSUME NEW r \in receipts, NEW cap \in CapKeys, RedeemReceipt(r, cap)
        PROVE  TypeInv'
    <2>1. receipts' \subseteq Receipt
      BY <1>5, ReceiptTypes, Zenon DEF RedeemReceipt, TypeOK
    <2>2. ceremony' \in [Ids -> Ceremony]
      <3>1. r.request \in Ids
        BY DEF TypeOK, Receipt
      <3>2. ceremony[r.request] \in Ceremony
        BY <3>1, Zenon DEF TypeOK
      <3>3. Append(ceremony[r.request].redeemed, cap) \in Seq(CapKeys)
        BY <3>2 DEF Ceremony
      <3>4. [ceremony[r.request] EXCEPT !.redeemed = Append(@, cap)] \in Ceremony
        BY <3>2, <3>3, Zenon DEF Ceremony
      <3>5. ceremony' = ceremony \/
            ceremony' = [ceremony EXCEPT ![r.request] =
                           [ceremony[r.request] EXCEPT !.redeemed = Append(@, cap)]]
        BY <1>5 DEF RedeemReceipt
      <3> QED
        BY <3>4, <3>5, Zenon DEF TypeOK
    <2> QED
      BY <1>5, <2>1, <2>2 DEF RedeemReceipt, TypeOK
  <1> QED
    BY <1>1, <1>2, <1>3, <1>4, <1>5, Zenon DEF Command

LEMMA ArriveType ==
    ASSUME TypeInv, NEW c \in Conns, Arrive(c)
    PROVE  TypeInv'
  <1> USE DEF TypeInv, core, outside, history
  <1>1. conn \in [Conns -> Conn] /\ ConnOK(conn[c])
    BY DEF TypeOK
  <1>2. CASE BeginAuthorize(c)
    <2>1. ConnOK([conn[c] EXCEPT !.pc = "resolve", !.op = "AUTHORIZE",
                                 !.epoch = lockEpoch])
      BY <1>1, <1>2, ResolvingOK, Zenon DEF BeginAuthorize, TypeOK
    <2>2. conn' \in [Conns -> Conn] /\ \A d \in Conns : ConnOK(conn'[d])
      BY <1>1, <1>2, <2>1, ConnUpdate, Zenon DEF BeginAuthorize
    <2> QED
      BY <1>2, <2>2 DEF BeginAuthorize, TypeOK
  <1>3. CASE RefuseCapabilityKey(c)
    <2>1. conn' \in [Conns -> Conn] /\ \A d \in Conns : ConnOK(conn'[d])
      BY <1>1, <1>3, AnswerType DEF RefuseCapabilityKey, Answers, FileErrors
    <2> QED
      BY <1>3, <2>1, Zenon DEF RefuseCapabilityKey, TypeOK
  <1>4. ASSUME NEW op \in Ops, NEW k \in Keys, NEW t \in Tokens \cup {None},
               NEW y \in Ttys \cup {None}, ResolveAccess(c, op, k, t, y)
        PROVE  TypeInv'
    <2>1. ResolvedScope(t, y) \in Scopes
      BY <1>4, GrantsAssumption
      DEF ResolveAccess, ResolveVerdict, ResolvedScope, Scopes
    <2>2. op = "AUTHORIZE" => k \in CapKeys
      BY <1>4, Zenon DEF ResolveAccess, MayResolve
    <2>3. files[k].version \in Nat
      BY DEF TypeOK, File
    <2>4. (IF t # None THEN regs[t] ELSE 0) \in Nat
      BY DEF TypeOK
    <2>5. ConnOK([conn[c] EXCEPT !.pc = "await", !.op = op, !.key = k,
                                 !.scope = ResolvedScope(t, y),
                                 !.seen = files[k].version,
                                 !.reg = IF t # None THEN regs[t] ELSE 0])
      BY <1>1, <2>1, <2>2, <2>3, <2>4, AwaitingOK, Zenon
    <2>6. conn' \in [Conns -> Conn] /\ \A d \in Conns : ConnOK(conn'[d])
      BY <1>1, <1>4, <2>5, ConnUpdate, Zenon DEF ResolveAccess
    <2>7. registry' \in Registry
      BY <1>4, RegistryTypes, Zenon DEF ResolveAccess, TypeOK
    <2> QED
      BY <1>4, <2>6, <2>7 DEF ResolveAccess, TypeOK
  <1>5. ASSUME NEW op, NEW k, NEW t, NEW y, NEW inTree,
               ResolveRefused(c, op, k, t, y, inTree)
        PROVE  TypeInv'
    <2>1. conn' \in [Conns -> Conn] /\ \A d \in Conns : ConnOK(conn'[d])
      BY <1>1, <1>5, AnswerType, Zenon DEF ResolveRefused, Answers
    <2> QED
      BY <1>5, <2>1, Zenon DEF ResolveRefused, TypeOK
  <1> QED
    BY <1>2, <1>3, <1>4, <1>5, Zenon DEF Arrive

(* The part of the state that every refusal to serve the cache touches. *)
LEMMA MustAskType ==
    ASSUME TypeInv, NEW c \in Conns, MustAsk(c)
    PROVE  /\ grants' \subseteq Grant
           /\ conn[c].pc = "await"
           /\ conn[c].scope \in Scopes /\ conn[c].key \in Keys
           /\ UNCHANGED <<registry, receipts, failures, lockEpoch, active, worker,
                          child, outside, regs>>
  <1>1. ConnOK(conn[c]) /\ conn[c].pc = "await"
    BY DEF TypeInv, MustAsk
  <1> QED
    BY <1>1, Zenon DEF TypeInv, TypeOK, MustAsk, Revoke, ConnOK

LEMMA EndCodeType ==
    ASSUME TypeOK, NEW i \in Ids
    PROVE  EndCode(i) \in Answers
  <1>1. failures[i] \in FailureCodes \cup FileErrors \cup {None}
    BY DEF TypeOK
  <1> QED
    BY <1>1 DEF EndCode, Answers, FailureCodes, FileErrors

LEMMA HandlerType ==
    ASSUME TypeInv, NEW c \in Conns, Handler(c)
    PROVE  TypeInv'
  <1> USE DEF TypeInv, core, outside, history
  <1> DEFINE ConnsOK == conn' \in [Conns -> Conn] /\ \A d \in Conns : ConnOK(conn'[d])
  <1>1. conn \in [Conns -> Conn] /\ ConnOK(conn[c])
    BY DEF TypeOK
  <1>2. CASE AwaitCached(c)
    <2>1. ConnsOK
      <3>1. CASE conn[c].op = "GET"
        BY <1>1, <1>2, <3>1, FetchingOK, ConnUpdate DEF AwaitCached
      <3>2. CASE conn[c].op # "GET"
        BY <1>1, <1>2, <3>2, AnswerType, ZenonT(30) DEF AwaitCached, Answers
      <3> QED
        BY <3>1, <3>2
    <2> QED
      BY <1>2, <2>1, Zenon DEF AwaitCached, TypeOK
  <1>3. CASE AwaitRefused(c)
    <2>1. ConnsOK
      <3>1. CASE files[conn[c].key].state # "sole"
        BY <1>1, <1>3, <3>1, AnswerType, Zenon
        DEF AwaitRefused, Answers, FileError, FileErrors
      <3>2. CASE ~(files[conn[c].key].state # "sole")
        BY <1>1, <1>3, <3>2, AnswerType, ZenonT(30) DEF AwaitRefused, Answers
      <3> QED
        BY <3>1, <3>2, ZenonT(30)
    <2> QED
      BY <1>3, <2>1, MustAskType, SMTT(60) DEF AwaitRefused, TypeOK
  <1>4. CASE AwaitCoalesced(c)
    <2>1. PICK i \in Ids : Waiting(c, i)
      BY <1>4, Zenon DEF AwaitCoalesced
    <2>2. ConnsOK
      <3>1. ConnOK([conn[c] EXCEPT !.pc = "waiting", !.id = i, !.waited = 0])
        BY <1>1, <1>4, MustAskType, WaitingOK, Zenon DEF AwaitCoalesced
      <3> QED
        BY <1>1, <2>1, <3>1, ConnUpdate, Zenon DEF Waiting
    <2> QED
      BY <1>4, <2>2, MustAskType, SMTT(60) DEF AwaitCoalesced, TypeOK
  <1>5. CASE AwaitQueued(c)
    <2>1. /\ conn[c].pc = "await" /\ conn[c].scope \in Scopes
          /\ conn[c].key \in Keys /\ queue.nextId \in Ids
      BY <1>5, MustAskType DEF AwaitQueued
    <2>2. ConnsOK
      <3>1. ConnOK([conn[c] EXCEPT !.pc = "waiting", !.id = queue.nextId, !.waited = 0])
        BY <1>1, <2>1, WaitingOK, Zenon
      <3> QED
        BY <1>1, <1>5, <3>1, ConnUpdate, Zenon DEF AwaitQueued, Waiting
    <2>3. QueueOK(queue') /\ queue' \in Queue
      BY <1>5, <2>1, PushOK DEF AwaitQueued, QueueOK
    <2>4. ceremony' \in [Ids -> Ceremony]
      <3>1. conn[c].reg \in Nat
        BY <1>1 DEF ConnOK, Conn
      <3>2. [ceremony[queue.nextId] EXCEPT !.reg = conn[c].reg] \in Ceremony
        BY <2>1, <3>1, ZenonT(30) DEF TypeOK, Ceremony
      <3> QED
        BY <1>5, <3>2, ZenonT(30) DEF AwaitQueued, TypeOK
    <2> QED
      BY <1>5, <2>2, <2>3, <2>4, MustAskType, ZenonT(30) DEF AwaitQueued, TypeOK
  <1>6. CASE WakeGranted(c)
    <2>1. ConnsOK
      <3>1. CASE conn[c].op = "GET"
        BY <1>1, <1>6, <3>1, FetchingOK, ConnUpdate DEF WakeGranted
      <3>2. CASE conn[c].op = "AUTHORIZE"
        BY <1>1, <1>6, <3>2, MintingOK, ConnUpdate, Zenon DEF WakeGranted
      <3>3. CASE conn[c].op \notin {"GET", "AUTHORIZE"}
        BY <1>1, <1>6, <3>3, AnswerType, Zenon DEF WakeGranted, Answers
      <3> QED
        BY <3>1, <3>2, <3>3
    <2> QED
      BY <1>6, <2>1 DEF WakeGranted, TypeOK
  <1>7. CASE WakeEnded(c)
    <2>1. ConnsOK
      <3>1. EndCode(conn[c].id) \in Answers
        BY <1>1, <1>7, EndCodeType, Zenon DEF WakeEnded, ConnOK
      <3> QED
        BY <1>1, <1>7, <3>1, AnswerType, Zenon DEF WakeEnded
    <2> QED
      BY <1>7, <2>1, Zenon DEF WakeEnded, TypeOK
  <1>8. CASE WakeDeadline(c)
    <2>1. ConnsOK
      BY <1>1, <1>8, AnswerType DEF WakeDeadline, Answers, FailureCodes
    <2>2. QueueOK(queue') /\ queue' \in Queue
      <3>1. conn[c].id \in Ids
        BY <1>1, <1>8 DEF WakeDeadline, ConnOK
      <3> QED
        BY <1>8, <3>1, CancelOK, Zenon DEF WakeDeadline, Timeout, OverStates, QueueOK
    <2>3. active' \in Ids \cup {NoId} /\ child' \in Child
      BY <1>8, KillActiveType, Zenon DEF WakeDeadline
    <2> QED
      BY <1>8, <2>1, <2>2, <2>3, ZenonT(30) DEF WakeDeadline, TypeOK
  <1>9. CASE FetchValue(c)
    <2>1. ConnsOK
      <3>1. CASE LookupGrant(grants, conn[c].scope, conn[c].key) = {}
        BY <1>1, <1>9, <3>1, AnswerType, Zenon DEF FetchValue, Answers, FailureCodes
      <3>2. CASE LookupGrant(grants, conn[c].scope, conn[c].key) # {}
        <4>1. PICK g \in grants : AnswerBytes(c, g.version)
          BY <1>9, <3>2, Zenon DEF FetchValue, LookupGrant
        <4>2. g.version \in Nat
          BY Zenon DEF TypeOK, Grant
        <4>3. conn[c].id \in Ids \cup {NoId} /\ conn[c].seen \in Nat
          BY <1>1 DEF ConnOK, Conn
        <4> QED
          BY <1>1, <4>1, <4>2, <4>3, BytesOK, ConnUpdate, Zenon DEF AnswerBytes
      <3> QED
        BY <3>1, <3>2, Zenon
    <2> QED
      BY <1>9, <2>1, Zenon DEF FetchValue, TypeOK
  <1>10. CASE FinishAuthorization(c)
    <2>1. conn[c].id \in Ids /\ conn[c].key \in CapKeys
      BY <1>1, <1>10, Zenon DEF FinishAuthorization, ConnOK
    <2>2. ceremony[conn[c].id] \in Ceremony
      BY <2>1, Zenon DEF TypeOK
    <2>3. ConnsOK
      <3>1. \/ Answer(c, "RECEIPT") \/ Answer(c, "INTERNAL")
            \/ Answer(c, "TOO_MANY_PENDING") \/ Answer(c, "DENIED")
        BY <1>10, Zenon DEF FinishAuthorization
      <3> QED
        BY <1>1, <3>1, AnswerType, Zenon DEF Answers, FailureCodes
    <2>4. receipts' \subseteq Receipt
      <3>1. ceremony[conn[c].id].minted \in Nat
        BY <2>2, Zenon DEF Ceremony
      <3>2. \/ receipts' = receipts
            \/ receipts' = SweepReceipts(receipts)
            \/ receipts' = MintReceipt(receipts, conn[c].id,
                                       ceremony[conn[c].id].minted, conn[c].key)
        BY <1>10, Zenon DEF FinishAuthorization
      <3>3. receipts \subseteq Receipt
        BY DEF TypeOK
      <3> HIDE DEF TypeInv
      <3> QED
        BY <2>1, <3>1, <3>2, <3>3, ReceiptTypes, Zenon
    <2>5. ceremony' \in [Ids -> Ceremony]
      <3>1. [ceremony[conn[c].id] EXCEPT !.minted = @ + 1] \in Ceremony
        BY <2>2 DEF Ceremony
      <3> QED
        BY <1>10, <3>1, Zenon DEF FinishAuthorization, TypeOK
    <2> QED
      BY <1>10, <2>3, <2>4, <2>5, Zenon DEF FinishAuthorization, TypeOK
  <1> QED
    BY <1>2, <1>3, <1>4, <1>5, <1>6, <1>7, <1>8, <1>9, <1>10, Zenon DEF Handler

LEMMA SweptOK ==
    ASSUME QueueOK(queue)
    PROVE  QueueOK(Swept)
  BY SweepTimeoutsOK, PruneOK DEF Swept

LEMMA HousekeepingType ==
    ASSUME TypeInv, Housekeeping
    PROVE  /\ active' \in Ids \cup {NoId} /\ child' \in Child
           /\ grants' \subseteq Grant
           /\ receipts' \subseteq Receipt
           /\ failures' \in [Ids -> FailureCodes \cup FileErrors \cup {None}]
           /\ UNCHANGED <<registry, lockEpoch, conn, outside, regs>>
  <1>1. active' \in Ids \cup {NoId} /\ child' \in Child
    BY KillActiveType, Zenon DEF Housekeeping, TypeInv
  <1>2. grants' \subseteq Grant
    BY Zenon DEF Housekeeping, TypeInv, TypeOK, RevokeMissingTtys, RevokeExpired
  <1>3. receipts' \subseteq Receipt
    BY Zenon DEF Housekeeping, TypeInv, TypeOK, SweepReceipts
  <1>4. failures' \in [Ids -> FailureCodes \cup FileErrors \cup {None}]
    BY Zenon DEF Housekeeping, TypeInv, TypeOK
  <1> QED
    BY <1>1, <1>2, <1>3, <1>4, Zenon DEF Housekeeping

LEMMA IdleWorkerOK == WorkerOK(IdleWorker)
  <1>1. 0 \in 0..Ttl
    BY QueueAssumption
  <1> QED
    BY <1>1 DEF WorkerOK, Worker, IdleWorker

LEMMA JobOK ==
    ASSUME NEW i \in Ids, NEW s \in Scopes, NEW k \in Keys,
           NEW g \in Nat, NEW n \in Nat
    PROVE  WorkerOK([IdleWorker EXCEPT !.pc = "probe", !.id = i, !.scope = s,
                                       !.key = k, !.generation = g, !.epoch = n])
  <1>1. 0 \in 0..Ttl
    BY QueueAssumption
  <1> QED
    BY <1>1, Zenon DEF WorkerOK, Worker, IdleWorker

LEMMA WorkerUpdates ==
    ASSUME NEW w, WorkerOK(w), w.pc # "idle"
    PROVE  /\ \A e \in FailureCodes \cup FileErrors :
                 WorkerOK([w EXCEPT !.pc = "failed", !.error = e])
           /\ \A v \in Nat : WorkerOK([w EXCEPT !.pc = "spawned", !.version = v])
           /\ WorkerOK([w EXCEPT !.pc = "running"])
           /\ w.age < Ttl => WorkerOK([w EXCEPT !.age = @ + 1])
  <1>1. ASSUME NEW e \in FailureCodes \cup FileErrors
        PROVE  WorkerOK([w EXCEPT !.pc = "failed", !.error = e])
    BY Zenon DEF WorkerOK, Worker
  <1>2. ASSUME NEW v \in Nat
        PROVE  WorkerOK([w EXCEPT !.pc = "spawned", !.version = v])
    BY Zenon DEF WorkerOK, Worker
  <1>3. WorkerOK([w EXCEPT !.pc = "running"])
    BY DEF WorkerOK, Worker
  <1>4. ASSUME w.age < Ttl
        PROVE  WorkerOK([w EXCEPT !.age = @ + 1])
    <2>1. w.age + 1 \in 0..Ttl
      BY <1>4, QueueAssumption DEF WorkerOK, Worker
    <2> QED
      BY <2>1 DEF WorkerOK, Worker
  <1> QED
    BY <1>1, <1>2, <1>3, <1>4, Zenon

LEMMA BackToIdleType ==
    ASSUME TypeInv, BackToIdle
    PROVE  /\ active' \in Ids \cup {NoId} /\ child' \in Child
           /\ WorkerOK(worker') /\ worker' \in Worker
           /\ UNCHANGED <<registry, receipts, lockEpoch, conn, outside, history>>
  <1>1. WorkerOK(worker') /\ worker' \in Worker
    BY IdleWorkerOK, SMTT(60) DEF BackToIdle, WorkerOK
  <1> QED
    BY <1>1, Zenon DEF BackToIdle, TypeInv, TypeOK, Child

LEMMA WorkerType ==
    ASSUME TypeInv, WorkerStep
    PROVE  TypeInv'
  <1> USE DEF TypeInv, core, outside, history
  <1>1. CASE WorkerWait
    <2>1. QueueOK(queue') /\ queue' \in Queue
      BY <1>1, SweptOK, Zenon DEF WorkerWait, QueueOK
    <2> QED
      BY <1>1, <2>1, HousekeepingType, Zenon DEF WorkerWait, TypeOK
  <1>2. ASSUME NEW i \in Ids, WorkerStart(i)
        PROVE  TypeInv'
    <2>1. QueueOK(Swept) /\ Swept \in Queue
      BY SweptOK DEF QueueOK
    <2>2. StateOf(Swept, i) # "Absent"
      BY <1>2, Zenon DEF WorkerStart, NextReady, First, PendingIds
    <2>3. Swept.requests[i].scope \in Scopes /\ Swept.requests[i].key \in Keys
      BY <2>1, <2>2 DEF QueueOK
    <2>4. QueueOK(queue') /\ queue' \in Queue
      BY <1>2, <2>1, <2>2, MarkDecryptingOK DEF WorkerStart, QueueOK
    <2>5. WorkerOK(worker') /\ worker' \in Worker
      <3>1. Swept.generation + 1 \in Nat /\ lockEpoch \in Nat
        BY <2>1 DEF Queue, TypeOK
      <3>2. worker' = [IdleWorker EXCEPT !.pc = "probe", !.id = i,
                                    !.scope = Swept.requests[i].scope,
                                    !.key = Swept.requests[i].key,
                                    !.generation = Swept.generation + 1,
                                    !.epoch = lockEpoch]
        BY <1>2 DEF WorkerStart
      <3> HIDE DEF TypeInv
      <3> QED
        BY <2>3, <3>1, <3>2, JobOK, Zenon DEF WorkerOK
    <2>6. ceremony' \in [Ids -> Ceremony]
      <3>1. [ceremony[i] EXCEPT !.key = Swept.requests[i].key, !.epoch = lockEpoch]
              \in Ceremony
        BY <2>3, Zenon DEF TypeOK, Ceremony
      <3> QED
        BY <1>2, <3>1 DEF WorkerStart, TypeOK
    <2> QED
      BY <1>2, <2>4, <2>5, <2>6, HousekeepingType, Zenon DEF WorkerStart, TypeOK
  <1>3. CASE DecryptSpawn
    <2>1. WorkerOK(worker') /\ worker' \in Worker
      <3>1. worker.key \in Keys
        BY <1>3, Zenon DEF DecryptSpawn, WorkerOK
      <3>2. files[worker.key].version \in Nat
        BY <3>1 DEF TypeOK, File
      <3>3. WorkerOK(worker')
        BY <1>3, <3>2, WorkerUpdates, Zenon DEF DecryptSpawn
      <3> QED
        BY <3>3 DEF WorkerOK
    <2> QED
      BY <1>3, <2>1 DEF DecryptSpawn, TypeOK, Child
  <1>4. CASE OnStarted
    <2>1. WorkerOK(worker')
      BY <1>4, WorkerUpdates, Zenon DEF OnStarted
    <2>2. worker' \in Worker
      BY <2>1 DEF WorkerOK
    <2>3. active' \in Ids \cup {NoId} /\ child' \in Child
      <3>1. worker.id \in Ids
        BY <1>4, Zenon DEF OnStarted, WorkerOK
      <3> QED
        BY <1>4, <3>1 DEF OnStarted, TypeOK, KillGroup, Child
    <2> QED
      BY <1>4, <2>1, <2>2, <2>3 DEF OnStarted, TypeOK
  <1>5. CASE WorkerDeadline
    BY <1>5, Zenon DEF WorkerDeadline, TypeOK, Child
  <1>6. CASE WorkerSucceeds
    <2> DEFINE q == IF Withdrawn THEN Deny(queue, worker.id) ELSE queue
    <2>1. worker.id \in Ids /\ worker.scope \in Scopes /\ worker.key \in Keys
      BY <1>6 DEF WorkerSucceeds, WorkerOK
    <2>2. QueueOK(q)
      BY <2>1, CancelOK, Zenon DEF Deny, OverStates
    <2>3. queue' = Complete(q, worker.id, worker.generation)
      BY <1>6, Zenon DEF WorkerSucceeds
    <2>4. \/ grants' = grants
          \/ grants' = InsertGrant(grants, worker.scope, worker.key,
                                   worker.version, worker.id)
      BY <1>6, Zenon DEF WorkerSucceeds
    <2>5. worker.version \in Nat /\ grants \subseteq Grant
      BY SMTT(60) DEF TypeOK, Worker
    <2> HIDE DEF q
    <2>6. QueueOK(queue') /\ queue' \in Queue
      BY <2>1, <2>2, <2>3, CompleteOK, Zenon DEF QueueOK
    <2>7. grants' \subseteq Grant
      BY <2>1, <2>4, <2>5, InsertGrantType, Zenon
    <2>8. BackToIdle /\ UNCHANGED failures
      BY <1>6 DEF WorkerSucceeds
    <2> QED
      BY <2>6, <2>7, <2>8, BackToIdleType, Zenon DEF TypeOK
  <1>7. ASSUME NEW e \in FailureCodes \cup FileErrors, DecryptRefused(e)
        PROVE  TypeInv'
    <2>1. WorkerOK(worker')
      BY <1>7, WorkerUpdates, Zenon DEF DecryptRefused
    <2>2. worker' \in Worker
      BY <2>1, Zenon DEF WorkerOK
    <2> QED
      BY <1>7, <2>1, <2>2 DEF DecryptRefused, TypeOK
  <1>8. ASSUME NEW e \in FailureCodes \cup FileErrors, WorkerFails(e)
        PROVE  TypeInv'
    <2>1. worker.id \in Ids
      BY <1>8, SMTT(60) DEF WorkerFails, DecryptError, WorkerOK
    <2>2. QueueOK(queue') /\ queue' \in Queue
      BY <1>8, <2>1, FailOK, Zenon DEF WorkerFails, QueueOK
    <2>3. failures' \in [Ids -> FailureCodes \cup FileErrors \cup {None}]
      BY <1>8, Zenon DEF WorkerFails, TypeOK
    <2>4. BackToIdle /\ UNCHANGED grants
      BY <1>8, Zenon DEF WorkerFails
    <2> QED
      BY <2>2, <2>3, <2>4, BackToIdleType, Zenon DEF TypeOK
  <1> QED
    BY <1>1, <1>2, <1>3, <1>4, <1>5, <1>6, <1>7, <1>8, ZenonT(30) DEF WorkerStep

LEMMA SetFileType ==
    ASSUME TypeInv, NEW k \in Keys, NEW f \in File, SetFile(k, f)
    PROVE  TypeInv'
  BY DEF TypeInv, TypeOK, SetFile, core, history

LEMMA EnvironmentType ==
    ASSUME TypeInv, Environment
    PROVE  TypeInv'
  <1> USE DEF TypeInv, core, outside, history
  <1>1. CASE HumanTouches
    <2>1. worker.id \in Ids \cup {NoId}
      BY DEF TypeOK, Worker
    <2>2. 0 \in 0..TouchCache
      BY BrokerAssumption
    <2>3. touch' = [age |-> 0, id |-> worker.id]
      BY <1>1 DEF HumanTouches
    <2>4. touch' \in [age : 0..TouchCache, id : Ids \cup {NoId}]
      <3> HIDE DEF TypeInv
      <3> QED
        BY <2>1, <2>2, <2>3, Zenon
    <2> QED
      BY <1>1, <2>4, Zenon DEF HumanTouches, TypeOK
  <1>2. CASE ChildSucceeds
    BY <1>2, Zenon DEF ChildSucceeds, TypeOK, Child
  <1>3. CASE ChildFails
    BY <1>3 DEF ChildFails, TypeOK, Child
  <1>4. ASSUME NEW k \in Keys,
               ReplaceFile(k) \/ RemoveFile(k) \/ DuplicateFile(k) \/ RemoveDuplicate(k)
        PROVE  TypeInv'
    <2>1. files[k] \in File
      BY DEF TypeOK
    <2>2. /\ [version |-> files[k].version + 1, state |-> "sole"] \in File
          /\ \A x \in {"sole", "absent", "ambiguous"} :
                [files[k] EXCEPT !.state = x] \in File
      BY <2>1 DEF File
    <2> QED
      BY <1>4, <2>2, SetFileType, Zenon
      DEF ReplaceFile, RemoveFile, DuplicateFile, RemoveDuplicate
  <1>5. ASSUME NEW t \in Tokens, RootExits(t)
        PROVE  TypeInv'
    <2>1. registry' \in Registry
      BY <1>5, Zenon DEF RootExits, TypeOK, Registry
    <2> QED
      BY <1>5, <2>1, Zenon DEF RootExits, TypeOK
  <1>6. ASSUME NEW y \in Ttys, TtyVanishes(y) \/ TtyAppears(y)
        PROVE  TypeInv'
    BY <1>6, Zenon DEF TtyVanishes, TtyAppears, TypeOK
  <1> QED
    BY <1>1, <1>2, <1>3, <1>4, <1>5, <1>6, Zenon DEF Environment

LEMMA TickType ==
    ASSUME TypeInv, Tick
    PROVE  TypeInv'
  <1> USE DEF TypeInv
  <1>1. QueueOK(queue') /\ queue' \in Queue
    BY AgeQueueOK DEF Tick, QueueOK
  <1>2. grants' \subseteq Grant
    BY AgeGrantsType DEF Tick, TypeOK
  <1>3. receipts' \subseteq Receipt
    BY ReceiptTypes DEF Tick, TypeOK
  <1>4. touch' \in [age : 0..TouchCache, id : Ids \cup {NoId}]
    <2>1. (IF touch.age < TouchCache THEN touch.age + 1 ELSE touch.age) \in 0..TouchCache
      BY BrokerAssumption DEF TypeOK
    <2> QED
      BY <2>1, ZenonT(30) DEF Tick, TypeOK
  <1>5. conn' \in [Conns -> Conn] /\ \A c \in Conns : ConnOK(conn'[c])
    <2>1. \A c \in Conns : ConnOK(conn'[c])
      BY WaitedOK DEF Tick
    <2>2. \A c \in Conns : conn'[c] \in Conn
      BY <2>1, Zenon DEF ConnOK
    <2>3. conn' = [c \in Conns |-> conn'[c]]
      BY DEF Tick
    <2> QED
      BY <2>1, <2>2, <2>3
  <1>6. WorkerOK(worker')
    BY WorkerUpdates, Zenon DEF Tick
  <1>7. worker' \in Worker
    BY <1>6 DEF WorkerOK
  <1> QED
    BY <1>1, <1>2, <1>3, <1>4, <1>5, <1>6, <1>7, Zenon DEF Tick, TypeOK, history

LEMMA TypeStep == TypeInv /\ [Next]_vars => TypeInv'
  <1> SUFFICES ASSUME TypeInv, [Next]_vars PROVE TypeInv'
    BY Zenon
  <1>1. CASE Next
    BY <1>1, CommandType, ArriveType, HandlerType, WorkerType, EnvironmentType,
       TickType, Zenon DEF Next
  <1>2. CASE UNCHANGED vars
    BY <1>2 DEF vars, core, outside, history, TypeInv, TypeOK
  <1> QED
    BY <1>1, <1>2

(* Every table, queue entry, job and handler of the daemon keeps its type, *)
(* whatever the connections, the worker and the world outside do.          *)
THEOREM TypeCorrect == Spec => []TypeOK
  <1>1. TypeInv => TypeOK
    BY Zenon DEF TypeInv
  <1> QED
    BY <1>1, TypeInit, TypeStep, PTL DEF Spec

-----------------------------------------------------------------------------
(* One decrypt at a time, and the kill switch. *)

(* The worker's job is the request that holds the hardware. *)
JobIsInflight ==
    \A i \in Ids : queue.inflight = i =>
        /\ worker.pc # "idle"
        /\ worker.id = i
        /\ worker.generation = queue.requests[i].generation
        /\ worker.scope = queue.requests[i].scope
        /\ worker.key = queue.requests[i].key

FlightInv ==
    /\ FlightOK(queue)
    /\ Fresh(queue)
    /\ JobIsInflight
    /\ NoOrphanDecrypt

LEMMA FlightInit == Init => FlightInv
  <1> SUFFICES ASSUME Init PROVE FlightInv
    OBVIOUS
  <1>1. queue.inflight = NoId /\ \A i \in Ids : StateOf(queue, i) = "Absent"
    BY Zenon DEF Init, NewQueue, NoRequest, StateOf
  <1>2. NoOrphanDecrypt
    BY Zenon DEF Init, NoOrphanDecrypt, IdleWorker
  <1> QED
    BY <1>1, <1>2, NoIdNotInIds, Zenon DEF FlightInv, FlightOK, Fresh, JobIsInflight

LEMMA FlightUntouched ==
    ASSUME FlightInv, UNCHANGED <<queue, worker, active, child>>
    PROVE  FlightInv'
  BY Zenon DEF FlightInv, FlightOK, Fresh, JobIsInflight, NoOrphanDecrypt, StateOf

(* A method that only ends requests keeps the queue's part, and the        *)
(* worker's part as long as the worker keeps its job.                      *)
LEMMA RetiresJob ==
    ASSUME TypeInv, FlightInv, NEW p, Retires(p, queue)
    PROVE  /\ FlightOK(p) /\ Fresh(p)
           /\ \A i \in Ids : p.inflight = i =>
                 /\ worker.pc # "idle"
                 /\ worker.id = i
                 /\ worker.generation = p.requests[i].generation
                 /\ worker.scope = p.requests[i].scope
                 /\ worker.key = p.requests[i].key
  <1>1. queue \in Queue
    BY DEF TypeInv, TypeOK
  <1>2. FlightOK(p) /\ Fresh(p)
    BY <1>1, RetiresKeeps, Zenon DEF FlightInv
  <1>3. ASSUME NEW i \in Ids, p.inflight = i
        PROVE  queue.inflight = i /\ SameRequest(p, queue, i)
    BY <1>3, NoIdNotInIds, Zenon DEF Retires
  <1> QED
    BY <1>2, <1>3, ZenonT(30) DEF FlightInv, JobIsInflight, SameRequest

(* Cancelling a request kills its child, if on_started has published it. *)
LEMMA FlightCancel ==
    ASSUME TypeInv, FlightInv, NEW i \in Ids, NEW st \in {"Denied", "TimedOut"},
           queue' = Cancel(queue, i, st), KillActive({i}), UNCHANGED worker
    PROVE  FlightInv'
  <1>1. queue \in Queue /\ worker.id \in Ids \cup {NoId}
    BY Zenon DEF TypeInv, TypeOK, Worker
  <1>2. Retires(queue', queue) /\ ~IsActive(queue', i)
    BY <1>1, CancelRetires
  <1>3. FlightOK(queue') /\ Fresh(queue') /\ JobIsInflight'
    BY <1>2, RetiresJob, Zenon DEF JobIsInflight
  <1>4. NoOrphanDecrypt'
    <2>1. CASE active = i
      BY <2>1, NoIdNotInIds, Zenon
      DEF FlightInv, NoOrphanDecrypt, KillActive, KillGroup
    <2>2. CASE active # i
      <3>1. active' = active /\ child' = child
        BY <2>2, Zenon DEF KillActive
      <3>2. active # NoId => StateOf(queue', active) = StateOf(queue, active)
        <4> SUFFICES ASSUME active # NoId
                     PROVE  StateOf(queue', active) = StateOf(queue, active)
          BY Zenon
        <4>1. active \in Ids /\ active # i
          BY <2>2 DEF TypeInv, TypeOK
        <4>2. IsActive(queue, i) => queue'.requests[active] = queue.requests[active]
          <5>1. IsActive(queue, i) => EndedAs(queue', queue, i, st)
            BY <1>1, CancelLemma, Zenon DEF OverStates
          <5> QED
            BY <4>1, <5>1, Zenon DEF EndedAs
        <4>3. ~IsActive(queue, i) => queue' = queue
          BY <1>1, CancelLemma, Zenon DEF OverStates
        <4> QED
          BY <4>2, <4>3, Zenon DEF StateOf
      <3> QED
        BY <3>1, <3>2, Zenon DEF FlightInv, NoOrphanDecrypt
    <2> QED
      BY <2>1, <2>2
  <1> QED
    BY <1>3, <1>4, Zenon DEF FlightInv

LEMMA FlightSweep ==
    ASSUME TypeInv, FlightInv, Housekeeping
    PROVE  /\ Swept \in Queue /\ FlightOK(Swept) /\ Fresh(Swept)
           /\ Swept.inflight = NoId
           /\ active = NoId /\ UNCHANGED <<active, child>>
           /\ \A i \in Ids : StateOf(Swept, i) # "Decrypting"
  <1> DEFINE p == SweepTimeouts(queue)
  <1>1. queue \in Queue /\ worker.pc = "idle"
    BY Zenon DEF TypeInv, TypeOK, Housekeeping
  <1>2. queue.inflight = NoId
    BY <1>1 DEF FlightInv, JobIsInflight, Queue
  <1>3. Retires(p, queue)
    BY <1>1, SweepTimeoutsRetires, Zenon
  <1> HIDE DEF p
  <1>4. p \in Queue /\ FlightOK(p) /\ Fresh(p) /\ p.inflight = NoId
    BY <1>1, <1>2, <1>3, RetiresKeeps, Zenon DEF Retires, FlightInv
  <1>5. Retires(Prune(p), p)
    BY <1>4, PruneRetires, Zenon
  <1>6. /\ Prune(p) \in Queue /\ FlightOK(Prune(p)) /\ Fresh(Prune(p))
        /\ Prune(p).inflight = NoId
    BY <1>4, <1>5, RetiresKeeps DEF Retires
  <1>7. Swept = Prune(p)
    BY DEF Swept, p
  <1>8. active = NoId
    BY <1>1, ZenonT(30) DEF FlightInv, NoOrphanDecrypt
  <1>9. UNCHANGED <<active, child>>
    <2>1. NoId \notin Overdue(queue)
      BY NoIdNotInIds, ZenonT(30) DEF Overdue
    <2> QED
      BY <1>8, <2>1 DEF Housekeeping, KillActive
  <1> QED
    BY <1>6, <1>7, <1>8, <1>9, NoIdNotInIds, Zenon DEF FlightOK

LEMMA FlightBackToIdle ==
    ASSUME TypeInv, FlightInv, BackToIdle, worker.pc # "idle",
           Retires(queue', queue), queue'.inflight # worker.id
    PROVE  FlightInv'
  <1>1. FlightOK(queue') /\ Fresh(queue')
    BY RetiresJob, Zenon
  <1>2. \A i \in Ids : queue'.inflight # i
    BY RetiresJob, Zenon
  <1>3. active' = NoId /\ worker'.pc = "idle"
    BY Zenon DEF FlightInv, NoOrphanDecrypt, BackToIdle, IdleWorker
  <1> QED
    BY <1>1, <1>2, <1>3, ZenonT(30) DEF FlightInv, JobIsInflight, NoOrphanDecrypt

LEMMA FlightPush ==
    ASSUME TypeInv, FlightInv, NEW s \in Scopes, NEW k \in Keys,
           queue.nextId \in Ids, queue' = Push(queue, s, k),
           UNCHANGED <<worker, active, child>>
    PROVE  FlightInv'
  <1> DEFINE n == queue.nextId
  <1>1. queue \in Queue
    BY DEF TypeInv, TypeOK
  <1>2. /\ queue'.nextId = n + 1 /\ queue'.inflight = queue.inflight
        /\ \A j \in Ids \ {n} : queue'.requests[j] = queue.requests[j]
        /\ StateOf(queue', n) = "Pending"
    <2>1. Appended(queue', queue, s, k)
      BY <1>1, PushAppends, Zenon
    <2> QED
      BY <2>1, Zenon DEF Appended, StateOf
  <1>3. StateOf(queue, n) = "Absent" /\ n \in Ids
    BY DEF FlightInv, Fresh, Ids
  <1>4. queue.inflight # n /\ active # n
    BY <1>3 DEF FlightInv, FlightOK, NoOrphanDecrypt, NoId, Ids
  <1> HIDE DEF n
  <1>5. \A j \in Ids : j = n \/ j \in Ids \ {n}
    OBVIOUS
  <1>6. FlightOK(queue')
    BY <1>2, <1>3, <1>4, <1>5, ZenonT(30) DEF FlightInv, FlightOK, StateOf
  <1>7. JobIsInflight'
    BY <1>2, <1>3, <1>4, <1>5, ZenonT(30) DEF FlightInv, JobIsInflight
  <1>8. Fresh(queue')
    <2>1. \A j \in Ids : j >= n + 1 => j >= n /\ j \in Ids \ {n}
      BY <1>3 DEF Ids
    <2> QED
      BY <1>2, <2>1, Zenon DEF FlightInv, Fresh, StateOf, n
  <1>9. NoOrphanDecrypt'
    <2>1. active \in Ids \cup {NoId}
      BY DEF TypeInv, TypeOK
    <2> QED
      BY <1>2, <1>4, <2>1, Zenon DEF FlightInv, NoOrphanDecrypt, StateOf
  <1> QED
    BY <1>6, <1>7, <1>8, <1>9, ZenonT(30) DEF FlightInv

LEMMA FlightStart ==
    ASSUME TypeInv, FlightInv, NEW i \in Ids, WorkerStart(i)
    PROVE  FlightInv'
  <1>1. /\ Swept \in Queue /\ Fresh(Swept) /\ active = NoId /\ UNCHANGED <<active, child>>
        /\ \A j \in Ids : StateOf(Swept, j) # "Decrypting"
    BY FlightSweep DEF WorkerStart
  <1>2. StateOf(Swept, i) = "Pending"
    BY DEF WorkerStart, NextReady, First, PendingIds
  <1>3. /\ queue'.inflight = i /\ queue'.nextId = Swept.nextId
        /\ \A j \in Ids \ {i} : queue'.requests[j] = Swept.requests[j]
        /\ StateOf(queue', i) = "Decrypting"
        /\ queue'.requests[i].generation = Swept.generation + 1
        /\ queue'.requests[i].scope = Swept.requests[i].scope
        /\ queue'.requests[i].key = Swept.requests[i].key
    BY <1>1, MarkDecryptingLemma, ZenonT(30) DEF WorkerStart, StateOf
  <1>4. /\ worker'.pc = "probe" /\ worker'.id = i
        /\ worker'.generation = Swept.generation + 1
        /\ worker'.scope = Swept.requests[i].scope
        /\ worker'.key = Swept.requests[i].key
    BY Zenon DEF WorkerStart, IdleWorker
  <1>5. FlightOK(queue')
    BY <1>1, <1>3, Zenon DEF FlightOK, StateOf
  <1>6. Fresh(queue')
    BY <1>1, <1>2, <1>3, Zenon DEF Fresh, StateOf
  <1> QED
    BY <1>1, <1>3, <1>4, <1>5, <1>6, ZenonT(30)
       DEF FlightInv, JobIsInflight, NoOrphanDecrypt

LEMMA SuccessRetires ==
    ASSUME TypeInv, FlightInv, WorkerSucceeds
    PROVE  /\ Retires(queue', queue)
           /\ queue'.inflight # worker.id
           /\ queue'.sinceFinished = 0
  <1> DEFINE q == IF Withdrawn THEN Deny(queue, worker.id) ELSE queue
  <1>1. queue \in Queue /\ worker.id \in Ids
    BY DEF TypeInv, TypeOK, WorkerOK, WorkerSucceeds
  <1>2. Retires(q, queue)
    <2>1. Retires(Deny(queue, worker.id), queue)
      BY <1>1, CancelRetires, Zenon DEF Deny
    <2>2. Retires(queue, queue)
      BY <1>1, RetiresRefl, ZenonT(30)
    <2> QED
      BY <2>1, <2>2, Zenon
  <1>3. queue' = Complete(q, worker.id, worker.generation)
    BY DEF WorkerSucceeds
  <1> HIDE DEF q
  <1>4. /\ q \in Queue /\ FlightOK(q)
        /\ StateOf(q, worker.id) = "Decrypting" =>
              q.requests[worker.id].generation = worker.generation
    BY <1>1, <1>2, RetiresJob, ZenonT(30) DEF Retires, FlightOK
  <1>5. /\ Retires(queue', q) /\ queue'.inflight # worker.id
        /\ queue'.sinceFinished = 0
    BY <1>1, <1>3, <1>4, CompleteRetires, ZenonT(30)
  <1> QED
    BY <1>1, <1>2, <1>5, RetiresTrans, Zenon

LEMMA FailureRetires ==
    ASSUME TypeInv, FlightInv, NEW e, WorkerFails(e)
    PROVE  /\ Retires(queue', queue)
           /\ queue'.inflight # worker.id
           /\ queue'.sinceFinished = 0
           /\ worker.pc # "idle"
  <1>1. queue \in Queue /\ worker.id \in Ids /\ worker.pc # "idle"
    BY Zenon DEF TypeInv, TypeOK, WorkerOK, WorkerFails, DecryptError
  <1> QED
    BY <1>1, FailRetires, Zenon DEF WorkerFails, FlightInv

LEMMA FlightWorker ==
    ASSUME TypeInv, FlightInv, WorkerStep
    PROVE  FlightInv'
  <1> USE DEF core
  <1>1. CASE WorkerWait
    <2>1. /\ FlightOK(queue') /\ Fresh(queue') /\ queue'.inflight = NoId
          /\ active' = NoId /\ child' = child /\ worker' = worker
          /\ worker.pc = "idle"
      BY <1>1, FlightSweep DEF WorkerWait, Housekeeping
    <2> QED
      BY <2>1, NoIdNotInIds, Zenon DEF FlightInv, JobIsInflight, NoOrphanDecrypt
  <1>2. ASSUME NEW i \in Ids, WorkerStart(i)
        PROVE  FlightInv'
    BY <1>2, FlightStart
  <1>3. CASE DecryptSpawn
    <2>1. /\ worker'.pc = "spawned" /\ worker'.id = worker.id
          /\ worker'.generation = worker.generation
          /\ worker'.scope = worker.scope /\ worker'.key = worker.key
      BY <1>3 DEF DecryptSpawn, TypeInv, TypeOK, Worker
    <2> QED
      BY <1>3, <2>1 DEF DecryptSpawn, FlightInv, FlightOK, Fresh, JobIsInflight,
                        NoOrphanDecrypt, StateOf
  <1>4. CASE OnStarted
    <2>1. /\ worker'.pc = "running" /\ worker'.id = worker.id
          /\ worker'.generation = worker.generation
          /\ worker'.scope = worker.scope /\ worker'.key = worker.key
          /\ worker.pc = "spawned" /\ queue' = queue
      BY <1>4, Zenon DEF OnStarted, TypeInv, TypeOK, Worker
    <2>2. active = NoId
      BY <2>1 DEF FlightInv, NoOrphanDecrypt
    <2>3. NoOrphanDecrypt'
      BY <1>4, <2>1, <2>2, Zenon DEF OnStarted, NoOrphanDecrypt, KillGroup
    <2> QED
      BY <2>1, <2>3, Zenon DEF FlightInv, FlightOK, Fresh, JobIsInflight, StateOf
  <1>5. CASE WorkerDeadline
    BY <1>5, Zenon DEF WorkerDeadline, FlightInv, FlightOK, Fresh, JobIsInflight,
                NoOrphanDecrypt, StateOf
  <1>6. CASE WorkerSucceeds
    <2>1. worker.pc # "idle" /\ BackToIdle
      BY <1>6 DEF WorkerSucceeds
    <2> QED
      BY <1>6, <2>1, SuccessRetires, FlightBackToIdle, Zenon
  <1>7. ASSUME NEW e, DecryptRefused(e)
        PROVE  FlightInv'
    <2>1. /\ worker'.pc = "failed" /\ worker'.id = worker.id
          /\ worker'.generation = worker.generation
          /\ worker'.scope = worker.scope /\ worker'.key = worker.key
          /\ worker.pc = "probe"
      BY <1>7, Zenon DEF DecryptRefused, TypeInv, TypeOK, Worker
    <2> QED
      BY <1>7, <2>1, Zenon DEF DecryptRefused, FlightInv, FlightOK, Fresh, JobIsInflight,
                        NoOrphanDecrypt, StateOf
  <1>8. ASSUME NEW e, WorkerFails(e)
        PROVE  FlightInv'
    <2>1. BackToIdle
      BY <1>8, Zenon DEF WorkerFails
    <2> QED
      BY <1>8, <2>1, FailureRetires, FlightBackToIdle, Zenon
  <1> QED
    BY <1>1, <1>2, <1>3, <1>4, <1>5, <1>6, <1>7, <1>8, ZenonT(30) DEF WorkerStep

LEMMA FlightHandler ==
    ASSUME TypeInv, FlightInv, NEW c \in Conns, Handler(c)
    PROVE  FlightInv'
  <1> USE DEF core
  <1>1. CASE \/ AwaitCached(c) \/ WakeGranted(c) \/ WakeEnded(c) \/ FetchValue(c)
             \/ FinishAuthorization(c)
    BY <1>1, FlightUntouched, SMTT(60)
    DEF AwaitCached, WakeGranted, WakeEnded, FetchValue, FinishAuthorization
  <1>2. CASE AwaitRefused(c) \/ AwaitCoalesced(c)
    BY <1>2, FlightUntouched, Zenon DEF AwaitRefused, AwaitCoalesced, MustAsk
  <1>3. CASE AwaitQueued(c)
    <2>1. conn[c].scope \in Scopes /\ conn[c].key \in Keys
      BY <1>3, MustAskType DEF AwaitQueued
    <2> QED
      BY <1>3, <2>1, FlightPush, ZenonT(30) DEF AwaitQueued, MustAsk
  <1>4. CASE WakeDeadline(c)
    <2>1. conn[c].id \in Ids
      BY <1>4, Zenon DEF WakeDeadline, TypeInv, ConnOK
    <2> QED
      BY <1>4, <2>1, FlightCancel, ZenonT(30) DEF WakeDeadline, Timeout
  <1> QED
    BY <1>1, <1>2, <1>3, <1>4, ZenonT(30) DEF Handler

LEMMA FlightStep == TypeInv /\ FlightInv /\ [Next]_vars => FlightInv'
  <1> SUFFICES ASSUME TypeInv, FlightInv, [Next]_vars PROVE FlightInv'
    BY Zenon
  <1> USE DEF core, outside, history
  <1>1. CASE Command
    <2>1. ASSUME NEW t, NEW s, RegisterSession(t, s) PROVE FlightInv'
      BY <2>1, FlightUntouched, Zenon DEF RegisterSession
    <2>2. ASSUME NEW s, UnregisterSession(s) PROVE FlightInv'
      BY <2>2, FlightUntouched, Zenon DEF UnregisterSession
    <2>3. ASSUME NEW i \in Ids, DenyRequest(i) PROVE FlightInv'
      BY <2>3, FlightCancel DEF DenyRequest, Deny
    <2>4. CASE Lock
      <3>1. CASE active = NoId
        BY <2>4, <3>1, FlightUntouched, Zenon DEF Lock
      <3>2. CASE active # NoId
        <4>1. active \in Ids
          BY <3>2 DEF TypeInv, TypeOK
        <4> QED
          BY <2>4, <3>2, <4>1, FlightCancel, ZenonT(30) DEF Lock, Deny
      <3> QED
        BY <3>1, <3>2, Zenon
    <2>5. ASSUME NEW r, NEW cap, RedeemReceipt(r, cap) PROVE FlightInv'
      BY <2>5, FlightUntouched DEF RedeemReceipt
    <2> QED
      BY <1>1, <2>1, <2>2, <2>3, <2>4, <2>5, Zenon DEF Command
  <1>2. ASSUME NEW c \in Conns, Arrive(c) PROVE FlightInv'
    BY <1>2, FlightUntouched, Zenon
    DEF Arrive, BeginAuthorize, RefuseCapabilityKey, ResolveAccess, ResolveRefused
  <1>3. ASSUME NEW c \in Conns, Handler(c) PROVE FlightInv'
    BY <1>3, FlightHandler
  <1>4. CASE WorkerStep
    BY <1>4, FlightWorker
  <1>5. CASE Environment
    <2>1. CASE HumanTouches
      BY <2>1, FlightUntouched, Zenon DEF HumanTouches
    <2>2. CASE ChildSucceeds \/ ChildFails
      BY <2>2, ZenonT(30) DEF ChildSucceeds, ChildFails, FlightInv, FlightOK, Fresh,
                  JobIsInflight, NoOrphanDecrypt, StateOf
    <2>3. ASSUME NEW k, \/ ReplaceFile(k) \/ RemoveFile(k)
                        \/ DuplicateFile(k) \/ RemoveDuplicate(k)
          PROVE  FlightInv'
      BY <2>3, FlightUntouched
      DEF ReplaceFile, RemoveFile, DuplicateFile, RemoveDuplicate, SetFile
    <2>4. ASSUME NEW t, RootExits(t) PROVE FlightInv'
      BY <2>4, FlightUntouched, Zenon DEF RootExits
    <2>5. ASSUME NEW y, TtyVanishes(y) \/ TtyAppears(y) PROVE FlightInv'
      BY <2>5, FlightUntouched, Zenon DEF TtyVanishes, TtyAppears
    <2> QED
      BY <1>5, <2>1, <2>2, <2>3, <2>4, <2>5 DEF Environment
  <1>6. CASE Tick
    <2>1. queue \in Queue /\ worker \in Worker
      BY DEF TypeInv, TypeOK
    <2>2. /\ queue' = AgeQueue(queue)
          /\ UNCHANGED <<active, child>>
          /\ worker'.pc = worker.pc /\ worker'.id = worker.id
          /\ worker'.generation = worker.generation
          /\ worker'.scope = worker.scope /\ worker'.key = worker.key
      BY <1>6, <2>1 DEF Tick, Worker
    <2>3. Retires(queue', queue) /\ \A j \in Ids : StateOf(queue', j) = StateOf(queue, j)
      BY <2>1, <2>2, AgeQueueRetires, AgeQueueLemma, ZenonT(30) DEF StateOf
    <2>4. FlightOK(queue') /\ Fresh(queue') /\ JobIsInflight'
      BY <2>2, <2>3, RetiresJob, ZenonT(30) DEF JobIsInflight
    <2>5. NoOrphanDecrypt'
      <3>1. active \in Ids \cup {NoId}
        BY Zenon DEF TypeInv, TypeOK
      <3> QED
        BY <2>2, <2>3, <3>1, Zenon DEF FlightInv, NoOrphanDecrypt
    <2> QED
      BY <2>4, <2>5, Zenon DEF FlightInv
  <1>7. CASE UNCHANGED vars
    BY <1>7, FlightUntouched DEF vars
  <1> QED
    BY <1>1, <1>2, <1>3, <1>4, <1>5, <1>6, <1>7, Zenon DEF Next

LEMMA FlightInvariant == Spec => [](TypeInv /\ FlightInv)
  BY TypeInit, TypeStep, FlightInit, FlightStep, PTL DEF Spec

(* One decrypt at a time, for any number of requests: Decrypting, the      *)
(* queue's inflight and the worker's job always name the same request and  *)
(* generation.                                                             *)
THEOREM SingleFlightHolds == Spec => []SingleFlight
  <1>1. FlightInv => SingleFlight
    BY Zenon DEF FlightInv, FlightOK, JobIsInflight, SingleFlight
  <1> QED
    BY <1>1, FlightInvariant, PTL

(* A published process group is always that of the Decrypting request, and *)
(* no published child outlives the end of its request, however deny, lock, *)
(* timeouts and on_started interleave.                                     *)
THEOREM NoOrphanDecryptHolds == Spec => []NoOrphanDecrypt
  <1>1. FlightInv => NoOrphanDecrypt
    BY Zenon DEF FlightInv
  <1> QED
    BY <1>1, FlightInvariant, PTL

-----------------------------------------------------------------------------
(* What a step that queues no request does to the queue: requests end or   *)
(* are forgotten, and none changes its scope or key.                       *)

Steady(p, q) ==
    /\ p.nextId = q.nextId
    /\ \A j \in Ids : StateOf(p, j) # "Absent" =>
          /\ StateOf(q, j) # "Absent"
          /\ p.requests[j].scope = q.requests[j].scope
          /\ p.requests[j].key = q.requests[j].key
          /\ IsActive(p, j) => IsActive(q, j)

LEMMA SteadyTrans ==
    ASSUME NEW o, NEW q, NEW p, Steady(q, o), Steady(p, q)
    PROVE  Steady(p, o)
  BY Zenon DEF Steady

LEMMA SteadySame ==
    ASSUME NEW q, NEW p, p.nextId = q.nextId, p.requests = q.requests
    PROVE  Steady(p, q)
  BY Zenon DEF Steady, StateOf, IsActive

LEMMA SteadyEnded ==
    ASSUME NEW q, NEW i \in Ids, NEW st \in OverStates, NEW p,
           EndedAs(p, q, i, st), StateOf(q, i) # "Absent"
    PROVE  Steady(p, q)
  BY Zenon DEF Steady, EndedAs, StateOf, IsActive, ActiveStates, OverStates

LEMMA SteadyCancel ==
    ASSUME NEW q \in Queue, NEW i \in Ids, NEW st \in {"Denied", "TimedOut"}
    PROVE  Steady(Cancel(q, i, st), q)
  <1>1. st \in OverStates
    BY DEF OverStates
  <1>2. CASE IsActive(q, i)
    <2>1. EndedAs(Cancel(q, i, st), q, i, st) /\ StateOf(q, i) # "Absent"
      BY <1>1, <1>2, CancelLemma, Zenon DEF IsActive, ActiveStates
    <2> QED
      BY <1>1, <2>1, SteadyEnded, Zenon
  <1>3. CASE ~IsActive(q, i)
    <2>1. Cancel(q, i, st) = q
      BY <1>1, <1>3, CancelLemma, Zenon
    <2> QED
      BY <2>1, SteadySame, Zenon
  <1> QED
    BY <1>2, <1>3, Zenon

LEMMA SteadyComplete ==
    ASSUME NEW q \in Queue, NEW i \in Ids, NEW g
    PROVE  Steady(Complete(q, i, g), q)
  <1>1. CASE StillCurrent(q, i, g)
    <2>1. EndedAs(Complete(q, i, g), q, i, "Granted") /\ StateOf(q, i) # "Absent"
      BY <1>1, CompleteLemma, Zenon DEF StillCurrent
    <2> QED
      BY <2>1, SteadyEnded, Zenon DEF OverStates
  <1>2. CASE ~StillCurrent(q, i, g)
    BY <1>2, CompleteLemma, FinishLemma, SteadySame
  <1> QED
    BY <1>1, <1>2

LEMMA SteadyFail ==
    ASSUME NEW q \in Queue, NEW i \in Ids
    PROVE  Steady(Fail(q, i), q)
  <1>1. CASE StateOf(q, i) # "Absent"
    <2>1. EndedAs(Fail(q, i), q, i, "Failed")
      BY <1>1, FailLemma, Zenon
    <2> QED
      BY <1>1, <2>1, SteadyEnded, Zenon DEF OverStates
  <1>2. CASE StateOf(q, i) = "Absent"
    BY <1>2, FailLemma, FinishLemma, SteadySame
  <1> QED
    BY <1>1, <1>2

LEMMA SteadySwept ==
    ASSUME queue \in Queue
    PROVE  Swept \in Queue /\ Steady(Swept, queue)
  <1> DEFINE t == SweepTimeouts(queue)
  <1>1. /\ t \in Queue /\ t.nextId = queue.nextId
        /\ \A j \in Ids \ Overdue(queue) : t.requests[j] = queue.requests[j]
        /\ \A j \in Overdue(queue) :
              /\ IsActive(queue, j)
              /\ t.requests[j].state = "TimedOut"
              /\ t.requests[j].scope = queue.requests[j].scope
              /\ t.requests[j].key = queue.requests[j].key
    BY SweepTimeoutsLemma, Zenon
  <1>2. Swept = Prune(t) /\ NoRequest.state = "Absent"
    BY Zenon DEF Swept, NoRequest
  <1> HIDE DEF t
  <1>3. Steady(t, queue)
    BY <1>1 DEF Steady, StateOf, IsActive, ActiveStates
  <1>4. /\ Prune(t) \in Queue /\ Prune(t).nextId = t.nextId
        /\ \A j \in Ids : \/ Prune(t).requests[j] = t.requests[j]
                          \/ Prune(t).requests[j].state = "Absent"
    BY <1>1, <1>2, PruneLemma, ZenonT(30)
  <1>5. Steady(Prune(t), t)
    BY <1>4, Zenon DEF Steady, StateOf, IsActive
  <1> QED
    BY <1>2, <1>3, <1>4, <1>5, SteadyTrans, Zenon

LEMMA SteadyStart ==
    ASSUME queue \in Queue, NEW i \in Ids, WorkerStart(i)
    PROVE  Steady(queue', queue)
  <1>1. Swept \in Queue /\ Steady(Swept, queue)
    BY SteadySwept
  <1>2. StateOf(Swept, i) = "Pending"
    BY Zenon DEF WorkerStart, NextReady, First, PendingIds
  <1>3. /\ queue'.nextId = Swept.nextId
        /\ \A j \in Ids \ {i} : queue'.requests[j] = Swept.requests[j]
        /\ queue'.requests[i].scope = Swept.requests[i].scope
        /\ queue'.requests[i].key = Swept.requests[i].key
    BY <1>1, MarkDecryptingLemma, ZenonT(30) DEF WorkerStart
  <1>4. Steady(queue', Swept)
    BY <1>2, <1>3, Zenon DEF Steady, StateOf, IsActive, ActiveStates
  <1> QED
    BY <1>1, <1>4, SteadyTrans, Zenon

(* The steps that write the queue. *)
LEMMA QueueWriters ==
    ASSUME [Next]_vars
    PROVE  \/ UNCHANGED queue
           \/ \E i \in Ids : DenyRequest(i) \/ WorkerStart(i)
           \/ \E c \in Conns : AwaitQueued(c) \/ WakeDeadline(c)
           \/ \E e : WorkerFails(e)
           \/ Lock \/ WorkerWait \/ WorkerSucceeds \/ Tick
  <1> USE DEF core
  <1>1. CASE Environment \/ UNCHANGED vars
    <2> DEFINE same == UNCHANGED queue
    <2>1. UNCHANGED vars => same
      BY Zenon DEF vars
    <2>2. HumanTouches \/ ChildSucceeds \/ ChildFails => same
      BY Zenon DEF HumanTouches, ChildSucceeds, ChildFails
    <2>3. \A k, f : SetFile(k, f) => same
      BY DEF SetFile
    <2>4. \A t : RootExits(t) => same
      BY ZenonT(30) DEF RootExits
    <2>5. \A y : TtyVanishes(y) \/ TtyAppears(y) => same
      BY DEF TtyVanishes, TtyAppears
    <2> HIDE DEF same
    <2>6. same
      BY <1>1, <2>1, <2>2, <2>3, <2>4, <2>5, Zenon
      DEF Environment, ReplaceFile, RemoveFile, DuplicateFile, RemoveDuplicate
    <2> QED
      BY <2>6, Zenon DEF same
  <1>2. ASSUME \/ \E t, s : RegisterSession(t, s)
               \/ \E s : UnregisterSession(s)
               \/ \E r, cap : RedeemReceipt(r, cap)
        PROVE  UNCHANGED queue
    BY <1>2, Zenon DEF RegisterSession, UnregisterSession, RedeemReceipt
  <1>3. ASSUME NEW c \in Conns, Arrive(c) PROVE UNCHANGED queue
    BY <1>3, Zenon DEF Arrive, BeginAuthorize, RefuseCapabilityKey, ResolveAccess,
                       ResolveRefused
  <1>4. ASSUME NEW c \in Conns, Handler(c), ~WakeDeadline(c), ~AwaitQueued(c)
        PROVE  UNCHANGED queue
    BY <1>4, ZenonT(60)
    DEF Handler, AwaitCached, WakeGranted, WakeEnded, FetchValue, FinishAuthorization,
        AwaitRefused, AwaitCoalesced, MustAsk
  <1>5. ASSUME DecryptSpawn \/ OnStarted \/ WorkerDeadline \/ \E e : DecryptRefused(e)
        PROVE  UNCHANGED queue
    BY <1>5, ZenonT(60) DEF DecryptSpawn, OnStarted, WorkerDeadline, DecryptRefused
  <1> QED
    BY <1>1, <1>2, <1>3, <1>4, <1>5, ZenonT(60) DEF Next, Command, WorkerStep

LEMMA QueuedStep ==
    ASSUME TypeInv, NEW c \in Conns, AwaitQueued(c)
    PROVE  /\ queue.nextId \in Ids /\ queue'.nextId = queue.nextId + 1
           /\ \A j \in Ids \ {queue.nextId} : queue'.requests[j] = queue.requests[j]
           /\ queue'.requests[queue.nextId].state = "Pending"
           /\ queue'.requests[queue.nextId].scope = conn[c].scope
           /\ queue'.requests[queue.nextId].key = conn[c].key
  <1>1. /\ conn[c].scope \in Scopes /\ conn[c].key \in Keys /\ queue.nextId \in Ids
        /\ queue' = Push(queue, conn[c].scope, conn[c].key) /\ queue \in Queue
    BY MustAskType DEF AwaitQueued, TypeInv, TypeOK
  <1>2. Appended(queue', queue, conn[c].scope, conn[c].key)
    BY <1>1, PushAppends, Zenon
  <1> QED
    BY <1>1, <1>2, Zenon DEF Appended

LEMMA SteadyStep ==
    ASSUME TypeInv, [Next]_vars, \A c \in Conns : ~AwaitQueued(c)
    PROVE  Steady(queue', queue)
  <1>0. /\ queue \in Queue /\ (active = NoId \/ active \in Ids)
        /\ worker.pc # "idle" => worker.id \in Ids
        /\ \A c \in Conns : ConnOK(conn[c])
    BY Zenon DEF TypeInv, TypeOK, WorkerOK
  <1>1. CASE UNCHANGED queue
    BY <1>1, SteadySame, Zenon
  <1>2. ASSUME NEW i \in Ids, DenyRequest(i) PROVE Steady(queue', queue)
    BY <1>0, <1>2, SteadyCancel, Zenon DEF DenyRequest, Deny
  <1>3. ASSUME NEW i \in Ids, WorkerStart(i) PROVE Steady(queue', queue)
    BY <1>0, <1>3, SteadyStart, Zenon
  <1>4. ASSUME NEW c \in Conns, WakeDeadline(c) PROVE Steady(queue', queue)
    BY <1>0, <1>4, SteadyCancel, Zenon DEF WakeDeadline, Timeout, ConnOK
  <1>5. ASSUME NEW e, WorkerFails(e) PROVE Steady(queue', queue)
    BY <1>0, <1>5, SteadyFail, Zenon DEF WorkerFails, DecryptError
  <1>6. CASE Lock
    BY <1>0, <1>1, <1>6, SteadyCancel, Zenon DEF Lock, Deny
  <1>7. CASE WorkerWait
    BY <1>0, <1>7, SteadySwept, Zenon DEF WorkerWait
  <1>8. CASE WorkerSucceeds
    <2> DEFINE q == IF Withdrawn THEN Deny(queue, worker.id) ELSE queue
    <2>1. worker.id \in Ids /\ queue' = Complete(q, worker.id, worker.generation)
      BY <1>0, <1>8, Zenon DEF WorkerSucceeds
    <2>2. q \in Queue /\ Steady(q, queue)
      <3>1. Deny(queue, worker.id) \in Queue /\ Steady(Deny(queue, worker.id), queue)
        BY <1>0, <2>1, CancelRetires, SteadyCancel, Zenon DEF Deny, Retires
      <3>2. Steady(queue, queue)
        BY SteadySame
      <3> QED
        BY <1>0, <3>1, <3>2, ZenonT(30)
    <2> HIDE DEF q
    <2> QED
      BY <2>1, <2>2, SteadyComplete, SteadyTrans, Zenon
  <1>9. CASE Tick
    <2>1. /\ queue'.nextId = queue.nextId
          /\ \A j \in Ids : SameRequest(queue', queue, j)
      BY <1>0, <1>9, AgeQueueLemma, Zenon DEF Tick, SameRequest
    <2> QED
      BY <2>1, Zenon DEF Steady, SameRequest, StateOf, IsActive
  <1> QED
    BY <1>1, <1>2, <1>3, <1>4, <1>5, <1>6, <1>7, <1>8, <1>9, QueueWriters, ZenonT(30)

(* Every step: the requests handed out so far keep their scope and key as  *)
(* long as they are remembered.                                            *)
Evolves(p, q) ==
    /\ q.nextId <= p.nextId
    /\ \A j \in Ids : j < q.nextId /\ StateOf(p, j) # "Absent" =>
          /\ StateOf(q, j) # "Absent"
          /\ p.requests[j].scope = q.requests[j].scope
          /\ p.requests[j].key = q.requests[j].key

LEMMA EvolvesStep ==
    ASSUME TypeInv, [Next]_vars
    PROVE  Evolves(queue', queue)
  <1>0. queue.nextId \in Nat
    BY DEF TypeInv, TypeOK, Queue
  <1>1. CASE \A c \in Conns : ~AwaitQueued(c)
    <2>1. Steady(queue', queue)
      BY <1>1, SteadyStep, Zenon
    <2> QED
      BY <1>0, <2>1, SMTT(30) DEF Steady, Evolves
  <1>2. ASSUME NEW c \in Conns, AwaitQueued(c) PROVE Evolves(queue', queue)
    BY <1>0, <1>2, QueuedStep, SMTT(30) DEF Evolves, StateOf, Ids
  <1> QED
    BY <1>1, <1>2, Zenon

(* No request is begun or granted that was not begun before. *)
NoStart(p, q) ==
    \A j \in Ids : StateOf(p, j) \in {"Decrypting", "Granted"} =>
                     StateOf(q, j) \in {"Decrypting", "Granted"}

LEMMA RetiresNoStart ==
    ASSUME NEW q, NEW p, Retires(p, q)
    PROVE  NoStart(p, q)
  BY Zenon DEF Retires, NoStart, SameRequest, StateOf, IsActive, ActiveStates

(* Only a finishing AUTHORIZE adds a receipt, and only time changes one. *)
LEMMA ReceiptsMove ==
    ASSUME [Next]_vars
    PROVE  \/ receipts' \subseteq receipts
           \/ Tick
           \/ \E c \in Conns : FinishAuthorization(c)
  <1> USE DEF core
  <1>1. CASE Environment \/ UNCHANGED vars
    <2> DEFINE same == UNCHANGED receipts
    <2>1. UNCHANGED vars => same
      BY Zenon DEF vars
    <2>2. HumanTouches \/ ChildSucceeds \/ ChildFails => same
      BY Zenon DEF HumanTouches, ChildSucceeds, ChildFails
    <2>3. \A k, f : SetFile(k, f) => same
      BY DEF SetFile
    <2>4. \A t : RootExits(t) => same
      BY Zenon DEF RootExits
    <2>5. \A y : TtyVanishes(y) \/ TtyAppears(y) => same
      BY Zenon DEF TtyVanishes, TtyAppears
    <2> HIDE DEF same
    <2>6. same
      BY <1>1, <2>1, <2>2, <2>3, <2>4, <2>5, Zenon
      DEF Environment, ReplaceFile, RemoveFile, DuplicateFile, RemoveDuplicate
    <2> QED
      BY <2>6, Zenon DEF same
  <1>2. CASE Command
    <2>1. ASSUME NEW r, NEW cap, RedeemReceipt(r, cap) PROVE receipts' \subseteq receipts
      BY <2>1 DEF RedeemReceipt, Redeem, SweepReceipts
    <2>2. ASSUME \/ \E t, s : RegisterSession(t, s)
                 \/ \E s : UnregisterSession(s)
                 \/ \E i : DenyRequest(i)
          PROVE  receipts' = receipts
      BY <2>2, Zenon DEF RegisterSession, UnregisterSession, DenyRequest
    <2>3. CASE Lock
      BY <2>3 DEF Lock
    <2> QED
      BY <1>2, <2>1, <2>2, <2>3, ZenonT(30) DEF Command
  <1>3. ASSUME NEW c \in Conns, Arrive(c) PROVE receipts' = receipts
    BY <1>3, Zenon DEF Arrive, BeginAuthorize, RefuseCapabilityKey, ResolveAccess,
                       ResolveRefused
  <1>4. ASSUME NEW c \in Conns, Handler(c), ~FinishAuthorization(c)
        PROVE  receipts' = receipts
    BY <1>4, ZenonT(60)
    DEF Handler, AwaitCached, WakeGranted, WakeEnded, FetchValue, AwaitRefused,
        AwaitCoalesced, AwaitQueued, WakeDeadline, MustAsk
  <1>5. CASE WorkerStep
    <2>1. Housekeeping => receipts' \subseteq receipts
      BY DEF Housekeeping, SweepReceipts
    <2>2. CASE WorkerWait \/ \E i \in Ids : WorkerStart(i)
      BY <2>1, <2>2, Zenon DEF WorkerWait, WorkerStart
    <2>3. CASE ~(WorkerWait \/ \E i \in Ids : WorkerStart(i))
      <3>1. receipts' = receipts
        BY <1>5, <2>3, ZenonT(60)
        DEF WorkerStep, DecryptSpawn, OnStarted, WorkerDeadline, WorkerSucceeds,
            DecryptRefused, WorkerFails, BackToIdle
      <3> QED
        BY <3>1
    <2> QED
      BY <2>2, <2>3
  <1> QED
    BY <1>1, <1>2, <1>3, <1>4, <1>5, Zenon DEF Next

=============================================================================
