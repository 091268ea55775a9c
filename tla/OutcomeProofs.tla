--------------------------- MODULE OutcomeProofs ----------------------------
(***************************************************************************)
(* What a handler may rely on between two of its critical sections, and    *)
(* what a step may do to a request or a grant, for every value of the      *)
(* constants.                                                              *)
(*                                                                         *)
(* The request a handler waits on is its own, and what it serves from the  *)
(* cache is current: ConnStep, on what any step does to one handler,       *)
(* carries the proofs, with EvolvesStep for the queue and GrantsMove for   *)
(* the cache.                                                              *)
(*                                                                         *)
(* The daemon implements the approval desk, a grant comes only from the    *)
(* approval of its own request, a request that has ended stays ended, and  *)
(* one ceremony attests once.  Nearly every step only ends requests and    *)
(* drops grants, and maps to a withdrawal at the desk; the three that do   *)
(* more are the one that queues a request, the one that starts a decrypt   *)
(* and the one that grants.                                                *)
(*                                                                         *)
(* fail overwrites whatever state a request is in, so that Granted is      *)
(* final rests on an invariant of the worker: the request of its job is    *)
(* never Granted while the job runs.                                       *)
(***************************************************************************)
EXTENDS BrokerProofs

-----------------------------------------------------------------------------
(* What a step does to one handler. *)

(* What the handler carries besides its place, its clock and its history. *)
Carries(r, s) ==
    /\ r.op = s.op /\ r.scope = s.scope /\ r.key = s.key /\ r.id = s.id
    /\ r.seen = s.seen /\ r.answer = s.answer /\ r.served = s.served

Stays(d) == Carries(conn'[d], conn[d]) /\ conn'[d].pc = conn[d].pc

(* It begins, or ends without bytes. *)
Leaves(d) ==
    /\ conn'[d].pc \in {"resolve", "done"}
    /\ conn'[d].answer = "BYTES" => conn[d].answer = "BYTES" /\ conn[d].pc # "done"

Sends(d) ==
    /\ conn[d].pc = "fetch" /\ conn'[d].pc = "done"
    /\ conn'[d].id = conn[d].id /\ conn'[d].seen = conn[d].seen
    /\ \E g \in LookupGrant(grants, conn[d].scope, conn[d].key) :
          conn'[d].served = g.version

Resolves(d) ==
    /\ conn[d].pc # "done" /\ conn'[d].pc = "await"
    /\ conn'[d].answer = conn[d].answer
    /\ conn'[d].seen = files[conn'[d].key].version

Serves(d) ==
    /\ Servable(d)
    /\ Carries(conn'[d], conn[d])
    /\ conn[d].pc = "await" /\ conn'[d].pc = "fetch"
    /\ UNCHANGED <<grants, worker>>

Joins(d) ==
    /\ conn[d].pc = "await" /\ conn'[d].pc = "waiting"
    /\ conn'[d].op = conn[d].op /\ conn'[d].scope = conn[d].scope
    /\ conn'[d].key = conn[d].key /\ conn'[d].answer = conn[d].answer
    /\ conn'[d].id \in Coalescible(queue, conn[d].scope, conn[d].key)
    /\ UNCHANGED <<queue, ceremony, receipts>>

Queues(d) ==
    /\ AwaitQueued(d)
    /\ conn[d].pc = "await" /\ conn'[d].pc = "waiting"
    /\ conn'[d].op = conn[d].op /\ conn'[d].scope = conn[d].scope
    /\ conn'[d].key = conn[d].key /\ conn'[d].answer = conn[d].answer
    /\ conn'[d].id = queue.nextId

Wakes(d) ==
    /\ StateOf(queue, conn[d].id) = "Granted"
    /\ Carries(conn'[d], conn[d])
    /\ conn[d].pc = "waiting"
    /\ \/ conn'[d].pc = "fetch"
       \/ conn'[d].pc = "mint" /\ conn[d].op = "AUTHORIZE"
    /\ UNCHANGED <<queue, ceremony, receipts>>

Moves(d) == Stays(d) \/ Leaves(d) \/ Sends(d) \/ Resolves(d) \/ Serves(d) \/ Joins(d)
              \/ Queues(d) \/ Wakes(d)

LEMMA AnswerMoves ==
    ASSUME conn \in [Conns -> Conn], NEW c \in Conns, NEW a, a # "BYTES", Answer(c, a)
    PROVE  \A d \in Conns : IF d = c THEN Leaves(d) ELSE Stays(d)
  <1> DEFINE r == [NewConn EXCEPT !.pc = "done", !.answer = a]
  <1>1. r.pc = "done" /\ r.answer = a
    BY DEF NewConn
  <1>2. conn' = [conn EXCEPT ![c] = r]
    BY DEF Answer
  <1> HIDE DEF r
  <1> QED
    BY <1>1, <1>2 DEF Leaves, Stays, Carries

LEMMA MoveOf ==
    ASSUME conn \in [Conns -> Conn], NEW c \in Conns, NEW r, conn' = [conn EXCEPT ![c] = r]
    PROVE  conn'[c] = r /\ \A d \in Conns \ {c} : Stays(d)
  BY DEF Stays, Carries

LEMMA ArriveMoves ==
    ASSUME TypeInv, NEW c \in Conns, Arrive(c), NEW d \in Conns
    PROVE  Moves(d)
  <1>0. conn \in [Conns -> Conn] /\ conn[c] \in Conn
    BY DEF TypeInv, TypeOK
  <1>1. CASE BeginAuthorize(c)
    <2> DEFINE r == [conn[c] EXCEPT !.pc = "resolve", !.op = "AUTHORIZE",
                                    !.epoch = lockEpoch]
    <2>1. r.pc = "resolve" /\ r.answer = conn[c].answer
      BY <1>0 DEF Conn
    <2>2. conn' = [conn EXCEPT ![c] = r] /\ conn[c].pc = "new"
      BY <1>1 DEF BeginAuthorize
    <2> HIDE DEF r
    <2>3. conn'[c] = r /\ (d # c => Stays(d))
      BY <1>0, <2>2, MoveOf, Zenon
    <2> QED
      BY <2>1, <2>2, <2>3, ZenonT(30) DEF Moves, Leaves
  <1>2. CASE RefuseCapabilityKey(c)
    BY <1>0, <1>2, AnswerMoves, Zenon DEF RefuseCapabilityKey, Moves
  <1>3. ASSUME NEW op, NEW k, NEW t, NEW y, ResolveAccess(c, op, k, t, y)
        PROVE  Moves(d)
    <2> DEFINE r == [conn[c] EXCEPT !.pc = "await", !.op = op, !.key = k,
                                    !.scope = ResolvedScope(t, y),
                                    !.seen = files[k].version,
                                    !.reg = IF t # None THEN regs[t] ELSE 0]
    <2>1. /\ r.pc = "await" /\ r.answer = conn[c].answer /\ r.key = k
          /\ r.seen = files[k].version
      BY <1>0 DEF Conn
    <2>2. conn' = [conn EXCEPT ![c] = r] /\ conn[c].pc # "done"
      BY <1>3 DEF ResolveAccess, MayResolve
    <2> HIDE DEF r
    <2>3. conn'[c] = r /\ (d # c => Stays(d))
      BY <1>0, <2>2, MoveOf, Zenon
    <2> QED
      BY <2>1, <2>2, <2>3, ZenonT(30) DEF Moves, Resolves
  <1>4. ASSUME NEW op, NEW k, NEW t, NEW y, NEW b, ResolveRefused(c, op, k, t, y, b)
        PROVE  Moves(d)
    BY <1>0, <1>4, AnswerMoves, Zenon DEF ResolveRefused, Moves
  <1> QED
    BY <1>1, <1>2, <1>3, <1>4, Zenon DEF Arrive

LEMMA HandlerMoves ==
    ASSUME TypeInv, NEW c \in Conns, Handler(c), NEW d \in Conns
    PROVE  Moves(d)
  <1> USE DEF core, history
  <1>0. conn \in [Conns -> Conn] /\ conn[c] \in Conn /\ ConnOK(conn[c])
    BY DEF TypeInv, TypeOK
  <1>1. ASSUME NEW a, a # "BYTES", Answer(c, a) PROVE Moves(d)
    BY <1>0, <1>1, AnswerMoves, Zenon DEF Moves
  <1>2. ASSUME NEW r, conn' = [conn EXCEPT ![c] = r], conn'[c] = r => Moves(c)
        PROVE  Moves(d)
    BY <1>0, <1>2, MoveOf, Zenon DEF Moves
  <1>3. \A p : /\ Carries([conn[c] EXCEPT !.pc = p], conn[c])
               /\ [conn[c] EXCEPT !.pc = p].pc = p
    BY <1>0 DEF Conn, Carries
  <1>4. \A i : LET r == [conn[c] EXCEPT !.pc = "waiting", !.id = i, !.waited = 0]
               IN  /\ r.pc = "waiting" /\ r.id = i /\ r.op = conn[c].op
                   /\ r.scope = conn[c].scope /\ r.key = conn[c].key
                   /\ r.answer = conn[c].answer
    BY <1>0 DEF Conn
  <1>5. CASE AwaitCached(c)
    <2>1. CASE conn[c].op = "GET"
      <3> DEFINE r == [conn[c] EXCEPT !.pc = "fetch"]
      <3>1. conn' = [conn EXCEPT ![c] = r] /\ Servable(c) /\ conn[c].pc = "await"
            /\ UNCHANGED <<grants, worker>>
        BY <1>5, <2>1 DEF AwaitCached
      <3>2. Carries(r, conn[c]) /\ r.pc = "fetch"
        BY <1>3
      <3> HIDE DEF r
      <3>3. conn'[c] = r => Moves(c)
        BY <3>1, <3>2, Zenon DEF Moves, Serves
      <3> QED
        BY <1>2, <3>1, <3>3, Zenon
    <2>2. CASE conn[c].op # "GET"
      BY <1>1, <1>5, <2>2, Zenon DEF AwaitCached
    <2> QED
      BY <2>1, <2>2
  <1>6. CASE AwaitRefused(c)
    <2>1. FileError(conn[c].key) # "BYTES"
      BY DEF FileError
    <2> QED
      BY <1>1, <1>6, <2>1, ZenonT(30) DEF AwaitRefused
  <1>7. CASE AwaitCoalesced(c)
    <2>1. PICK i \in Ids : /\ i \in Coalescible(queue, conn[c].scope, conn[c].key)
                           /\ Waiting(c, i)
      BY <1>7, Zenon DEF AwaitCoalesced, First
    <2> DEFINE r == [conn[c] EXCEPT !.pc = "waiting", !.id = i, !.waited = 0]
    <2>2. /\ r.pc = "waiting" /\ r.id = i /\ r.op = conn[c].op
          /\ r.scope = conn[c].scope /\ r.key = conn[c].key /\ r.answer = conn[c].answer
      BY <1>4
    <2>3. /\ conn' = [conn EXCEPT ![c] = r] /\ conn[c].pc = "await"
          /\ UNCHANGED <<queue, ceremony, receipts>>
      BY <1>7, <2>1, Zenon DEF Waiting, AwaitCoalesced, MustAsk
    <2> HIDE DEF r
    <2>4. conn'[c] = r => Moves(c)
      BY <2>1, <2>2, <2>3, Zenon DEF Moves, Joins
    <2> QED
      BY <1>2, <2>3, <2>4, Zenon
  <1>8. CASE AwaitQueued(c)
    <2> DEFINE r == [conn[c] EXCEPT !.pc = "waiting", !.id = queue.nextId, !.waited = 0]
    <2>1. /\ r.pc = "waiting" /\ r.id = queue.nextId /\ r.op = conn[c].op
          /\ r.scope = conn[c].scope /\ r.key = conn[c].key /\ r.answer = conn[c].answer
      BY <1>4
    <2>2. conn' = [conn EXCEPT ![c] = r] /\ conn[c].pc = "await"
      BY <1>8 DEF Waiting, AwaitQueued, MustAsk
    <2> HIDE DEF r
    <2>3. conn'[c] = r => Moves(c)
      BY <1>8, <2>1, <2>2, Zenon DEF Moves, Queues
    <2> QED
      BY <1>2, <2>2, <2>3, Zenon
  <1>9. CASE WakeGranted(c)
    <2>1. /\ conn[c].pc = "waiting" /\ StateOf(queue, conn[c].id) = "Granted"
          /\ UNCHANGED <<queue, ceremony, receipts>>
      BY <1>9 DEF WakeGranted
    <2>2. ASSUME NEW p \in {"fetch", "mint"}, p = "mint" => conn[c].op = "AUTHORIZE",
                 conn' = [conn EXCEPT ![c] = [conn[c] EXCEPT !.pc = p]]
          PROVE  Moves(d)
      <3> DEFINE r == [conn[c] EXCEPT !.pc = p]
      <3>1. conn' = [conn EXCEPT ![c] = r]
        BY <2>2
      <3>2. Carries(r, conn[c]) /\ r.pc = p
        BY <1>3
      <3> HIDE DEF r
      <3>3. conn'[c] = r => Moves(c)
        BY <2>1, <2>2, <3>2, Zenon DEF Moves, Wakes
      <3> QED
        BY <1>2, <3>1, <3>3, Zenon
    <2>3. CASE conn[c].op = "GET"
      <3>1. conn' = [conn EXCEPT ![c] = [conn[c] EXCEPT !.pc = "fetch"]]
        BY <1>9, <2>3 DEF WakeGranted
      <3> QED
        BY <2>2, <3>1
    <2>4. CASE conn[c].op = "AUTHORIZE"
      <3>1. conn' = [conn EXCEPT ![c] = [conn[c] EXCEPT !.pc = "mint"]]
        BY <1>9, <2>4 DEF WakeGranted
      <3> QED
        BY <2>2, <2>4, <3>1, Zenon
    <2>5. CASE conn[c].op \notin {"GET", "AUTHORIZE"}
      BY <1>1, <1>9, <2>5, Zenon DEF WakeGranted
    <2> QED
      BY <2>3, <2>4, <2>5, ZenonT(30)
  <1>10. CASE WakeEnded(c)
    <2>1. EndCode(conn[c].id) # "BYTES"
      <3>1. /\ conn[c].id \in Ids
            /\ failures \in [Ids -> FailureCodes \cup FileErrors \cup {None}]
        BY <1>0, <1>10, Zenon DEF WakeEnded, ConnOK, TypeInv, TypeOK
      <3>2. failures[conn[c].id] # None => failures[conn[c].id] # "BYTES"
        BY <3>1 DEF FailureCodes, FileErrors
      <3> QED
        BY <3>2, Zenon DEF EndCode
    <2> QED
      BY <1>1, <1>10, <2>1, Zenon DEF WakeEnded
  <1>11. CASE WakeDeadline(c)
    BY <1>1, <1>11 DEF WakeDeadline
  <1>12. CASE FetchValue(c)
    <2>1. CASE LookupGrant(grants, conn[c].scope, conn[c].key) = {}
      BY <1>1, <1>12, <2>1, ZenonT(30) DEF FetchValue
    <2>2. CASE LookupGrant(grants, conn[c].scope, conn[c].key) # {}
      <3>1. PICK g \in LookupGrant(grants, conn[c].scope, conn[c].key) :
                AnswerBytes(c, g.version)
        BY <1>12, <2>2, Zenon DEF FetchValue
      <3> DEFINE r == [NewConn EXCEPT !.pc = "done", !.answer = "BYTES",
                                      !.id = conn[c].id, !.seen = conn[c].seen,
                                      !.served = g.version]
      <3>2. /\ r.pc = "done" /\ r.id = conn[c].id /\ r.seen = conn[c].seen
            /\ r.served = g.version
        BY DEF NewConn
      <3>3. conn' = [conn EXCEPT ![c] = r] /\ conn[c].pc = "fetch"
        BY <1>12, <3>1, Zenon DEF AnswerBytes, FetchValue
      <3> HIDE DEF r
      <3>4. conn'[c] = r => Moves(c)
        BY <3>1, <3>2, <3>3, Zenon DEF Moves, Sends
      <3> QED
        BY <1>2, <3>3, <3>4, Zenon
    <2> QED
      BY <2>1, <2>2, Zenon
  <1>13. CASE FinishAuthorization(c)
    BY <1>1, <1>13, Zenon DEF FinishAuthorization
  <1> QED
    BY <1>5, <1>6, <1>7, <1>8, <1>9, <1>10, <1>11, <1>12, <1>13, ZenonT(30) DEF Handler

LEMMA ConnStep ==
    ASSUME TypeInv, [Next]_vars, NEW d \in Conns
    PROVE  Moves(d)
  <1> USE DEF core
  <1>1. ASSUME UNCHANGED conn PROVE Moves(d)
    BY <1>1 DEF Moves, Stays, Carries
  <1>2. CASE Environment \/ UNCHANGED vars
    <2> DEFINE same == UNCHANGED conn
    <2>1. UNCHANGED vars => same
      BY DEF vars
    <2>2. HumanTouches \/ ChildSucceeds \/ ChildFails => same
      BY DEF HumanTouches, ChildSucceeds, ChildFails
    <2>3. \A k, f : SetFile(k, f) => same
      BY DEF SetFile
    <2>4. \A t : RootExits(t) => same
      BY DEF RootExits
    <2>5. \A y : TtyVanishes(y) \/ TtyAppears(y) => same
      BY DEF TtyVanishes, TtyAppears
    <2> HIDE DEF same
    <2>6. same
      BY <1>2, <2>1, <2>2, <2>3, <2>4, <2>5, Zenon
      DEF Environment, ReplaceFile, RemoveFile, DuplicateFile, RemoveDuplicate
    <2> QED
      BY <1>1, <2>6 DEF same
  <1>3. CASE Command
    <2>1. UNCHANGED conn
      BY <1>3, Zenon DEF Command, RegisterSession, UnregisterSession, RedeemReceipt,
                         DenyRequest, Lock
    <2> QED
      BY <1>1, <2>1
  <1>4. CASE WorkerStep
    <2>1. UNCHANGED conn
      BY <1>4, ZenonT(60)
      DEF WorkerStep, WorkerWait, WorkerStart, Housekeeping, DecryptSpawn, OnStarted,
          WorkerDeadline, WorkerSucceeds, DecryptRefused, WorkerFails, BackToIdle
    <2> QED
      BY <1>1, <2>1
  <1>5. CASE Tick
    <2>1. conn[d] \in Conn
      BY DEF TypeInv, TypeOK
    <2>2. conn'[d] = conn[d] \/ conn'[d] = [conn[d] EXCEPT !.waited = @ + 1]
      BY <1>5, Zenon DEF Tick
    <2> QED
      BY <2>1, <2>2, Zenon DEF Conn, Moves, Stays, Carries
  <1> QED
    BY <1>2, <1>3, <1>4, <1>5, ArriveMoves, HandlerMoves, ZenonT(30) DEF Next

-----------------------------------------------------------------------------
(* Whose request a handler waits on. *)

Holds(r) == r.pc \in {"waiting", "mint"}

OwnRequest(r, q) ==
    Holds(r) => /\ r.id < q.nextId
                /\ StateOf(q, r.id) # "Absent" =>
                      /\ q.requests[r.id].scope = r.scope
                      /\ q.requests[r.id].key = r.key

(* No other handler waits on the request of an AUTHORIZE. *)
SoleWaiter(r, s) == Holds(r) /\ r.op = "AUTHORIZE" /\ Holds(s) => r.id # s.id

WaitInv ==
    /\ \A c \in Conns : OwnRequest(conn[c], queue)
    /\ \A c, d \in Conns : c # d => SoleWaiter(conn[c], conn[d])

LEMMA Joined ==
    ASSUME TypeInv, FlightInv, NEW c \in Conns, Joins(c)
    PROVE  /\ conn'[c].id \in Ids /\ conn'[c].id < queue.nextId
           /\ IsActive(queue, conn'[c].id)
           /\ queue.requests[conn'[c].id].scope = conn'[c].scope
           /\ queue.requests[conn'[c].id].key = conn'[c].key
           /\ conn'[c].key \notin CapKeys
           /\ conn'[c].op # "AUTHORIZE"
  <1> DEFINE i == conn'[c].id
  <1>1. /\ i \in Ids /\ IsActive(queue, i) /\ conn[c].key \notin CapKeys
        /\ queue.requests[i].scope = conn[c].scope
        /\ queue.requests[i].key = conn[c].key
    BY Zenon DEF Joins, Coalescible
  <1>2. conn[c].op # "AUTHORIZE"
    BY <1>1, Zenon DEF Joins, TypeInv, ConnOK
  <1>3. i < queue.nextId
    <2>1. StateOf(queue, i) # "Absent"
      BY <1>1, Zenon DEF IsActive, ActiveStates
    <2> QED
      BY <1>1, <2>1 DEF FlightInv, Fresh, Ids, TypeInv, TypeOK, Queue
  <1> QED
    BY <1>1, <1>2, <1>3, Zenon DEF Joins

(* Where the request that a handler holds after a step comes from. *)
LEMMA HoldsAfter ==
    ASSUME NEW c \in Conns, Moves(c), Holds(conn'[c])
    PROVE  \/ /\ Holds(conn[c])
              /\ Carries(conn'[c], conn[c])
           \/ Joins(c)
           \/ Queues(c)
  BY Zenon DEF Moves, Stays, Leaves, Sends, Resolves, Serves, Wakes, Holds

LEMMA OwnStep ==
    ASSUME TypeInv, FlightInv, WaitInv, [Next]_vars, NEW c \in Conns
    PROVE  OwnRequest(conn'[c], queue')
  <1>1. SUFFICES ASSUME Holds(conn'[c]) PROVE OwnRequest(conn'[c], queue')
    BY DEF OwnRequest
  <1>2. CASE Holds(conn[c]) /\ Carries(conn'[c], conn[c])
    <2>1. /\ conn[c].id \in Ids /\ queue.nextId \in Nat /\ queue'.nextId \in Nat
          /\ conn[c].id < queue.nextId
      <3>1. TypeInv'
        BY TypeStep, Zenon
      <3> QED
        BY <1>2, <3>1 DEF TypeInv, TypeOK, Queue, ConnOK, Holds, WaitInv, OwnRequest
    <2>2. /\ queue.nextId <= queue'.nextId
          /\ StateOf(queue', conn[c].id) # "Absent" =>
                /\ StateOf(queue, conn[c].id) # "Absent"
                /\ queue'.requests[conn[c].id].scope = queue.requests[conn[c].id].scope
                /\ queue'.requests[conn[c].id].key = queue.requests[conn[c].id].key
      BY <2>1, EvolvesStep, Zenon DEF Evolves
    <2>3. conn[c].id < queue'.nextId
      BY <2>1, <2>2 DEF Ids
    <2> QED
      BY <1>2, <2>2, <2>3, ZenonT(30) DEF WaitInv, OwnRequest, Carries
  <1>3. CASE Joins(c)
    <2>1. queue' = queue
      BY <1>3 DEF Joins
    <2> QED
      BY <1>3, <2>1, Joined, Zenon DEF OwnRequest
  <1>4. CASE Queues(c)
    <2>1. /\ queue.nextId \in Ids /\ queue'.nextId = queue.nextId + 1
          /\ queue'.requests[queue.nextId].scope = conn[c].scope
          /\ queue'.requests[queue.nextId].key = conn[c].key
      BY <1>4, QueuedStep, Zenon DEF Queues
    <2>2. queue.nextId < queue'.nextId
      BY <2>1 DEF Ids
    <2> QED
      BY <1>4, <2>1, <2>2, Zenon DEF Queues, OwnRequest
  <1> QED
    BY <1>1, <1>2, <1>3, <1>4, ConnStep, HoldsAfter, Zenon

LEMMA SoleStep ==
    ASSUME TypeInv, FlightInv, WaitInv, [Next]_vars,
           NEW c \in Conns, NEW d \in Conns, c # d
    PROVE  SoleWaiter(conn'[c], conn'[d])
  <1> DEFINE Held(e) == Holds(conn[e]) /\ Carries(conn'[e], conn[e])
  <1>1. SUFFICES ASSUME Holds(conn'[c]), conn'[c].op = "AUTHORIZE", Holds(conn'[d])
                 PROVE  conn'[c].id # conn'[d].id
    BY Zenon DEF SoleWaiter
  <1>2. /\ Held(c) \/ Joins(c) \/ Queues(c)
        /\ Held(d) \/ Joins(d) \/ Queues(d)
    BY <1>1, ConnStep, HoldsAfter, Zenon
  <1>3. ~Joins(c)
    BY <1>1, Joined, Zenon
  <1>4. \A e \in Conns : Held(e) => conn'[e].id \in Ids /\ conn'[e].id < queue.nextId
    BY DEF WaitInv, OwnRequest, Carries, TypeInv, ConnOK, Holds
  <1>5. queue.nextId \in Nat /\ Ids \subseteq Nat
    BY DEF TypeInv, TypeOK, Queue, Ids
  <1>6. \A e \in Conns : Queues(e) => conn'[e].id = queue.nextId
    BY DEF Queues
  <1>7. CASE Held(c) /\ Held(d)
    BY <1>1, <1>7, Zenon DEF WaitInv, SoleWaiter, Carries
  <1>8. CASE Held(c) /\ Joins(d)
    <2>1. /\ IsActive(queue, conn'[d].id) /\ conn'[d].key \notin CapKeys
          /\ queue.requests[conn'[d].id].key = conn'[d].key
      BY <1>8, Joined, Zenon
    <2>2. conn[c].key \in CapKeys /\ conn[c].id = conn'[c].id
      BY <1>1, <1>8, Zenon DEF TypeInv, ConnOK, Holds, Carries
    <2>3. StateOf(queue, conn[c].id) # "Absent" =>
              queue.requests[conn[c].id].key = conn[c].key
      BY <1>8, Zenon DEF WaitInv, OwnRequest
    <2> QED
      BY <2>1, <2>2, <2>3 DEF IsActive, ActiveStates
  <1>9. CASE Held(c) /\ Queues(d)
    BY <1>4, <1>5, <1>6, <1>9
  <1>10. CASE Queues(c) /\ Held(d)
    BY <1>4, <1>5, <1>6, <1>10
  <1>11. CASE Queues(c) /\ Joins(d)
    <2>1. conn'[d].id \in Ids /\ conn'[d].id < queue.nextId
      BY <1>11, Joined, Zenon
    <2> QED
      BY <1>5, <1>6, <1>11, <2>1
  <1>12. CASE Queues(c) /\ Queues(d)
    <2>1. conn'[d] = conn[d]
      BY <1>12, Zenon DEF Queues, AwaitQueued, Waiting, TypeInv, TypeOK
    <2> QED
      BY <1>12, <2>1, Zenon DEF Queues
  <1> QED
    BY <1>2, <1>3, <1>7, <1>8, <1>9, <1>10, <1>11, <1>12, ZenonT(30)

LEMMA WaitInit == Init => WaitInv
  <1> SUFFICES ASSUME Init, NEW c \in Conns PROVE ~Holds(conn[c])
    BY DEF WaitInv, OwnRequest, SoleWaiter
  <1> QED
    BY Zenon DEF Init, NewConn, Holds

LEMMA WaitStep == TypeInv /\ FlightInv /\ WaitInv /\ [Next]_vars => WaitInv'
  <1> SUFFICES ASSUME TypeInv, FlightInv, WaitInv, [Next]_vars PROVE WaitInv'
    OBVIOUS
  <1>1. \A c \in Conns : OwnRequest(conn'[c], queue')
    BY OwnStep
  <1>2. \A c, d \in Conns : c # d => SoleWaiter(conn'[c], conn'[d])
    BY SoleStep
  <1> QED
    BY <1>1, <1>2, Zenon DEF WaitInv

LEMMA WaitInvariant == Spec => [](TypeInv /\ FlightInv /\ WaitInv)
  BY WaitInit, WaitStep, FlightInvariant, PTL DEF Spec

(* A handler waits on a request of its own scope and key, and no two       *)
(* AUTHORIZE handlers, nor an AUTHORIZE and another, share one: enqueue    *)
(* never joins a capability request, and a pruned id is not handed out     *)
(* again while a handler still holds it.                                   *)
THEOREM WaitsOnOwnRequestHolds == Spec => []WaitsOnOwnRequest
  <1>1. WaitInv => WaitsOnOwnRequest
    BY Zenon DEF WaitInv, OwnRequest, SoleWaiter, Holds, WaitsOnOwnRequest
  <1> QED
    BY <1>1, WaitInvariant, PTL

-----------------------------------------------------------------------------
(* What a step does to the grants. *)

Shrinks == grants' \subseteq grants

LEMMA HandlerGrants ==
    ASSUME NEW c \in Conns, Handler(c)
    PROVE  Shrinks
  <1> USE DEF core
  <1>1. CASE \/ AwaitCached(c) \/ WakeGranted(c) \/ WakeEnded(c) \/ FetchValue(c)
             \/ FinishAuthorization(c)
    <2>1. UNCHANGED grants
      BY <1>1, ZenonT(60)
      DEF AwaitCached, WakeGranted, WakeEnded, FetchValue, FinishAuthorization
    <2> QED
      BY <2>1 DEF Shrinks
  <1>2. CASE AwaitRefused(c) \/ AwaitCoalesced(c) \/ AwaitQueued(c)
    BY <1>2, Zenon DEF Shrinks, AwaitRefused, AwaitCoalesced, AwaitQueued, MustAsk, Revoke
  <1>3. CASE WakeDeadline(c)
    BY <1>3 DEF Shrinks, WakeDeadline
  <1> QED
    BY <1>1, <1>2, <1>3, Zenon DEF Handler

LEMMA WorkerGrants ==
    ASSUME WorkerStep, ~WorkerSucceeds
    PROVE  Shrinks
  <1> USE DEF core
  <1>1. ASSUME Housekeeping PROVE Shrinks
    BY <1>1, Zenon DEF Shrinks, Housekeeping, RevokeMissingTtys, RevokeExpired
  <1>2. CASE WorkerWait
    BY <1>1, <1>2, Zenon DEF WorkerWait
  <1>3. ASSUME NEW i \in Ids, WorkerStart(i) PROVE Shrinks
    BY <1>1, <1>3, ZenonT(30) DEF WorkerStart
  <1>4. CASE DecryptSpawn \/ OnStarted \/ WorkerDeadline \/ \E e : DecryptRefused(e)
    <2>1. UNCHANGED grants
      BY <1>4, ZenonT(60) DEF DecryptSpawn, OnStarted, WorkerDeadline, DecryptRefused
    <2> QED
      BY <2>1 DEF Shrinks
  <1>5. ASSUME NEW e, WorkerFails(e) PROVE Shrinks
    BY <1>5, Zenon DEF Shrinks, WorkerFails
  <1> QED
    BY <1>2, <1>3, <1>4, <1>5, Zenon DEF WorkerStep

(* Only the worker that succeeds adds a grant, and only time changes one. *)
LEMMA GrantsMove ==
    ASSUME [Next]_vars
    PROVE  Shrinks \/ Tick \/ WorkerSucceeds
  <1>1. CASE Environment \/ UNCHANGED vars
    <2> DEFINE same == UNCHANGED grants
    <2>1. UNCHANGED vars => same
      BY Zenon DEF vars, core
    <2>2. HumanTouches \/ ChildSucceeds \/ ChildFails => same
      BY DEF HumanTouches, ChildSucceeds, ChildFails, core
    <2>3. \A k, f : SetFile(k, f) => same
      BY DEF SetFile, core
    <2>4. \A t : RootExits(t) => same
      BY ZenonT(30) DEF RootExits, core
    <2>5. \A y : TtyVanishes(y) \/ TtyAppears(y) => same
      BY DEF TtyVanishes, TtyAppears, core
    <2> HIDE DEF same
    <2>6. same
      BY <1>1, <2>1, <2>2, <2>3, <2>4, <2>5, Zenon
      DEF Environment, ReplaceFile, RemoveFile, DuplicateFile, RemoveDuplicate
    <2> QED
      BY <2>6, Zenon DEF same, Shrinks
  <1>2. CASE Command
    <2>1. ASSUME NEW t, NEW s, RegisterSession(t, s) PROVE Shrinks
      BY <2>1, Zenon DEF Shrinks, RegisterSession, RevokeTokens
    <2>2. ASSUME NEW s, UnregisterSession(s) PROVE Shrinks
      BY <2>2, Zenon DEF Shrinks, UnregisterSession, RevokeTokens
    <2>3. ASSUME NEW i \in Ids, DenyRequest(i) PROVE Shrinks
      BY <2>3, Zenon DEF Shrinks, DenyRequest
    <2>4. CASE Lock
      BY <2>4, ZenonT(30) DEF Shrinks, Lock
    <2>5. ASSUME NEW r, NEW cap, RedeemReceipt(r, cap) PROVE Shrinks
      BY <2>5 DEF Shrinks, RedeemReceipt
    <2> QED
      BY <1>2, <2>1, <2>2, <2>3, <2>4, <2>5, ZenonT(30) DEF Command
  <1>3. ASSUME NEW c \in Conns, Arrive(c) PROVE Shrinks
    <2>1. UNCHANGED grants
      BY <1>3, Zenon DEF Arrive, BeginAuthorize, RefuseCapabilityKey, ResolveAccess,
                         ResolveRefused, core
    <2> QED
      BY <2>1 DEF Shrinks
  <1> QED
    BY <1>1, <1>2, <1>3, HandlerGrants, WorkerGrants, ZenonT(30) DEF Next

-----------------------------------------------------------------------------
(* The cache.  Servable compares a grant with the file once, and the value *)
(* is copied in a later critical section: meanwhile the grant can only     *)
(* make way for one of the same or a later version.                        *)

Opened == worker.pc \in {"spawned", "running"}

GrantOK(g) ==
    /\ g.version <= files[g.key].version
    /\ Opened /\ worker.key = g.key => g.version <= worker.version

(* The handler found a grant in the cache and has yet to copy its value. *)
Cached(r) == r.pc = "fetch" /\ r.id = NoId

FetchOK(r) ==
    /\ r.pc = "await" \/ Cached(r) => r.seen <= files[r.key].version
    /\ Cached(r) =>
          /\ \A g \in LookupGrant(grants, r.scope, r.key) : r.seen <= g.version
          /\ Opened /\ worker.key = r.key => r.seen <= worker.version
    /\ r.answer = "BYTES" => r.pc = "done" /\ (r.id = NoId => r.served >= r.seen)

OnePerKey == \A g, h \in grants : g.scope = h.scope /\ g.key = h.key => g = h

CacheInv ==
    /\ Opened => worker.version <= files[worker.key].version
    /\ \A g \in grants : GrantOK(g)
    /\ OnePerKey
    /\ \A c \in Conns : FetchOK(conn[c])

FilesGrow == \A k \in Keys : files[k].version <= files'[k].version

LEMMA FilesStep ==
    ASSUME TypeInv, [Next]_vars
    PROVE  FilesGrow
  <1>0. files \in [Keys -> File] /\ \A k \in Keys : files[k].version \in Nat
    BY DEF TypeInv, TypeOK, File
  <1>1. UNCHANGED files => FilesGrow
    BY <1>0 DEF FilesGrow
  <1>2. ASSUME NEW k \in Keys, NEW f, f.version \in {files[k].version, files[k].version + 1},
               SetFile(k, f)
        PROVE  FilesGrow
    BY <1>0, <1>2 DEF SetFile, FilesGrow
  <1>3. CASE Environment
    <2> USE DEF outside
    <2>1. ASSUME NEW k \in Keys, ReplaceFile(k) PROVE FilesGrow
      BY <1>2, <2>1 DEF ReplaceFile
    <2>2. ASSUME NEW k \in Keys, NEW st, SetFile(k, [files[k] EXCEPT !.state = st])
          PROVE  FilesGrow
      <3> DEFINE f == [files[k] EXCEPT !.state = st]
      <3>1. f.version = files[k].version
        BY <1>0 DEF File
      <3>2. SetFile(k, f)
        BY <2>2
      <3> HIDE DEF f
      <3> QED
        BY <1>2, <3>1, <3>2
    <2>3. ASSUME NEW k \in Keys, RemoveFile(k) \/ DuplicateFile(k) \/ RemoveDuplicate(k)
          PROVE  FilesGrow
      BY <2>2, <2>3, Zenon DEF RemoveFile, DuplicateFile, RemoveDuplicate
    <2>4. ASSUME \/ HumanTouches \/ ChildSucceeds \/ ChildFails
                 \/ \E t \in Tokens : RootExits(t)
                 \/ \E y \in Ttys : TtyVanishes(y) \/ TtyAppears(y)
          PROVE  UNCHANGED files
      BY <2>4, Zenon DEF HumanTouches, ChildSucceeds, ChildFails, RootExits,
                         TtyVanishes, TtyAppears
    <2> QED
      BY <1>1, <1>3, <2>1, <2>3, <2>4, ZenonT(30) DEF Environment
  <1>4. CASE Command
    BY <1>1, <1>4, ZenonT(60)
    DEF Command, RegisterSession, UnregisterSession, DenyRequest, Lock, RedeemReceipt,
        outside
  <1>5. ASSUME NEW c \in Conns, Arrive(c) PROVE FilesGrow
    BY <1>1, <1>5, ZenonT(30) DEF Arrive, BeginAuthorize, RefuseCapabilityKey, ResolveAccess,
                             ResolveRefused, outside
  <1>6. ASSUME NEW c \in Conns, Handler(c) PROVE FilesGrow
    BY <1>1, <1>6, ZenonT(60)
    DEF Handler, AwaitCached, WakeGranted, WakeEnded, FetchValue, AwaitRefused,
        AwaitCoalesced, AwaitQueued, WakeDeadline, MustAsk, FinishAuthorization, outside
  <1>7. CASE WorkerStep
    BY <1>1, <1>7, ZenonT(60)
    DEF WorkerStep, WorkerWait, WorkerStart, Housekeeping, DecryptSpawn, OnStarted,
        WorkerDeadline, WorkerSucceeds, DecryptRefused, WorkerFails, BackToIdle, outside
  <1>8. CASE Tick \/ UNCHANGED vars
    BY <1>1, <1>8, Zenon DEF Tick, vars, outside
  <1> QED
    BY <1>3, <1>4, <1>5, <1>6, <1>7, <1>8 DEF Next

(* The ciphertext of a running decrypt is the one it was started on. *)
SameOpen ==
    Opened' => Opened /\ worker'.key = worker.key /\ worker'.version = worker.version

LEMMA OpenStep ==
    ASSUME TypeInv, [Next]_vars
    PROVE  SameOpen \/ DecryptSpawn
  <1>1. UNCHANGED worker => SameOpen
    BY DEF SameOpen, Opened
  <1>2. worker'.pc \in {"idle", "probe", "failed"} => SameOpen
    BY DEF SameOpen, Opened
  <1>3. CASE Environment
    <2>1. UNCHANGED worker
      BY <1>3, ZenonT(60)
      DEF Environment, HumanTouches, ChildSucceeds, ChildFails, ReplaceFile, RemoveFile,
          DuplicateFile, RemoveDuplicate, SetFile, RootExits, TtyVanishes, TtyAppears
    <2> QED
      BY <1>1, <2>1, ZenonT(30)
  <1>4. CASE Command
    BY <1>1, <1>4, ZenonT(60)
    DEF Command, RegisterSession, UnregisterSession, DenyRequest, Lock, RedeemReceipt
  <1>5. ASSUME NEW c \in Conns, Arrive(c) PROVE SameOpen
    BY <1>1, <1>5, ZenonT(30) DEF Arrive, BeginAuthorize, RefuseCapabilityKey, ResolveAccess,
                             ResolveRefused
  <1>6. ASSUME NEW c \in Conns, Handler(c) PROVE SameOpen
    BY <1>1, <1>6, ZenonT(60)
    DEF Handler, AwaitCached, WakeGranted, WakeEnded, FetchValue, AwaitRefused,
        AwaitCoalesced, AwaitQueued, WakeDeadline, MustAsk, FinishAuthorization
  <1>7. CASE WorkerStep /\ ~DecryptSpawn
    <2>0. worker \in Worker
      BY DEF TypeInv, TypeOK
    <2>1. CASE WorkerWait \/ WorkerDeadline
      BY <1>1, <2>1, Zenon DEF WorkerWait, WorkerDeadline
    <2>2. ASSUME NEW i, WorkerStart(i) PROVE worker'.pc = "probe"
      BY <2>2, Zenon DEF WorkerStart, IdleWorker
    <2>3. CASE OnStarted
      BY <2>0, <2>3, Zenon DEF OnStarted, Worker, SameOpen, Opened
    <2>4. CASE BackToIdle
      BY <1>2, <2>4, Zenon DEF BackToIdle, IdleWorker
    <2>5. ASSUME NEW e, DecryptRefused(e) PROVE worker'.pc = "failed"
      BY <2>0, <2>5, Zenon DEF DecryptRefused, Worker
    <2> QED
      BY <1>2, <1>7, <2>1, <2>2, <2>3, <2>4, <2>5, ZenonT(30)
      DEF WorkerStep, WorkerSucceeds, WorkerFails
  <1>8. CASE Tick
    <2>1. worker \in Worker
      BY DEF TypeInv, TypeOK
    <2> QED
      BY <1>8, <2>1, Zenon DEF Tick, Worker, SameOpen, Opened
  <1>9. CASE UNCHANGED vars
    BY <1>1, <1>9, Zenon DEF vars
  <1> QED
    BY <1>3, <1>4, <1>5, <1>6, <1>7, <1>8, <1>9, ZenonT(30) DEF Next

(* Where a grant of the next state comes from. *)
Kept(h) == \E g \in grants : h.scope = g.scope /\ h.key = g.key /\ h.version = g.version

Installed(h) ==
    /\ worker.pc = "running" /\ worker'.pc = "idle"
    /\ h.scope = worker.scope /\ h.key = worker.key /\ h.version = worker.version

LEMMA CacheGrants ==
    ASSUME TypeInv, [Next]_vars, OnePerKey
    PROVE  (\A h \in grants' : Kept(h) \/ Installed(h)) /\ OnePerKey'
  <1>1. CASE Shrinks
    BY <1>1, Zenon DEF Shrinks, Kept, OnePerKey
  <1>2. CASE Tick
    <2> DEFINE older(g) == [g EXCEPT !.age = IF @ < MaxGrant THEN @ + 1 ELSE @]
    <2>1. ASSUME NEW g \in grants
          PROVE  /\ older(g).scope = g.scope /\ older(g).key = g.key
                 /\ older(g).version = g.version
      BY DEF TypeInv, TypeOK, Grant
    <2>2. grants' = {older(g) : g \in grants}
      BY <1>2, Zenon DEF Tick, AgeGrants
    <2> HIDE DEF older
    <2> QED
      BY <2>1, <2>2 DEF Kept, OnePerKey
  <1>3. CASE WorkerSucceeds /\ ~Shrinks
    <2> DEFINE new == [scope |-> worker.scope, key |-> worker.key,
                       version |-> worker.version, age |-> 0, request |-> worker.id]
    <2>1. grants' = Revoke(grants, worker.scope, worker.key) \cup {new}
      BY <1>3, Zenon DEF WorkerSucceeds, InsertGrant, Shrinks
    <2>2. worker.pc = "running" /\ worker'.pc = "idle"
      BY <1>3, Zenon DEF WorkerSucceeds, BackToIdle, IdleWorker
    <2>3. /\ new.scope = worker.scope /\ new.key = worker.key
          /\ new.version = worker.version
      BY Zenon
    <2> HIDE DEF new
    <2> QED
      BY <2>1, <2>2, <2>3, ZenonT(30) DEF Revoke, Kept, Installed, OnePerKey
  <1> QED
    BY <1>1, <1>2, <1>3, GrantsMove, Zenon

LEMMA CacheWorker ==
    ASSUME TypeInv, CacheInv, [Next]_vars, Opened'
    PROVE  /\ worker'.version <= files'[worker'.key].version
           /\ \A g \in grants : worker'.key = g.key => g.version <= worker'.version
           /\ \A c \in Conns : Cached(conn[c]) /\ worker'.key = conn[c].key =>
                                   conn[c].seen <= worker'.version
  <1>0. /\ files \in [Keys -> File] /\ files' \in [Keys -> File]
        /\ \A k \in Keys : files[k].version \in Nat /\ files'[k].version \in Nat
    BY TypeStep, Zenon DEF TypeInv, TypeOK, File
  <1>1. CASE SameOpen
    <2>1. /\ Opened /\ worker'.key = worker.key /\ worker'.version = worker.version
          /\ worker.key \in Keys /\ worker.version \in Nat
      BY <1>1, Zenon DEF SameOpen, Opened, TypeInv, WorkerOK, Worker
    <2>2. worker.version <= files[worker.key].version
      BY <2>1, Zenon DEF CacheInv
    <2>3. worker'.version <= files'[worker'.key].version
      BY <1>0, <2>1, <2>2, FilesStep, SMTT(30) DEF FilesGrow
    <2> QED
      BY <2>1, <2>3, Zenon DEF CacheInv, GrantOK, FetchOK
  <1>2. CASE DecryptSpawn
    <2>1. /\ worker'.key = worker.key /\ worker'.version = files[worker.key].version
          /\ files' = files /\ worker.key \in Keys
      BY <1>2, Zenon DEF DecryptSpawn, outside, TypeInv, WorkerOK, Worker
    <2> QED
      BY <1>0, <2>1 DEF CacheInv, GrantOK, FetchOK
  <1> QED
    BY <1>1, <1>2, OpenStep, Zenon

LEMMA CacheGrantStep ==
    ASSUME TypeInv, CacheInv, [Next]_vars, NEW h \in grants'
    PROVE  GrantOK(h)'
  <1>0. /\ h.key \in Keys /\ h.version \in Nat
        /\ files[h.key].version \in Nat /\ files'[h.key].version \in Nat
        /\ files[h.key].version <= files'[h.key].version
    BY TypeStep, FilesStep, Zenon DEF TypeInv, TypeOK, File, Grant, FilesGrow
  <1>1. ASSUME NEW g \in grants, h.scope = g.scope, h.key = g.key, h.version = g.version
        PROVE  GrantOK(h)'
    <2>1. h.version <= files'[h.key].version
      BY <1>0, <1>1 DEF CacheInv, GrantOK
    <2> QED
      BY <1>1, <2>1, CacheWorker, Zenon DEF GrantOK
  <1>2. CASE Installed(h)
    <2>1. Opened /\ ~Opened'
      BY <1>2, Zenon DEF Installed, Opened
    <2>2. h.version <= files'[h.key].version
      BY <1>0, <1>2, <2>1 DEF Installed, CacheInv
    <2> QED
      BY <2>1, <2>2, Zenon DEF GrantOK
  <1> QED
    BY <1>1, <1>2, CacheGrants, Zenon DEF Kept, CacheInv

LEMMA CacheHandlerStep ==
    ASSUME TypeInv, CacheInv, [Next]_vars, NEW c \in Conns
    PROVE  FetchOK(conn[c])'
  <1> DEFINE r == conn[c]
             p == conn'[c]
  <1>0. /\ \A k \in Keys : /\ files[k].version \in Nat /\ files'[k].version \in Nat
                           /\ files[k].version <= files'[k].version
        /\ r.seen \in Nat /\ p.seen \in Nat
        /\ r.pc \in {"await", "fetch"} => r.key \in Keys
        /\ p.pc = "await" => p.key \in Keys
        /\ r.pc = "waiting" => r.id # NoId
    <2>1. \A k \in Keys : /\ files[k].version \in Nat /\ files'[k].version \in Nat
                          /\ files[k].version <= files'[k].version
      BY TypeStep, FilesStep, Zenon DEF TypeInv, TypeOK, File, FilesGrow
    <2>2. ConnOK(r) /\ ConnOK(p)
      BY TypeStep, Zenon DEF TypeInv
    <2> QED
      BY <2>1, <2>2 DEF ConnOK, Conn, NoId, Ids
  <1>1. FetchOK(r)
    BY DEF CacheInv
  <1>2. CASE Stays(c)
    <2>1. p.pc = r.pc /\ Carries(p, r) /\ (Cached(p) <=> Cached(r))
      BY <1>2, Zenon DEF Stays, Carries, Cached
    <2>2. p.pc = "await" \/ Cached(p) => p.seen <= files'[p.key].version
      BY <1>0, <1>1, <2>1 DEF FetchOK, Carries, Cached
    <2>3. ASSUME Cached(p), NEW h \in LookupGrant(grants', p.scope, p.key)
          PROVE  p.seen <= h.version
      <3>1. h \in grants' /\ h.scope = r.scope /\ h.key = r.key /\ p.seen = r.seen
        BY <2>1, <2>3, Zenon DEF LookupGrant, Carries
      <3>2. Kept(h) \/ Installed(h)
        BY <3>1, CacheGrants, Zenon DEF CacheInv
      <3>3. CASE Kept(h)
        BY <1>1, <2>1, <2>3, <3>1, <3>3, Zenon DEF Kept, LookupGrant, FetchOK
      <3>4. CASE Installed(h)
        BY <1>1, <2>1, <2>3, <3>1, <3>4, Zenon DEF Installed, FetchOK, Opened
      <3> QED
        BY <3>2, <3>3, <3>4, Zenon
    <2>4. Cached(p) /\ Opened' /\ worker'.key = p.key => p.seen <= worker'.version
      BY <2>1, CacheWorker, ZenonT(30) DEF Carries
    <2>5. p.answer = "BYTES" => p.pc = "done" /\ (p.id = NoId => p.served >= p.seen)
      BY <1>1, <2>1, Zenon DEF FetchOK, Carries
    <2> QED
      BY <2>2, <2>3, <2>4, <2>5, ZenonT(30) DEF FetchOK, Cached
  <1>3. CASE Leaves(c)
    BY <1>1, <1>3, Zenon DEF Leaves, FetchOK, Cached
  <1>4. CASE Sends(c)
    <2>1. /\ r.pc = "fetch" /\ p.pc = "done" /\ p.id = r.id /\ p.seen = r.seen
          /\ \E g \in LookupGrant(grants, r.scope, r.key) : p.served = g.version
      BY <1>4, Zenon DEF Sends
    <2>2. p.id = NoId => p.served >= p.seen
      <3>1. ASSUME p.id = NoId, NEW g \in LookupGrant(grants, r.scope, r.key),
                   p.served = g.version
            PROVE  p.served >= p.seen
        <4>1. g.version \in Nat /\ r.seen <= g.version
          BY <1>1, <2>1, <3>1, ZenonT(30)
             DEF FetchOK, Cached, LookupGrant, TypeInv, TypeOK, Grant
        <4> QED
          BY <1>0, <2>1, <3>1, <4>1, ZenonT(30)
      <3> QED
        BY <2>1, <3>1, Zenon
    <2> QED
      BY <2>1, <2>2, Zenon DEF FetchOK, Cached
  <1>5. CASE Resolves(c)
    BY <1>0, <1>1, <1>5, ZenonT(30) DEF Resolves, FetchOK, Cached
  <1>6. CASE Serves(c)
    <2>1. /\ r.pc = "await" /\ p.pc = "fetch" /\ Carries(p, r)
          /\ grants' = grants /\ worker' = worker
      BY <1>6, Zenon DEF Serves
    <2>2. PICK g \in LookupGrant(grants, r.scope, r.key) :
                 g.version = files[r.key].version
      BY <1>6, Zenon DEF Serves, Servable
    <2>3. r.seen <= g.version /\ g \in grants /\ g.key = r.key
      BY <1>1, <2>1, <2>2, Zenon DEF FetchOK, LookupGrant
    <2>4. \A h \in LookupGrant(grants, r.scope, r.key) : h = g
      BY <2>2, Zenon DEF CacheInv, OnePerKey, LookupGrant
    <2>5. p.seen <= files'[p.key].version
      BY <1>0, <2>1, <2>2, <2>3, SMTT(30) DEF Carries
    <2>6. Opened' /\ worker'.key = p.key => p.seen <= worker'.version
      <3>1. SUFFICES ASSUME Opened, worker.key = r.key PROVE r.seen <= worker.version
        BY <2>1, Zenon DEF Opened, Carries
      <3>2. g.version <= worker.version /\ g.version \in Nat /\ worker.version \in Nat
        BY <2>3, <3>1, ZenonT(30) DEF CacheInv, GrantOK, TypeInv, TypeOK, Grant, Worker
      <3> QED
        BY <1>0, <2>3, <3>2
    <2>7. p.answer # "BYTES"
      BY <1>1, <2>1, ZenonT(30) DEF FetchOK, Carries
    <2>8. \A h \in LookupGrant(grants', p.scope, p.key) : p.seen <= h.version
      BY <2>1, <2>3, <2>4, ZenonT(30) DEF Carries
    <2> QED
      BY <2>1, <2>5, <2>6, <2>7, <2>8, ZenonT(30) DEF FetchOK, Cached
  <1>7. CASE Joins(c) \/ Queues(c)
    BY <1>1, <1>7, ZenonT(30) DEF Joins, Queues, FetchOK, Cached
  <1>8. CASE Wakes(c)
    BY <1>0, <1>1, <1>8, ZenonT(30) DEF Wakes, Carries, FetchOK, Cached
  <1> QED
    BY <1>2, <1>3, <1>4, <1>5, <1>6, <1>7, <1>8, ConnStep, ZenonT(30) DEF Moves

LEMMA CacheInit == Init => CacheInv
  <1> SUFFICES ASSUME Init PROVE CacheInv
    BY Zenon
  <1>1. grants = {} /\ ~Opened
    BY Zenon DEF Init, IdleWorker, Opened
  <1>2. \A c \in Conns : conn[c].pc = "new" /\ conn[c].answer = None
    BY Zenon DEF Init, NewConn
  <1> QED
    BY <1>1, <1>2, AnswersAssumption, Zenon
       DEF Answers, CacheInv, OnePerKey, FetchOK, Cached

LEMMA CacheStep == TypeInv /\ CacheInv /\ [Next]_vars => CacheInv'
  <1> SUFFICES ASSUME TypeInv, CacheInv, [Next]_vars PROVE CacheInv'
    BY Zenon
  <1>1. Opened' => worker'.version <= files'[worker'.key].version
    BY CacheWorker, Zenon
  <1>2. (\A h \in grants' : GrantOK(h)') /\ OnePerKey'
    BY CacheGrantStep, CacheGrants, Zenon DEF CacheInv
  <1>3. \A c \in Conns : FetchOK(conn[c])'
    BY CacheHandlerStep, Zenon
  <1> QED
    BY <1>1, <1>2, <1>3, Zenon DEF CacheInv

(* A GET that is answered from the cache never sends a version older than  *)
(* the file it could have read when it arrived, although the value is      *)
(* copied in a later critical section than the identity check: a grant is  *)
(* only ever replaced by one whose ciphertext was opened later.            *)
THEOREM CachedReadIsCurrentHolds == Spec => []CachedReadIsCurrent
  <1>1. CacheInv => CachedReadIsCurrent
    BY DEF CacheInv, FetchOK, CachedReadIsCurrent
  <1> QED
    BY <1>1, CacheInit, CacheStep, FlightInvariant, PTL DEF Spec


-----------------------------------------------------------------------------
(* The approval desk. *)

LEMMA PhaseRetires ==
    ASSUME NEW q \in Queue, NEW p, Retires(p, q), Fresh(q), NEW j \in Ids
    PROVE  \/ PhaseOf(p, j) = PhaseOf(q, j)
           \/ PhaseOf(p, j) = "over" /\ PhaseOf(q, j) \in {"asked", "touching"}
  <1>1. CASE SameRequest(p, q, j)
    BY <1>1 DEF Retires, SameRequest, PhaseOf, StateOf
  <1>2. CASE /\ ~IsActive(p, j)
             /\ StateOf(q, j) = "Absent" => StateOf(p, j) = "Absent"
    <2>1. p.nextId = q.nextId /\ j \in Nat /\ q.nextId \in Nat
      BY DEF Retires, Ids, Queue
    <2>2. StateOf(p, j) \notin {"Pending", "Decrypting"}
      BY <1>2 DEF IsActive, ActiveStates
    <2>3. CASE StateOf(q, j) = "Absent"
      BY <1>2, <2>1, <2>3, Zenon DEF PhaseOf
    <2>4. CASE StateOf(q, j) # "Absent"
      BY <2>1, <2>2, <2>4, ZenonT(30) DEF PhaseOf, Fresh
    <2> QED
      BY <2>3, <2>4
  <1> QED
    BY <1>1, <1>2, ZenonT(30) DEF Retires

LEMMA WithdrawStep ==
    ASSUME queue \in Queue, Fresh(queue), Retires(queue', queue),
           InForce' \subseteq InForce
    PROVE  Desk!Next
  <1> DEFINE W == {j \in Ids : PhaseOf(queue', j) # PhaseOf(queue, j)}
  <1>1. \A j \in W : PhaseOf(queue', j) = "over" /\ PhaseOf(queue, j) \in {"asked", "touching"}
    BY PhaseRetires
  <1>2. W \in SUBSET Desk!Open
    BY <1>1 DEF Desk!Open, Desk!In, Phase
  <1>3. Phase' = [i \in Ids |-> IF i \in W THEN "over" ELSE Phase[i]]
    BY <1>1 DEF Phase
  <1>4. Desk!Withdraw(W)
    BY <1>3 DEF Desk!Withdraw
  <1> QED
    BY <1>2, <1>4 DEF Desk!Next

LEMMA AskStep ==
    ASSUME queue \in Queue, Fresh(queue), NEW s \in Scopes, NEW k \in Keys,
           queue.nextId \in Ids, queue' = Push(queue, s, k), InForce' \subseteq InForce
    PROVE  Desk!Next
  <1> DEFINE n == queue.nextId
  <1>1. /\ queue'.nextId = n + 1 /\ StateOf(queue', n) = "Pending"
        /\ \A j \in Ids \ {n} : StateOf(queue', j) = StateOf(queue, j)
    BY PushLemma DEF StateOf
  <1>2. n \in Nat /\ Ids \subseteq Nat
    BY DEF Ids
  <1>3. ASSUME NEW j \in Ids, j # n PROVE PhaseOf(queue', j) = PhaseOf(queue, j)
    BY <1>1, <1>2, <1>3 DEF PhaseOf
  <1>4. PhaseOf(queue, n) = "new" /\ PhaseOf(queue', n) = "asked"
    BY <1>1, <1>2 DEF PhaseOf, Fresh
  <1>5. n \in Desk!In("new") /\ \A j \in Desk!In("new") : n <= j
    BY <1>2, <1>4, ZenonT(30) DEF Desk!In, Phase, PhaseOf
  <1>6. Phase' = [Phase EXCEPT ![n] = "asked"]
    BY <1>3, <1>4, Zenon DEF Phase
  <1>7. Desk!Ask(n)
    BY <1>5, <1>6, Zenon DEF Desk!Ask
  <1> QED
    BY <1>7, Zenon DEF Desk!Next

LEMMA SweptRetires ==
    ASSUME queue \in Queue, FlightOK(queue), Fresh(queue)
    PROVE  Retires(Swept, queue)
  <1>1. FlightOK(SweepTimeouts(queue)) /\ SweepTimeouts(queue) \in Queue
    BY SweepTimeoutsRetires, RetiresKeeps, ZenonT(30) DEF Retires
  <1> QED
    BY <1>1, SweepTimeoutsRetires, PruneRetires, RetiresTrans, Zenon DEF Swept

LEMMA ServeStep ==
    ASSUME TypeInv, FlightInv, NEW i \in Ids, WorkerStart(i), InForce' \subseteq InForce
    PROVE  Desk!Next
  <1> DEFINE W == {j \in Ids : PhaseOf(Swept, j) # PhaseOf(queue, j)}
  <1>1. /\ queue \in Queue /\ FlightOK(queue) /\ Fresh(queue)
        /\ Swept \in Queue /\ Retires(Swept, queue)
        /\ \A j \in Ids : StateOf(Swept, j) # "Decrypting"
    BY FlightSweep, SweptRetires, Zenon DEF WorkerStart, FlightInv, TypeInv, TypeOK
  <1>2. \A j \in W : PhaseOf(Swept, j) = "over" /\ PhaseOf(queue, j) \in {"asked", "touching"}
    BY <1>1, PhaseRetires, Zenon
  <1>3. StateOf(Swept, i) = "Pending" /\ \A j \in PendingIds(Swept) : i <= j
    BY Zenon DEF WorkerStart, NextReady, First, PendingIds
  <1>4. /\ queue'.nextId = Swept.nextId /\ StateOf(queue', i) = "Decrypting"
        /\ \A j \in Ids \ {i} : StateOf(queue', j) = StateOf(Swept, j)
    BY <1>1, MarkDecryptingLemma, ZenonT(30) DEF WorkerStart, StateOf
  <1>5. /\ PhaseOf(queue', i) = "touching" /\ PhaseOf(Swept, i) = "asked"
        /\ \A j \in Ids \ {i} : PhaseOf(queue', j) = PhaseOf(Swept, j)
    BY <1>3, <1>4, Zenon DEF PhaseOf
  <1>6. \A j \in Ids : /\ PhaseOf(Swept, j) # "touching"
                       /\ PhaseOf(Swept, j) = "asked" => i <= j
    BY <1>1, <1>3, Zenon DEF PhaseOf, PendingIds
  <1> HIDE DEF W
  <1>7. W \in SUBSET Desk!Open
    BY <1>2 DEF Desk!Open, Desk!In, Phase, W
  <1>8. /\ Desk!In("touching") \subseteq W
        /\ i \in Desk!In("asked") \ W
        /\ \A j \in Desk!In("asked") \ W : i <= j
    BY <1>2, <1>5, <1>6, Zenon DEF Desk!In, Phase, W
  <1>9. Phase' = [j \in Ids |-> IF j \in W THEN "over"
                                ELSE IF j = i THEN "touching" ELSE Phase[j]]
    BY <1>2, <1>5, Zenon DEF Phase, W
  <1>10. Desk!Serve(W, i)
    BY <1>8, <1>9, Zenon DEF Desk!Serve
  <1> QED
    BY <1>7, <1>10, Zenon DEF Desk!Next

LEMMA ApproveStep ==
    ASSUME queue \in Queue, Fresh(queue), NEW i \in Ids, StateOf(queue, i) = "Decrypting",
           EndedAs(queue', queue, i, "Granted"),
           i \in InForce', InForce' \subseteq InForce \cup {i}
    PROVE  Desk!Next
  <1>1. /\ StateOf(queue', i) = "Granted" /\ queue'.nextId = queue.nextId
        /\ \A j \in Ids \ {i} : StateOf(queue', j) = StateOf(queue, j)
    BY DEF EndedAs, StateOf
  <1>2. /\ PhaseOf(queue, i) = "touching" /\ PhaseOf(queue', i) = "over"
        /\ \A j \in Ids \ {i} : PhaseOf(queue', j) = PhaseOf(queue, j)
    BY <1>1 DEF PhaseOf
  <1>3. i \in Desk!In("touching") /\ Phase' = [Phase EXCEPT ![i] = "over"]
    BY <1>2, Zenon DEF Desk!In, Phase
  <1>4. Desk!Approve(i)
    BY <1>3 DEF Desk!Approve
  <1> QED
    BY <1>4, Zenon DEF Desk!Next

-----------------------------------------------------------------------------
(* The daemon's steps. *)

LEMMA RetireStep ==
    ASSUME TypeInv, FlightInv, Retires(queue', queue),
           \A g \in grants' : \E h \in grants : h.request = g.request
    PROVE  Desk!Next
  <1>1. queue \in Queue /\ Fresh(queue)
    BY DEF TypeInv, TypeOK, FlightInv
  <1>2. InForce' \subseteq InForce
    BY DEF InForce
  <1> QED
    BY <1>1, <1>2, WithdrawStep, Zenon

LEMMA QuietStep ==
    ASSUME TypeInv, FlightInv, UNCHANGED queue, grants' \subseteq grants
    PROVE  Desk!Next
  <1>1. Retires(queue', queue)
    BY RetiresRefl, Zenon DEF TypeInv, TypeOK
  <1> QED
    BY <1>1, RetireStep, Zenon

LEMMA DeskCommand ==
    ASSUME TypeInv, FlightInv, Command
    PROVE  Desk!Next
  <1>0. queue \in Queue /\ (active = NoId \/ active \in Ids)
    BY Zenon DEF TypeInv, TypeOK
  <1>1. ASSUME NEW t, NEW s, RegisterSession(t, s) PROVE Desk!Next
    BY <1>1, QuietStep, Zenon DEF RegisterSession, RevokeTokens
  <1>2. ASSUME NEW s, UnregisterSession(s) PROVE Desk!Next
    BY <1>2, QuietStep, Zenon DEF UnregisterSession, RevokeTokens
  <1>3. ASSUME NEW i \in Ids, DenyRequest(i) PROVE Desk!Next
    BY <1>0, <1>3, CancelRetires, RetireStep, Zenon DEF DenyRequest, Deny
  <1>4. CASE Lock
    BY <1>0, <1>4, CancelRetires, RetiresRefl, RetireStep, Zenon DEF Lock, Deny
  <1>5. ASSUME NEW r, NEW cap, RedeemReceipt(r, cap) PROVE Desk!Next
    BY <1>5, QuietStep, Zenon DEF RedeemReceipt
  <1> QED
    BY <1>1, <1>2, <1>3, <1>4, <1>5, Zenon DEF Command

LEMMA DeskArrive ==
    ASSUME TypeInv, FlightInv, NEW c \in Conns, Arrive(c)
    PROVE  Desk!Next
  <1>1. UNCHANGED <<queue, grants>>
    BY Zenon DEF Arrive, BeginAuthorize, RefuseCapabilityKey, ResolveAccess,
                 ResolveRefused, core
  <1> QED
    BY <1>1, QuietStep, ZenonT(30)

LEMMA DeskHandler ==
    ASSUME TypeInv, FlightInv, NEW c \in Conns, Handler(c)
    PROVE  Desk!Next
  <1> USE DEF core
  <1>0. queue \in Queue /\ Fresh(queue) /\ ConnOK(conn[c])
    BY Zenon DEF TypeInv, TypeOK, FlightInv
  <1>1. CASE \/ AwaitCached(c) \/ WakeGranted(c) \/ WakeEnded(c) \/ FetchValue(c)
             \/ FinishAuthorization(c)
    <2>1. UNCHANGED <<queue, grants>>
      BY <1>1, ZenonT(60)
      DEF AwaitCached, WakeGranted, WakeEnded, FetchValue, FinishAuthorization
    <2> QED
      BY <2>1, QuietStep
  <1>2. CASE AwaitRefused(c) \/ AwaitCoalesced(c)
    BY <1>2, QuietStep, Zenon DEF AwaitRefused, AwaitCoalesced, MustAsk, Revoke
  <1>3. CASE AwaitQueued(c)
    <2>1. /\ conn[c].scope \in Scopes /\ conn[c].key \in Keys /\ queue.nextId \in Ids
          /\ queue' = Push(queue, conn[c].scope, conn[c].key)
      BY <1>3, MustAskType, Zenon DEF AwaitQueued
    <2>2. InForce' \subseteq InForce
      BY <1>3, Zenon DEF AwaitQueued, MustAsk, Revoke, InForce
    <2> QED
      BY <1>0, <2>1, <2>2, AskStep, Zenon
  <1>4. CASE WakeDeadline(c)
    <2>1. conn[c].id \in Ids
      BY <1>0, <1>4, Zenon DEF WakeDeadline, ConnOK
    <2> QED
      BY <1>0, <1>4, <2>1, CancelRetires, RetireStep, Zenon DEF WakeDeadline, Timeout
  <1> QED
    BY <1>1, <1>2, <1>3, <1>4 DEF Handler

LEMMA DeskGrant ==
    ASSUME TypeInv, FlightInv, WorkerSucceeds
    PROVE  Desk!Next
  <1> DEFINE q == IF Withdrawn THEN Deny(queue, worker.id) ELSE queue
  <1>1. queue \in Queue /\ Fresh(queue) /\ worker.id \in Ids
    BY DEF TypeInv, TypeOK, WorkerOK, WorkerSucceeds, FlightInv
  <1>2. /\ queue' = Complete(q, worker.id, worker.generation)
        /\ grants' = IF StillCurrent(q, worker.id, worker.generation)
                     THEN InsertGrant(grants, worker.scope, worker.key,
                                      worker.version, worker.id)
                     ELSE grants
    BY DEF WorkerSucceeds
  <1>3. CASE ~StillCurrent(q, worker.id, worker.generation)
    <2>1. grants' = grants /\ Retires(queue', queue)
      BY <1>2, <1>3, SuccessRetires, Zenon
    <2> QED
      BY <2>1, RetireStep, Zenon
  <1>4. CASE StillCurrent(q, worker.id, worker.generation)
    <2>1. q = queue /\ StateOf(queue, worker.id) = "Decrypting"
      <3>1. ~IsActive(Deny(queue, worker.id), worker.id)
        BY <1>1, CancelRetires, Zenon DEF Deny
      <3> QED
        BY <1>4, <3>1, Zenon DEF StillCurrent, IsActive, ActiveStates
    <2>2. EndedAs(queue', queue, worker.id, "Granted")
      BY <1>1, <1>2, <1>4, <2>1, CompleteLemma, ZenonT(30)
    <2> DEFINE g == [scope |-> worker.scope, key |-> worker.key,
                     version |-> worker.version, age |-> 0, request |-> worker.id]
    <2>3. /\ grants' = Revoke(grants, worker.scope, worker.key) \cup {g}
          /\ g.request = worker.id
      BY <1>2, <1>4, Zenon DEF InsertGrant
    <2> HIDE DEF g
    <2>4. worker.id \in InForce' /\ InForce' \subseteq InForce \cup {worker.id}
      BY <2>3, Zenon DEF Revoke, InForce
    <2> QED
      BY <1>1, <2>1, <2>2, <2>4, ApproveStep, Zenon
  <1> QED
    BY <1>3, <1>4, Zenon

LEMMA DeskWorker ==
    ASSUME TypeInv, FlightInv, WorkerStep
    PROVE  Desk!Next
  <1> USE DEF core
  <1>0. queue \in Queue /\ FlightOK(queue) /\ Fresh(queue)
    BY DEF TypeInv, TypeOK, FlightInv
  <1>1. ASSUME Housekeeping PROVE grants' \subseteq grants
    BY <1>1, Zenon DEF Housekeeping, RevokeMissingTtys, RevokeExpired
  <1>2. CASE WorkerWait
    BY <1>0, <1>1, <1>2, SweptRetires, RetireStep, Zenon DEF WorkerWait
  <1>3. ASSUME NEW i \in Ids, WorkerStart(i) PROVE Desk!Next
    <2>1. InForce' \subseteq InForce
      BY <1>1, <1>3, Zenon DEF WorkerStart, InForce
    <2> QED
      BY <1>3, <2>1, ServeStep, Zenon
  <1>4. CASE DecryptSpawn \/ OnStarted \/ WorkerDeadline \/ \E e : DecryptRefused(e)
    <2>1. UNCHANGED <<queue, grants>>
      BY <1>4, ZenonT(60) DEF DecryptSpawn, OnStarted, WorkerDeadline, DecryptRefused
    <2> QED
      BY <2>1, QuietStep, Zenon
  <1>5. ASSUME NEW e, WorkerFails(e) PROVE Desk!Next
    <2>1. Retires(queue', queue) /\ grants' = grants
      BY <1>5, FailureRetires, Zenon DEF WorkerFails
    <2> QED
      BY <2>1, RetireStep, Zenon
  <1> QED
    BY <1>2, <1>3, <1>4, <1>5, DeskGrant, Zenon DEF WorkerStep

LEMMA DeskTick ==
    ASSUME TypeInv, FlightInv, Tick
    PROVE  Desk!Next
  <1>1. Retires(queue', queue)
    BY AgeQueueRetires DEF Tick, TypeInv, TypeOK
  <1>2. \A g \in grants' : \E h \in grants : h.request = g.request
    <2>1. ASSUME NEW g \in grants
          PROVE  [g EXCEPT !.age = IF @ < MaxGrant THEN @ + 1 ELSE @].request = g.request
      BY DEF TypeInv, TypeOK, Grant
    <2> QED
      BY <2>1, Zenon DEF Tick, AgeGrants
  <1> QED
    BY <1>1, <1>2, RetireStep, ZenonT(30)

LEMMA DeskStep == TypeInv /\ FlightInv /\ [Next]_vars => [Desk!Next]_(Desk!vars)
  <1> SUFFICES ASSUME TypeInv, FlightInv, [Next]_vars
               PROVE  Desk!Next
    OBVIOUS
  <1>1. CASE Environment \/ UNCHANGED vars
    <2> DEFINE same == UNCHANGED <<queue, grants>>
    <2>1. UNCHANGED vars => same
      BY ZenonT(30) DEF vars, core
    <2>2. HumanTouches \/ ChildSucceeds \/ ChildFails => same
      BY DEF HumanTouches, ChildSucceeds, ChildFails, core
    <2>3. \A k, f : SetFile(k, f) => same
      BY DEF SetFile, core
    <2>4. \A t : RootExits(t) => same
      BY DEF RootExits, core
    <2>5. \A y : TtyVanishes(y) \/ TtyAppears(y) => same
      BY DEF TtyVanishes, TtyAppears, core
    <2> HIDE DEF same
    <2>6. same
      BY <1>1, <2>1, <2>2, <2>3, <2>4, <2>5, Zenon
      DEF Environment, ReplaceFile, RemoveFile, DuplicateFile, RemoveDuplicate
    <2> QED
      BY <2>6, QuietStep, Zenon DEF same
  <1> QED
    BY <1>1, DeskCommand, DeskArrive, DeskHandler, DeskWorker, DeskTick, ZenonT(30) DEF Next

LEMMA DeskInit == Init => Desk!Init
  <1> SUFFICES ASSUME Init PROVE Desk!Init
    BY Zenon
  <1>1. \A i \in Ids : StateOf(queue, i) = "Absent" /\ i >= queue.nextId
    BY QueueAssumption DEF Init, NewQueue, NoRequest, StateOf, Ids
  <1>2. InForce = {}
    BY DEF Init, InForce
  <1>3. Phase = [i \in Ids |-> "new"]
    BY <1>1 DEF Phase, PhaseOf
  <1> QED
    BY <1>2, <1>3, Zenon DEF Desk!Init

(* Whatever the sessions, threads and processes do, the daemon behaves     *)
(* like the approval desk: it serves requests one at a time in the order   *)
(* they were queued, a grant comes into force only in the step that ends   *)
(* its own request's decrypt, and what has ended is never granted.         *)
THEOREM ImplementsDeskHolds == Spec => ImplementsDesk
  <1> QED
    BY DeskInit, DeskStep, FlightInvariant, PTL DEF Spec, ImplementsDesk, Desk!Spec

-----------------------------------------------------------------------------
(* Grants come from approvals. *)

(* No grant of such a step is for a request that had none. *)
LEMMA OtherGrants ==
    ASSUME TypeInv, [Next]_vars, ~WorkerSucceeds
    PROVE  \A g \in grants' : \E h \in grants : h.request = g.request
  <1>1. CASE Shrinks
    BY <1>1 DEF Shrinks
  <1>2. CASE Tick
    <2>1. ASSUME NEW g \in grants
          PROVE  [g EXCEPT !.age = IF @ < MaxGrant THEN @ + 1 ELSE @].request = g.request
      BY Zenon DEF TypeInv, TypeOK, Grant
    <2> QED
      BY <1>2, <2>1, Zenon DEF Tick, AgeGrants
  <1> QED
    BY <1>1, <1>2, GrantsMove, ZenonT(30)

LEMMA GrantIsApproved ==
    ASSUME TypeInv, FlightInv, WorkerSucceeds,
           NEW g \in grants', \A h \in grants : h.request # g.request
    PROVE  /\ StateOf(queue, g.request) = "Decrypting"
           /\ StateOf(queue', g.request) = "Granted"
           /\ queue.requests[g.request].scope = g.scope
           /\ queue.requests[g.request].key = g.key
  <1> DEFINE q == IF Withdrawn THEN Deny(queue, worker.id) ELSE queue
             new == [scope |-> worker.scope, key |-> worker.key,
                     version |-> worker.version, age |-> 0, request |-> worker.id]
  <1>1. queue \in Queue /\ FlightOK(queue) /\ JobIsInflight /\ worker.id \in Ids
    BY Zenon DEF TypeInv, TypeOK, WorkerOK, WorkerSucceeds, FlightInv
  <1>2. /\ queue' = Complete(q, worker.id, worker.generation)
        /\ grants' = IF StillCurrent(q, worker.id, worker.generation)
                     THEN InsertGrant(grants, worker.scope, worker.key,
                                      worker.version, worker.id)
                     ELSE grants
    BY DEF WorkerSucceeds
  <1>3. StillCurrent(q, worker.id, worker.generation)
    BY <1>2, Zenon
  <1>4. q = queue /\ StateOf(queue, worker.id) = "Decrypting"
    <2>1. ~IsActive(Deny(queue, worker.id), worker.id)
      BY <1>1, CancelRetires, Zenon DEF Deny
    <2> QED
      BY <1>3, <2>1, Zenon DEF StillCurrent, IsActive, ActiveStates
  <1>5. StateOf(queue', worker.id) = "Granted"
    BY <1>1, <1>2, <1>3, <1>4, CompleteLemma, SMTT(30) DEF EndedAs, StateOf
  <1>6. /\ worker.scope = queue.requests[worker.id].scope
        /\ worker.key = queue.requests[worker.id].key
    BY <1>1, <1>4, Zenon DEF FlightOK, JobIsInflight
  <1>7. grants' = Revoke(grants, worker.scope, worker.key) \cup {new}
    BY <1>2, <1>3, Zenon DEF InsertGrant
  <1>8. new.request = worker.id /\ new.scope = worker.scope /\ new.key = worker.key
    OBVIOUS
  <1> HIDE DEF new
  <1>9. g = new
    BY <1>7 DEF Revoke
  <1> QED
    BY <1>4, <1>5, <1>6, <1>8, <1>9, Zenon

(* A grant appears only in the step that turns its own request from        *)
(* Decrypting to Granted, and with that request's scope and key: the       *)
(* worker's second look at the request before it stores the grant leaves   *)
(* no order of LOCK, deny, timeout and the end of the decrypt in which a   *)
(* withdrawn approval stores one.                                          *)
THEOREM GrantNeedsApprovalHolds == Spec => GrantNeedsApproval
  <1>1. TypeInv /\ FlightInv /\ [Next]_vars =>
           [\A g \in grants' :
              (\A h \in grants : h.request # g.request) =>
                  /\ StateOf(queue, g.request) = "Decrypting"
                  /\ StateOf(queue', g.request) = "Granted"
                  /\ queue.requests[g.request].scope = g.scope
                  /\ queue.requests[g.request].key = g.key]_vars
    <2> SUFFICES ASSUME TypeInv, FlightInv, [Next]_vars,
                        NEW g \in grants', \A h \in grants : h.request # g.request
                 PROVE  /\ StateOf(queue, g.request) = "Decrypting"
                        /\ StateOf(queue', g.request) = "Granted"
                        /\ queue.requests[g.request].scope = g.scope
                        /\ queue.requests[g.request].key = g.key
      BY Zenon
    <2>1. WorkerSucceeds
      BY OtherGrants, Zenon
    <2> QED
      BY <2>1, GrantIsApproved, Zenon
  <1> QED
    BY <1>1, FlightInvariant, PTL DEF Spec, GrantNeedsApproval

-----------------------------------------------------------------------------
(* The methods of the queue keep what has ended. *)

Final(p, q) ==
    /\ q.nextId <= p.nextId
    /\ \A i \in Ids :
          /\ StateOf(q, i) = "Granted" => StateOf(p, i) \in {"Granted", "Absent"}
          /\ StateOf(q, i) \in OverStates \ {"Granted"} =>
                 StateOf(p, i) \in {StateOf(q, i), "Failed", "Absent"}
          /\ i < q.nextId /\ StateOf(q, i) = "Absent" => StateOf(p, i) = "Absent"

(* Nothing is granted that was not before. *)
NoApproval(p, q) == \A i \in Ids : StateOf(p, i) = "Granted" => StateOf(q, i) = "Granted"

LEMMA FinalSame ==
    ASSUME NEW q \in Queue, NEW p, p.nextId = q.nextId,
           \A i \in Ids : StateOf(p, i) = StateOf(q, i)
    PROVE  Final(p, q) /\ NoApproval(p, q)
  BY DEF Final, NoApproval, Queue

(* One request that was not over, or a failure that is not of a grant. *)
LEMMA FinalEnded ==
    ASSUME NEW q \in Queue, NEW i \in Ids, NEW st \in OverStates, NEW p,
           EndedAs(p, q, i, st),
           \/ IsActive(q, i)
           \/ st = "Failed" /\ StateOf(q, i) \notin {"Granted", "Absent"}
    PROVE  Final(p, q) /\ (st # "Granted" => NoApproval(p, q))
  <1>1. /\ p.nextId = q.nextId /\ q.nextId \in Nat /\ StateOf(p, i) = st
        /\ \A j \in Ids \ {i} : StateOf(p, j) = StateOf(q, j)
    BY DEF EndedAs, StateOf, Queue
  <1> QED
    BY <1>1 DEF Final, NoApproval, IsActive, ActiveStates, OverStates

LEMMA FinalCancel ==
    ASSUME NEW q \in Queue, NEW i \in Ids, NEW st \in {"Denied", "TimedOut"}
    PROVE  Final(Cancel(q, i, st), q) /\ NoApproval(Cancel(q, i, st), q)
  <1>1. st \in OverStates /\ st # "Granted"
    BY DEF OverStates
  <1>2. CASE IsActive(q, i)
    <2>1. EndedAs(Cancel(q, i, st), q, i, st)
      BY <1>1, <1>2, CancelLemma, Zenon
    <2> QED
      BY <1>1, <1>2, <2>1, FinalEnded, Zenon
  <1>3. CASE ~IsActive(q, i)
    <2>1. Cancel(q, i, st) = q
      BY <1>1, <1>3, CancelLemma, Zenon
    <2> QED
      BY <2>1, FinalSame, Zenon
  <1> QED
    BY <1>2, <1>3, Zenon

LEMMA FinalFail ==
    ASSUME NEW q \in Queue, NEW i \in Ids, StateOf(q, i) # "Granted"
    PROVE  Final(Fail(q, i), q) /\ NoApproval(Fail(q, i), q)
  <1>1. CASE StateOf(q, i) # "Absent"
    <2>1. EndedAs(Fail(q, i), q, i, "Failed") /\ "Failed" \in OverStates
      BY <1>1, FailLemma, Zenon DEF OverStates
    <2> QED
      BY <1>1, <2>1, FinalEnded, Zenon
  <1>2. CASE StateOf(q, i) = "Absent"
    <2>1. /\ Fail(q, i).nextId = q.nextId
          /\ \A j \in Ids : StateOf(Fail(q, i), j) = StateOf(q, j)
      BY <1>2, FailLemma, FinishLemma, SMTT(30) DEF StateOf
    <2> QED
      BY <2>1, FinalSame, Zenon
  <1> QED
    BY <1>1, <1>2, Zenon

LEMMA FinalSwept ==
    ASSUME queue \in Queue
    PROVE  Final(Swept, queue) /\ NoApproval(Swept, queue)
  <1> DEFINE t == SweepTimeouts(queue)
  <1>1. /\ t \in Queue /\ t.nextId = queue.nextId /\ queue.nextId \in Nat
        /\ \A j \in Ids : \/ StateOf(t, j) = StateOf(queue, j)
                          \/ IsActive(queue, j) /\ StateOf(t, j) = "TimedOut"
    BY SweepTimeoutsLemma DEF StateOf, Queue
  <1>2. Swept = Prune(t) /\ NoRequest.state = "Absent"
    BY Zenon DEF Swept, NoRequest
  <1> HIDE DEF t
  <1>3. /\ Swept.nextId = t.nextId
        /\ \A j \in Ids : StateOf(Swept, j) \in {StateOf(t, j), "Absent"}
    BY <1>1, <1>2, PruneLemma, Zenon DEF StateOf
  <1> QED
    BY <1>1, <1>3, SMTT(30) DEF Final, NoApproval, IsActive, ActiveStates, OverStates

LEMMA FinalPush ==
    ASSUME NEW q \in Queue, NEW s \in Scopes, NEW k \in Keys, q.nextId \in Ids, Fresh(q)
    PROVE  Final(Push(q, s, k), q) /\ NoApproval(Push(q, s, k), q)
  <1> DEFINE p == Push(q, s, k)
  <1>1. /\ p.nextId = q.nextId + 1 /\ q.nextId \in Nat /\ Ids \subseteq Nat
        /\ StateOf(p, q.nextId) = "Pending" /\ StateOf(q, q.nextId) = "Absent"
        /\ \A j \in Ids \ {q.nextId} : StateOf(p, j) = StateOf(q, j)
    BY PushLemma DEF StateOf, Ids, Fresh
  <1> HIDE DEF p
  <1>2. Final(p, q) /\ NoApproval(p, q)
    BY <1>1 DEF Final, NoApproval, OverStates
  <1> QED
    BY <1>2, Zenon DEF p

-----------------------------------------------------------------------------
(* The daemon's steps. *)

(* The request that the worker is busy with is not Granted yet. *)
JobOpen == worker.pc # "idle" => StateOf(queue, worker.id) # "Granted"

Keeps == Final(queue', queue) /\ NoApproval(queue', queue)

LEMMA QueueUntouched == ASSUME queue \in Queue, UNCHANGED queue PROVE Keeps
  BY FinalSame, Zenon DEF Keeps

LEMMA KeepsHandler ==
    ASSUME TypeInv, FlightInv, NEW c \in Conns, Handler(c)
    PROVE  Keeps
  <1> USE DEF core
  <1>0. queue \in Queue /\ Fresh(queue) /\ ConnOK(conn[c])
    BY DEF TypeInv, TypeOK, FlightInv
  <1>1. CASE \/ AwaitCached(c) \/ WakeGranted(c) \/ WakeEnded(c) \/ FetchValue(c)
             \/ FinishAuthorization(c) \/ AwaitRefused(c) \/ AwaitCoalesced(c)
    <2>1. UNCHANGED queue
      BY <1>1, ZenonT(60)
      DEF AwaitCached, WakeGranted, WakeEnded, FetchValue, FinishAuthorization,
          AwaitRefused, AwaitCoalesced, MustAsk
    <2> QED
      BY <1>0, <2>1, QueueUntouched, Zenon
  <1>2. CASE AwaitQueued(c)
    <2>1. /\ conn[c].scope \in Scopes /\ conn[c].key \in Keys /\ queue.nextId \in Ids
          /\ queue' = Push(queue, conn[c].scope, conn[c].key)
      BY <1>2, MustAskType DEF AwaitQueued
    <2> QED
      BY <1>0, <2>1, FinalPush, Zenon DEF Keeps
  <1>3. CASE WakeDeadline(c)
    <2>1. conn[c].id \in Ids /\ queue' = Cancel(queue, conn[c].id, "TimedOut")
      BY <1>0, <1>3, Zenon DEF WakeDeadline, ConnOK, Timeout
    <2> QED
      BY <1>0, <2>1, FinalCancel, Zenon DEF Keeps
  <1> QED
    BY <1>1, <1>2, <1>3, Zenon DEF Handler

LEMMA KeepsStart ==
    ASSUME TypeInv, FlightInv, NEW i \in Ids, WorkerStart(i)
    PROVE  Keeps /\ JobOpen'
  <1>1. /\ queue \in Queue /\ Swept \in Queue /\ Swept.nextId \in Nat
        /\ Final(Swept, queue) /\ NoApproval(Swept, queue)
    BY FlightSweep, FinalSwept, SMTT(30) DEF WorkerStart, TypeInv, TypeOK, Queue
  <1>2. StateOf(Swept, i) = "Pending"
    BY DEF WorkerStart, NextReady, First, PendingIds
  <1>3. /\ queue'.nextId = Swept.nextId /\ StateOf(queue', i) = "Decrypting"
        /\ \A j \in Ids \ {i} : StateOf(queue', j) = StateOf(Swept, j)
    BY <1>1, MarkDecryptingLemma, Zenon DEF WorkerStart, StateOf
  <1>4. worker'.id = i
    BY Zenon DEF WorkerStart, IdleWorker
  <1>5. \A j \in Ids \ {i} :
           /\ StateOf(queue, j) = "Granted" => StateOf(queue', j) \in {"Granted", "Absent"}
           /\ StateOf(queue, j) \in OverStates \ {"Granted"} =>
                  StateOf(queue', j) \in {StateOf(queue, j), "Failed", "Absent"}
           /\ j < queue.nextId /\ StateOf(queue, j) = "Absent" =>
                  StateOf(queue', j) = "Absent"
    BY <1>1, <1>3, Zenon DEF Final
  <1>6. /\ StateOf(queue, i) \notin OverStates
        /\ ~(i < queue.nextId /\ StateOf(queue, i) = "Absent")
    BY <1>1, <1>2, Zenon DEF Final, OverStates
  <1>7. Final(queue', queue)
    BY <1>1, <1>3, <1>5, <1>6, Zenon DEF Final, OverStates
  <1> QED
    BY <1>1, <1>3, <1>4, <1>7, Zenon DEF Keeps, NoApproval, JobOpen

(* The steps that leave the worker at its job, or without one. *)
JobKept ==
    \/ worker'.pc = "idle"
    \/ worker.pc # "idle" /\ worker'.id = worker.id

LEMMA OpenKept ==
    ASSUME TypeInv, JobOpen, Keeps, JobKept
    PROVE  JobOpen'
  <1>1. worker.pc # "idle" => worker.id \in Ids
    BY DEF TypeInv, WorkerOK
  <1> QED
    BY <1>1, Zenon DEF JobOpen, Keeps, NoApproval, JobKept

LEMMA KeepsWorker ==
    ASSUME TypeInv, FlightInv, JobOpen, WorkerStep
    PROVE  Final(queue', queue) /\ JobOpen'
  <1> USE DEF core
  <1>0. queue \in Queue /\ worker \in Worker /\ (worker.pc # "idle" => worker.id \in Ids)
    BY DEF TypeInv, TypeOK, WorkerOK
  <1>1. CASE WorkerWait
    <2>1. Keeps /\ JobKept
      BY <1>0, <1>1, FinalSwept, Zenon DEF WorkerWait, Housekeeping, Keeps, JobKept
    <2> QED
      BY <2>1, OpenKept, Zenon DEF Keeps
  <1>2. ASSUME NEW i \in Ids, WorkerStart(i) PROVE Final(queue', queue) /\ JobOpen'
    BY <1>2, KeepsStart, Zenon DEF Keeps
  <1>3. CASE DecryptSpawn \/ OnStarted \/ WorkerDeadline \/ \E e : DecryptRefused(e)
    <2>1. UNCHANGED queue
      BY <1>3, ZenonT(60) DEF DecryptSpawn, OnStarted, WorkerDeadline, DecryptRefused
    <2>2. JobKept
      BY <1>0, <1>3, Zenon
      DEF DecryptSpawn, OnStarted, WorkerDeadline, DecryptRefused, JobKept, Worker
    <2> QED
      BY <1>0, <2>1, <2>2, QueueUntouched, OpenKept, ZenonT(30) DEF Keeps
  <1>4. CASE WorkerSucceeds
    <2> DEFINE q == IF Withdrawn THEN Deny(queue, worker.id) ELSE queue
    <2>1. worker.id \in Ids /\ queue' = Complete(q, worker.id, worker.generation)
      BY <1>0, <1>4, Zenon DEF WorkerSucceeds
    <2>2. JobOpen'
      BY <1>4, Zenon DEF WorkerSucceeds, BackToIdle, IdleWorker, JobOpen
    <2>3. CASE StillCurrent(q, worker.id, worker.generation)
      <3>1. q = queue /\ IsActive(queue, worker.id)
        <4>1. ~IsActive(Deny(queue, worker.id), worker.id)
          BY <1>0, <2>1, CancelRetires, Zenon DEF Deny
        <4> QED
          BY <2>3, <4>1, Zenon DEF StillCurrent, IsActive, ActiveStates
      <3>2. EndedAs(queue', queue, worker.id, "Granted") /\ "Granted" \in OverStates
        BY <1>0, <2>1, <2>3, <3>1, CompleteLemma, ZenonT(30) DEF OverStates
      <3>3. Final(queue', queue)
        BY <1>0, <2>1, <3>1, <3>2, FinalEnded, Zenon
      <3> QED
        BY <2>2, <3>3, Zenon
    <2>4. CASE ~StillCurrent(q, worker.id, worker.generation)
      <3>1. q \in Queue /\ Final(q, queue)
        <4>1. Deny(queue, worker.id) \in Queue /\ Final(Deny(queue, worker.id), queue)
          BY <1>0, <2>1, CancelRetires, FinalCancel, Zenon DEF Deny, Retires
        <4>2. Final(queue, queue)
          BY <1>0, FinalSame, ZenonT(30)
        <4> QED
          BY <1>0, <4>1, <4>2, ZenonT(30)
      <3> HIDE DEF q
      <3>2. queue'.requests = q.requests /\ queue'.nextId = q.nextId
        <4>1. Complete(q, worker.id, worker.generation) = Finish(q, worker.id)
          BY <2>1, <2>4, <3>1, CompleteLemma, Zenon
        <4>2. queue' = Finish(q, worker.id) /\ worker.id \in Ids
          BY <2>1, <4>1, Zenon
        <4> QED
          BY <3>1, <4>2, FinishLemma, Zenon
      <3>3. Final(queue', queue)
        BY <3>1, <3>2, Zenon DEF Final, StateOf
      <3> QED
        BY <2>2, <3>3
    <2> QED
      BY <2>3, <2>4, Zenon
  <1>5. ASSUME NEW e, WorkerFails(e) PROVE Final(queue', queue) /\ JobOpen'
    <2>1. /\ worker.pc # "idle" /\ queue' = Fail(queue, worker.id)
          /\ worker'.pc = "idle"
      BY <1>5, Zenon DEF WorkerFails, DecryptError, BackToIdle, IdleWorker
    <2>2. Final(queue', queue)
      BY <1>0, <2>1, FinalFail, Zenon DEF JobOpen
    <2> QED
      BY <2>1, <2>2, Zenon DEF JobOpen
  <1> QED
    BY <1>1, <1>2, <1>3, <1>4, <1>5, Zenon DEF WorkerStep

LEMMA OutcomeStep ==
    ASSUME TypeInv, FlightInv, JobOpen, [Next]_vars
    PROVE  Final(queue', queue) /\ JobOpen'
  <1> USE DEF core
  <1>0. queue \in Queue /\ worker \in Worker /\ (active = NoId \/ active \in Ids)
    BY DEF TypeInv, TypeOK
  <1>1. ASSUME Keeps, UNCHANGED worker PROVE Final(queue', queue) /\ JobOpen'
    BY <1>1, OpenKept, Zenon DEF Keeps, JobKept
  <1>2. CASE Environment \/ UNCHANGED vars
    <2> DEFINE same == UNCHANGED <<queue, worker>>
    <2>1. UNCHANGED vars => same
      BY ZenonT(30) DEF vars
    <2>2. HumanTouches \/ ChildSucceeds \/ ChildFails => same
      BY DEF HumanTouches, ChildSucceeds, ChildFails
    <2>3. \A k, f : SetFile(k, f) => same
      BY DEF SetFile
    <2>4. \A t : RootExits(t) => same
      BY DEF RootExits
    <2>5. \A y : TtyVanishes(y) \/ TtyAppears(y) => same
      BY DEF TtyVanishes, TtyAppears
    <2> HIDE DEF same
    <2>6. same
      BY <1>2, <2>1, <2>2, <2>3, <2>4, <2>5, Zenon
      DEF Environment, ReplaceFile, RemoveFile, DuplicateFile, RemoveDuplicate
    <2> QED
      BY <1>0, <1>1, <2>6, QueueUntouched, ZenonT(30) DEF same
  <1>3. CASE Command
    <2>1. ASSUME \/ \E t, s : RegisterSession(t, s)
                 \/ \E s : UnregisterSession(s)
                 \/ \E r, cap : RedeemReceipt(r, cap)
          PROVE  UNCHANGED <<queue, worker>>
      BY <2>1, Zenon DEF RegisterSession, UnregisterSession, RedeemReceipt
    <2>2. ASSUME NEW i \in Ids, DenyRequest(i) PROVE Keeps /\ UNCHANGED worker
      BY <1>0, <2>2, FinalCancel, Zenon DEF DenyRequest, Deny, Keeps
    <2>3. CASE Lock
      <3>1. Keeps
        BY <1>0, <2>3, FinalCancel, FinalSame, ZenonT(30) DEF Lock, Deny, Keeps
      <3>2. UNCHANGED worker
        BY <2>3 DEF Lock
      <3> QED
        BY <1>1, <3>1, <3>2, ZenonT(30)
    <2>4. ASSUME UNCHANGED <<queue, worker>> PROVE Keeps /\ UNCHANGED worker
      BY <1>0, <2>4, QueueUntouched, Zenon
    <2> QED
      BY <1>1, <1>3, <2>1, <2>2, <2>3, <2>4, Zenon DEF Command
  <1>4. ASSUME NEW c \in Conns, Arrive(c) PROVE Final(queue', queue) /\ JobOpen'
    <2>1. UNCHANGED <<queue, worker>>
      BY <1>4, ZenonT(30) DEF Arrive, BeginAuthorize, RefuseCapabilityKey, ResolveAccess,
                         ResolveRefused
    <2> QED
      BY <1>0, <1>1, <2>1, QueueUntouched, ZenonT(30)
  <1>5. ASSUME NEW c \in Conns, Handler(c) PROVE Final(queue', queue) /\ JobOpen'
    <2>1. UNCHANGED worker
      BY <1>5, ZenonT(60)
      DEF Handler, AwaitCached, WakeGranted, WakeEnded, FetchValue, FinishAuthorization,
          AwaitRefused, AwaitCoalesced, AwaitQueued, WakeDeadline, MustAsk
    <2> QED
      BY <1>1, <1>5, <2>1, KeepsHandler
  <1>6. CASE Tick
    <2>1. queue' = AgeQueue(queue) /\ JobKept
      BY <1>0, <1>6, Zenon DEF Tick, JobKept, Worker
    <2>2. /\ queue'.nextId = queue.nextId
          /\ \A j \in Ids : StateOf(queue', j) = StateOf(queue, j)
      BY <1>0, <2>1, AgeQueueLemma, ZenonT(30) DEF StateOf
    <2>3. Keeps
      BY <1>0, <2>2, FinalSame, ZenonT(30) DEF Keeps
    <2> QED
      BY <2>1, <2>3, OpenKept, Zenon DEF Keeps
  <1> QED
    BY <1>2, <1>3, <1>4, <1>5, <1>6, KeepsWorker, ZenonT(30) DEF Next

(* A request that ended stays ended, whatever handlers, worker, timeouts,  *)
(* LOCK and the sweep do after it: fail never overwrites a grant, a late   *)
(* decrypt never grants what was denied or timed out, and a pruned id is   *)
(* never handed out again.                                                 *)
THEOREM EndIsFinalHolds == Spec => EndIsFinal
  <1>1. Init => JobOpen
    BY DEF Init, IdleWorker, JobOpen
  <1>2. TypeInv /\ FlightInv /\ JobOpen /\ [Next]_vars => JobOpen'
    BY OutcomeStep
  <1>3. TypeInv /\ FlightInv /\ JobOpen /\ [Next]_vars =>
           [\A i \in Ids :
              /\ StateOf(queue, i) = "Granted" => StateOf(queue', i) \in {"Granted", "Absent"}
              /\ StateOf(queue, i) \in OverStates \ {"Granted"} =>
                     StateOf(queue', i) \in {StateOf(queue, i), "Failed", "Absent"}
              /\ i < queue.nextId /\ StateOf(queue, i) = "Absent" =>
                     StateOf(queue', i) = "Absent"]_vars
    BY OutcomeStep, Zenon DEF Final
  <1> QED
    BY <1>1, <1>2, <1>3, FlightInvariant, PTL DEF Spec, EndIsFinal

-----------------------------------------------------------------------------
(* One ceremony, one attestation.  A receipt of a request exists only      *)
(* between its one mint and its one redemption, and all of that comes      *)
(* after the grant, when nothing touches the ceremony any more.            *)

Settled(q, i) == i < q.nextId /\ StateOf(q, i) \in {"Granted", "Absent"}

AttestOK(cer, q, i) ==
    /\ cer[i].minted \in {0, 1}
    /\ cer[i].minted = 1 => Settled(q, i)
    /\ cer[i].minted = 0 => cer[i].redeemed = <<>>
    /\ cer[i].redeemed \in {<<>>, <<cer[i].key>>}
    /\ StateOf(q, i) \in {"Decrypting", "Granted"} => cer[i].key = q.requests[i].key

ReceiptOK(cer, r) ==
    /\ cer[r.request].minted = 1
    /\ cer[r.request].redeemed = <<>>
    /\ cer[r.request].key = r.cap

(* The handler that is to mint for a request has not done so yet. *)
MinterOK(cer, q, r) ==
    /\ Holds(r) /\ r.op = "AUTHORIZE" => cer[r.id].minted = 0
    /\ r.pc = "mint" => Settled(q, r.id) /\ cer[r.id].key = r.key

OneEach(rs) == \A r, t \in rs : r.request = t.request => r = t

AttestInv ==
    /\ \A i \in Ids : AttestOK(ceremony, queue, i)
    /\ \A r \in receipts : ReceiptOK(ceremony, r)
    /\ OneEach(receipts)
    /\ \A c \in Conns : MinterOK(ceremony, queue, conn[c])

(* Only the worker begins a decrypt, and only what it began is granted. *)
LEMMA BeginStep ==
    ASSUME TypeInv, FlightInv, [Next]_vars, NEW i \in Ids, ~WorkerStart(i),
           StateOf(queue', i) \in {"Decrypting", "Granted"}
    PROVE  StateOf(queue, i) \in {"Decrypting", "Granted"}
  <1>0. /\ queue \in Queue /\ FlightOK(queue) /\ Fresh(queue)
        /\ (active = NoId \/ active \in Ids) /\ \A c \in Conns : ConnOK(conn[c])
    BY DEF TypeInv, TypeOK, FlightInv
  <1>1. SUFFICES ASSUME NoStart(queue', queue) \/ \E j \in Ids \ {i} : WorkerStart(j)
                 PROVE  StateOf(queue, i) \in {"Decrypting", "Granted"}
    <2>1. Retires(queue', queue) => NoStart(queue', queue)
      BY RetiresNoStart, Zenon
    <2>2. UNCHANGED queue => NoStart(queue', queue)
      BY Zenon DEF NoStart
    <2>3. ASSUME NEW j \in Ids, DenyRequest(j) PROVE NoStart(queue', queue)
      BY <1>0, <2>1, <2>3, CancelRetires, ZenonT(30) DEF DenyRequest, Deny
    <2>4. ASSUME NEW c \in Conns, WakeDeadline(c) PROVE NoStart(queue', queue)
      BY <1>0, <2>1, <2>4, CancelRetires, ZenonT(30) DEF WakeDeadline, Timeout, ConnOK
    <2>5. ASSUME NEW c \in Conns, AwaitQueued(c) PROVE NoStart(queue', queue)
      <3>1. /\ queue.nextId \in Ids
            /\ \A j \in Ids \ {queue.nextId} : queue'.requests[j] = queue.requests[j]
            /\ queue'.requests[queue.nextId].state = "Pending"
        BY <2>5, QueuedStep, Zenon
      <3> QED
        BY <3>1, Zenon DEF NoStart, StateOf
    <2>6. CASE Lock
      BY <1>0, <2>1, <2>2, <2>6, CancelRetires, ZenonT(30) DEF Lock, Deny
    <2>7. CASE WorkerWait
      BY <1>0, <2>1, <2>7, SweptRetires, ZenonT(30) DEF WorkerWait
    <2>8. CASE WorkerSucceeds \/ \E e : WorkerFails(e)
      BY <2>1, <2>8, SuccessRetires, FailureRetires, ZenonT(30)
    <2>9. CASE Tick
      BY <1>0, <2>1, <2>9, AgeQueueRetires, Zenon DEF Tick
    <2> QED
      BY <1>1, <2>2, <2>3, <2>4, <2>5, <2>6, <2>7, <2>8, <2>9, QueueWriters, ZenonT(60)
  <1>2. CASE NoStart(queue', queue)
    BY <1>2, Zenon DEF NoStart
  <1>3. ASSUME NEW j \in Ids \ {i}, WorkerStart(j)
        PROVE  StateOf(queue, i) \in {"Decrypting", "Granted"}
    <2>1. Swept \in Queue /\ NoStart(Swept, queue)
      BY <1>0, SweptRetires, RetiresNoStart, Zenon DEF Retires
    <2>2. queue'.requests[i] = Swept.requests[i]
      BY <1>3, <2>1, MarkDecryptingLemma, SMTT(30) DEF WorkerStart
    <2> QED
      BY <2>1, <2>2, Zenon DEF NoStart, StateOf
  <1> QED
    BY <1>1, <1>2, <1>3, ZenonT(30)

LEMMA SettledStep ==
    ASSUME TypeInv, FlightInv, JobOpen, [Next]_vars, NEW i \in Ids, Settled(queue, i)
    PROVE  Settled(queue', i)
  <1>1. Final(queue', queue)
    BY OutcomeStep, Zenon
  <1>2. queue.nextId <= queue'.nextId
    BY EvolvesStep, Zenon DEF Evolves
  <1>3. TypeInv'
    BY TypeStep, Zenon
  <1>4. i \in Nat /\ queue.nextId \in Nat /\ queue'.nextId \in Nat
    BY <1>3 DEF TypeInv, TypeOK, Queue, Ids
  <1> QED
    BY <1>1, <1>2, <1>4, SMTT(30) DEF Final, Settled

(* The ceremony of i as far as attestation goes. *)
SameCeremony(i) ==
    /\ ceremony'[i].key = ceremony[i].key
    /\ ceremony'[i].minted = ceremony[i].minted
    /\ ceremony'[i].redeemed = ceremony[i].redeemed

LEMMA CeremonyWriters ==
    ASSUME TypeInv, [Next]_vars
    PROVE  \/ \A i \in Ids : SameCeremony(i)
           \/ \E r \in receipts, cap \in CapKeys : RedeemReceipt(r, cap)
           \/ \E c \in Conns : FinishAuthorization(c)
           \/ \E i \in Ids : WorkerStart(i)
  <1> USE DEF core, history
  <1>0. ceremony \in [Ids -> Ceremony] /\ queue.nextId \in Nat
    BY DEF TypeInv, TypeOK, Queue
  <1>1. ASSUME UNCHANGED ceremony PROVE \A i \in Ids : SameCeremony(i)
    BY <1>1, Zenon DEF SameCeremony
  <1>2. CASE Environment \/ UNCHANGED vars
    <2> DEFINE same == UNCHANGED ceremony
    <2>1. UNCHANGED vars => same
      BY Zenon DEF vars
    <2>2. HumanTouches \/ ChildSucceeds \/ ChildFails => same
      BY Zenon DEF HumanTouches, ChildSucceeds, ChildFails
    <2>3. \A k, f : SetFile(k, f) => same
      BY DEF SetFile
    <2>4. \A t : RootExits(t) => same
      BY ZenonT(30) DEF RootExits
    <2>5. \A y : TtyVanishes(y) \/ TtyAppears(y) => same
      BY DEF TtyVanishes, TtyAppears
    <2> HIDE DEF same
    <2>6. same
      BY <1>2, <2>1, <2>2, <2>3, <2>4, <2>5, Zenon
      DEF Environment, ReplaceFile, RemoveFile, DuplicateFile, RemoveDuplicate
    <2> QED
      BY <1>1, <2>6, Zenon DEF same
  <1>3. ASSUME \/ \E t, s : RegisterSession(t, s)
               \/ \E s : UnregisterSession(s)
               \/ \E i : DenyRequest(i)
               \/ Lock \/ Tick
        PROVE  UNCHANGED ceremony
    BY <1>3, Zenon DEF RegisterSession, UnregisterSession, DenyRequest, Lock, Tick
  <1>4. ASSUME NEW c \in Conns, Arrive(c) PROVE UNCHANGED ceremony
    BY <1>4, ZenonT(30) DEF Arrive, BeginAuthorize, RefuseCapabilityKey, ResolveAccess,
                       ResolveRefused
  <1>5. ASSUME NEW c \in Conns, AwaitQueued(c) PROVE \A i \in Ids : SameCeremony(i)
    <2>1. ceremony' = [ceremony EXCEPT ![queue.nextId].reg = conn[c].reg]
      BY <1>5, Zenon DEF AwaitQueued
    <2> QED
      BY <1>0, <2>1 DEF Ceremony, SameCeremony
  <1>6. ASSUME NEW c \in Conns, Handler(c), ~AwaitQueued(c), ~FinishAuthorization(c)
        PROVE  UNCHANGED ceremony
    BY <1>6, ZenonT(60)
    DEF Handler, AwaitCached, WakeGranted, WakeEnded, FetchValue, AwaitRefused,
        AwaitCoalesced, WakeDeadline, MustAsk
  <1>7. ASSUME WorkerStep, \A i \in Ids : ~WorkerStart(i) PROVE UNCHANGED ceremony
    BY <1>7, ZenonT(60)
    DEF WorkerStep, WorkerWait, DecryptSpawn, OnStarted, WorkerDeadline, WorkerSucceeds,
        DecryptRefused, WorkerFails, BackToIdle
  <1> QED
    BY <1>1, <1>2, <1>3, <1>4, <1>5, <1>6, <1>7, ZenonT(60) DEF Next, Command

(* A step that leaves the ceremony of i alone. *)
LEMMA AttestKept ==
    ASSUME TypeInv, FlightInv, JobOpen, [Next]_vars, NEW i \in Ids,
           AttestOK(ceremony, queue, i), SameCeremony(i), ~WorkerStart(i)
    PROVE  AttestOK(ceremony', queue', i)
  <1>1. ceremony'[i].minted = 1 => Settled(queue', i)
    BY SettledStep, ZenonT(30) DEF AttestOK, SameCeremony
  <1>2. StateOf(queue', i) \in {"Decrypting", "Granted"} =>
            ceremony'[i].key = queue'.requests[i].key
    <2> SUFFICES ASSUME StateOf(queue', i) \in {"Decrypting", "Granted"}
                 PROVE  ceremony'[i].key = queue'.requests[i].key
      BY Zenon
    <2>1. StateOf(queue, i) \in {"Decrypting", "Granted"}
      BY BeginStep, Zenon
    <2>2. i < queue.nextId
      BY <2>1 DEF FlightInv, Fresh, TypeInv, TypeOK, Queue, Ids
    <2>3. queue'.requests[i].key = queue.requests[i].key
      BY <2>2, EvolvesStep, ZenonT(30) DEF Evolves
    <2> QED
      BY <2>1, <2>3, Zenon DEF AttestOK, SameCeremony
  <1> QED
    BY <1>1, <1>2, Zenon DEF AttestOK, SameCeremony

LEMMA AttestStart ==
    ASSUME TypeInv, FlightInv, JobOpen, [Next]_vars, NEW i \in Ids, WorkerStart(i),
           \A j \in Ids : AttestOK(ceremony, queue, j)
    PROVE  /\ \A j \in Ids : AttestOK(ceremony', queue', j)
           /\ \A j \in Ids \ {i} : SameCeremony(j)
           /\ ceremony[i].minted = 0 /\ ceremony'[i].minted = 0
           /\ ~Settled(queue, i)
  <1> DEFINE k == Swept.requests[i].key
             r == [ceremony[i] EXCEPT !.key = k, !.epoch = lockEpoch]
  <1>1. Swept \in Queue /\ Steady(Swept, queue) /\ StateOf(Swept, i) = "Pending"
    BY SteadySwept, Zenon DEF WorkerStart, NextReady, First, PendingIds, TypeInv, TypeOK
  <1>2. IsActive(queue, i)
    BY <1>1, Zenon DEF Steady, IsActive, ActiveStates
  <1>3. ~Settled(queue, i)
    BY <1>2, Zenon DEF Settled, IsActive, ActiveStates
  <1>4. ceremony[i].minted = 0 /\ ceremony[i].redeemed = <<>>
    BY <1>3, Zenon DEF AttestOK
  <1>5. ceremony \in [Ids -> Ceremony] /\ ceremony' = [ceremony EXCEPT ![i] = r]
    BY DEF WorkerStart, TypeInv, TypeOK
  <1>6. r.key = k /\ r.minted = ceremony[i].minted /\ r.redeemed = ceremony[i].redeemed
    BY <1>5, Zenon DEF Ceremony
  <1>7. queue'.requests[i].key = k
    BY <1>1, MarkDecryptingLemma, Zenon DEF WorkerStart
  <1> HIDE DEF k, r
  <1>8. ceremony'[i] = r /\ \A j \in Ids \ {i} : ceremony'[j] = ceremony[j]
    BY <1>5, Zenon
  <1>9. AttestOK(ceremony', queue', i)
    BY <1>4, <1>6, <1>7, <1>8, SMTT(30) DEF AttestOK
  <1>10. \A j \in Ids \ {i} : SameCeremony(j) /\ ~WorkerStart(j)
    <2>1. \A j \in Ids : WorkerStart(j) => worker'.id = j
      BY Zenon DEF WorkerStart, IdleWorker
    <2> QED
      BY <1>8, <2>1, Zenon DEF SameCeremony
  <1>11. \A j \in Ids \ {i} : AttestOK(ceremony', queue', j)
    BY <1>10, AttestKept, Zenon
  <1> QED
    BY <1>3, <1>4, <1>6, <1>8, <1>9, <1>10, <1>11, Zenon

(* What the handlers need of the ceremonies, when those they hold are left *)
(* alone.                                                                  *)
LEMMA MinterKept ==
    ASSUME TypeInv, FlightInv, JobOpen, WaitInv, AttestInv, [Next]_vars, NEW c \in Conns,
           Holds(conn[c]) /\ conn[c].op = "AUTHORIZE" =>
               \/ SameCeremony(conn[c].id)
               \/ ceremony'[conn[c].id].minted = 0 /\ ~Settled(queue, conn[c].id),
           queue.nextId \in Ids => SameCeremony(queue.nextId)
    PROVE  MinterOK(ceremony', queue', conn'[c])
  <1>1. SUFFICES ASSUME Holds(conn'[c]), conn'[c].op = "AUTHORIZE"
                 PROVE  /\ ceremony'[conn'[c].id].minted = 0
                        /\ conn'[c].pc = "mint" =>
                              /\ Settled(queue', conn'[c].id)
                              /\ ceremony'[conn'[c].id].key = conn'[c].key
    <2>1. ConnOK(conn'[c])
      BY TypeStep, Zenon DEF TypeInv
    <2> QED
      BY <2>1, ZenonT(30) DEF MinterOK, ConnOK, Holds
  <1>2. ~Joins(c)
    BY <1>1, Joined, ZenonT(30)
  <1>3. CASE Holds(conn[c]) /\ Carries(conn'[c], conn[c])
    <2> DEFINE i == conn[c].id
    <2>1. /\ i \in Ids /\ conn'[c].id = i /\ conn'[c].key = conn[c].key
          /\ conn[c].op = "AUTHORIZE"
      BY <1>1, <1>3, ZenonT(30) DEF Carries, Holds, TypeInv, ConnOK
    <2>2. /\ ceremony[i].minted = 0
          /\ conn[c].pc = "mint" => Settled(queue, i) /\ ceremony[i].key = conn[c].key
      BY <1>3, <2>1, ZenonT(30) DEF AttestInv, MinterOK
    <2>3. ceremony'[i].minted = 0
      BY <1>3, <2>1, <2>2, ZenonT(30) DEF SameCeremony
    <2>4. conn'[c].pc = "mint" => Stays(c) \/ Wakes(c)
      BY ConnStep, ZenonT(30) DEF Moves, Leaves, Sends, Resolves, Serves, Joins, Queues
    <2>5. CASE Stays(c) /\ conn'[c].pc = "mint"
      <3>1. Settled(queue, i) /\ ceremony[i].key = conn[c].key
        BY <2>2, <2>5, ZenonT(30) DEF Stays
      <3>2. Settled(queue', i) /\ SameCeremony(i)
        BY <1>3, <2>1, <3>1, SettledStep, ZenonT(30)
      <3> QED
        BY <2>1, <2>3, <3>1, <3>2, ZenonT(30) DEF SameCeremony
    <2>6. CASE Wakes(c)
      <3>1. /\ StateOf(queue, i) = "Granted" /\ UNCHANGED <<queue, ceremony>>
            /\ i < queue.nextId
            /\ queue.requests[i].key = conn[c].key
        BY <1>3, <2>6, ZenonT(30) DEF Wakes, WaitInv, OwnRequest
      <3>2. ceremony[i].key = queue.requests[i].key
        BY <2>1, <3>1, ZenonT(30) DEF AttestInv, AttestOK
      <3> QED
        BY <2>1, <2>3, <3>1, <3>2, ZenonT(30) DEF Settled
    <2> QED
      BY <2>1, <2>3, <2>4, <2>5, <2>6, ZenonT(30)
  <1>4. CASE Queues(c)
    <2>1. /\ conn'[c].id = queue.nextId /\ conn'[c].pc = "waiting"
          /\ queue.nextId \in Ids
      BY <1>4, QueuedStep, ZenonT(30) DEF Queues
    <2>2. ~(queue.nextId < queue.nextId)
      BY <2>1 DEF Ids
    <2>3. ceremony[queue.nextId].minted = 0
      BY <2>1, <2>2, ZenonT(30) DEF AttestInv, AttestOK, Settled
    <2> QED
      BY <2>1, <2>3, ZenonT(30) DEF SameCeremony
  <1> QED
    BY <1>1, <1>2, <1>3, <1>4, ConnStep, HoldsAfter, Zenon

LEMMA ReceiptKept ==
    ASSUME NEW r, SameCeremony(r.request), ReceiptOK(ceremony, r)
    PROVE  ReceiptOK(ceremony', r)
  BY DEF SameCeremony, ReceiptOK

LEMMA AgedReceipt ==
    ASSUME NEW rs \in SUBSET Receipt, NEW a \in AgeReceipts(rs)
    PROVE  \E r \in rs : /\ a = [r EXCEPT !.age = IF @ < ReceiptTtl THEN @ + 1 ELSE @]
                         /\ a.request = r.request /\ a.cap = r.cap
  <1>1. PICK r \in rs : a = [r EXCEPT !.age = IF @ < ReceiptTtl THEN @ + 1 ELSE @]
    BY DEF AgeReceipts
  <1> QED
    BY <1>1, ZenonT(30) DEF Receipt

(* No ceremony changes: the receipts only age or go. *)
LEMMA AttestQuiet ==
    ASSUME TypeInv, FlightInv, JobOpen, WaitInv, AttestInv, [Next]_vars,
           \A i \in Ids : SameCeremony(i), \A i \in Ids : ~WorkerStart(i),
           receipts' \subseteq receipts \/ Tick
    PROVE  AttestInv'
  <1>0. receipts \subseteq Receipt /\ \A r \in receipts : r.request \in Ids
    BY Zenon DEF TypeInv, TypeOK, Receipt
  <1>1. \A i \in Ids : AttestOK(ceremony', queue', i)
    BY AttestKept, Zenon DEF AttestInv
  <1>2. \A c \in Conns : MinterOK(ceremony', queue', conn'[c])
    <2>1. ASSUME NEW c \in Conns, Holds(conn[c]) PROVE conn[c].id \in Ids
      BY <2>1, Zenon DEF TypeInv, ConnOK, Holds
    <2> QED
      BY <2>1, MinterKept, ZenonT(30)
  <1>3. (\A r \in receipts' : ReceiptOK(ceremony', r)) /\ OneEach(receipts')
    <2>1. \A r \in receipts : ReceiptOK(ceremony', r)
      BY <1>0, ReceiptKept, Zenon DEF AttestInv
    <2>2. CASE receipts' \subseteq receipts
      BY <2>1, <2>2, ZenonT(30) DEF AttestInv, OneEach
    <2>3. CASE Tick
      <3>1. receipts' = AgeReceipts(receipts)
        BY <2>3, Zenon DEF Tick
      <3>2. \A a \in receipts' : ReceiptOK(ceremony', a)
        BY <1>0, <2>1, <3>1, AgedReceipt, SMTT(30) DEF ReceiptOK
      <3>3. ASSUME NEW a \in receipts', NEW b \in receipts', a.request = b.request
            PROVE  a = b
        <4>1. PICK r \in receipts :
                 /\ a = [r EXCEPT !.age = IF @ < ReceiptTtl THEN @ + 1 ELSE @]
                 /\ a.request = r.request
          BY <1>0, <3>1, AgedReceipt
        <4>2. PICK t \in receipts :
                 /\ b = [t EXCEPT !.age = IF @ < ReceiptTtl THEN @ + 1 ELSE @]
                 /\ b.request = t.request
          BY <1>0, <3>1, AgedReceipt
        <4>3. r = t
          BY <3>3, <4>1, <4>2, Zenon DEF AttestInv, OneEach
        <4> QED
          BY <4>1, <4>2, <4>3, Zenon
      <3> QED
        BY <3>2, <3>3, Zenon DEF OneEach
    <2> QED
      BY <2>2, <2>3, Zenon
  <1> QED
    BY <1>1, <1>2, <1>3, Zenon DEF AttestInv

LEMMA AttestWorkerStart ==
    ASSUME TypeInv, FlightInv, JobOpen, WaitInv, AttestInv, [Next]_vars,
           NEW i \in Ids, WorkerStart(i)
    PROVE  AttestInv'
  <1>0. \A r \in receipts : r.request \in Ids
    BY DEF TypeInv, TypeOK, Receipt
  <1>1. /\ \A j \in Ids : AttestOK(ceremony', queue', j)
        /\ \A j \in Ids \ {i} : SameCeremony(j)
        /\ ceremony[i].minted = 0 /\ ceremony'[i].minted = 0 /\ ~Settled(queue, i)
    BY AttestStart, Zenon DEF AttestInv
  <1>2. receipts' \subseteq receipts
    BY DEF WorkerStart, Housekeeping, SweepReceipts
  <1>3. \A r \in receipts : r.request \in Ids \ {i}
    <2>1. 0 # 1
      OBVIOUS
    <2> QED
      BY <1>0, <1>1, <2>1, ZenonT(30) DEF AttestInv, ReceiptOK
  <1>4. (\A r \in receipts' : ReceiptOK(ceremony', r)) /\ OneEach(receipts')
    BY <1>1, <1>2, <1>3, ReceiptKept, ZenonT(30) DEF AttestInv, OneEach
  <1>5. \A c \in Conns : MinterOK(ceremony', queue', conn'[c])
    <2>1. ASSUME NEW c \in Conns, Holds(conn[c]) PROVE conn[c].id \in Ids
      BY <2>1, Zenon DEF TypeInv, ConnOK, Holds
    <2>2. queue.nextId \in Ids => queue.nextId # i
      <3>1. IsActive(queue, i)
        BY SteadySwept, Zenon DEF WorkerStart, NextReady, First, PendingIds, TypeInv, TypeOK,
                           Steady, IsActive, ActiveStates
      <3> QED
        BY <3>1 DEF FlightInv, Fresh, IsActive, ActiveStates, Ids
    <2> QED
      BY <1>1, <2>1, <2>2, MinterKept, ZenonT(30)
  <1> QED
    BY <1>1, <1>4, <1>5, Zenon DEF AttestInv

LEMMA StartsNothing ==
    ASSUME UNCHANGED worker, NEW i \in Ids
    PROVE  ~WorkerStart(i)
  BY Zenon DEF WorkerStart, Housekeeping, IdleWorker

LEMMA AttestRedeem ==
    ASSUME TypeInv, FlightInv, JobOpen, WaitInv, AttestInv, [Next]_vars,
           NEW r \in receipts, NEW cap \in CapKeys, RedeemReceipt(r, cap)
    PROVE  AttestInv'
  <1> DEFINE i == r.request
             n == [ceremony[i] EXCEPT !.redeemed = Append(@, cap)]
  <1>0. /\ \A j \in Ids : ~WorkerStart(j)
        /\ receipts' \subseteq receipts
    BY StartsNothing, Zenon DEF RedeemReceipt, Redeem, SweepReceipts
  <1>1. CASE ~Redeemable(receipts, r, cap)
    <2>1. \A j \in Ids : SameCeremony(j)
      BY <1>1, ZenonT(30) DEF RedeemReceipt, SameCeremony
    <2> QED
      BY <1>0, <2>1, AttestQuiet, Zenon
  <1>2. CASE Redeemable(receipts, r, cap)
    <2>1. ceremony \in [Ids -> Ceremony] /\ \A t \in receipts : t.request \in Ids
      BY DEF TypeInv, TypeOK, Receipt
    <2>2. /\ i \in Ids /\ ceremony[i].minted = 1 /\ ceremony[i].redeemed = <<>>
          /\ ceremony[i].key = cap
      BY <1>2, <2>1, Zenon DEF AttestInv, ReceiptOK, Redeemable
    <2>3. ceremony' = [ceremony EXCEPT ![i] = n] /\ receipts' = SweepReceipts(receipts) \ {r}
      BY <1>2, Zenon DEF RedeemReceipt, Redeem
    <2>4. n.key = cap /\ n.minted = 1 /\ n.redeemed = <<cap>>
      BY <2>1, <2>2 DEF Ceremony
    <2> HIDE DEF n
    <2>5. ceremony'[i] = n /\ \A j \in Ids \ {i} : SameCeremony(j)
      BY <2>1, <2>2, <2>3, Zenon DEF SameCeremony
    <2>6. \A j \in Ids \ {i} : AttestOK(ceremony', queue', j)
      BY <1>0, <2>5, AttestKept, ZenonT(30) DEF AttestInv
    <2>7. Settled(queue, i)
      BY <2>2, ZenonT(30) DEF AttestInv, AttestOK
    <2>8. AttestOK(ceremony', queue', i)
      <3>1. queue' = queue
        BY DEF RedeemReceipt
      <3>2. StateOf(queue, i) \in {"Decrypting", "Granted"} => cap = queue.requests[i].key
        BY <2>2, ZenonT(30) DEF AttestInv, AttestOK
      <3>3. /\ ceremony'[i].minted = 1 /\ ceremony'[i].key = cap
            /\ ceremony'[i].redeemed = <<ceremony'[i].key>>
        BY <2>4, <2>5, Zenon
      <3>4. 0 # 1
        OBVIOUS
      <3> QED
        BY <2>7, <3>1, <3>2, <3>3, <3>4, ZenonT(30) DEF AttestOK
    <2>9. \A t \in receipts' : t \in receipts /\ t.request \in Ids \ {i}
      BY <1>0, <2>1, <2>3, Zenon DEF AttestInv, OneEach
    <2>10. (\A t \in receipts' : ReceiptOK(ceremony', t)) /\ OneEach(receipts')
      BY <2>5, <2>9, ReceiptKept, ZenonT(30) DEF AttestInv, OneEach
    <2>11. ASSUME NEW c \in Conns PROVE MinterOK(ceremony', queue', conn'[c])
      <3>1. Holds(conn[c]) /\ conn[c].op = "AUTHORIZE" => SameCeremony(conn[c].id)
        <4>1. Holds(conn[c]) => conn[c].id \in Ids
          BY Zenon DEF TypeInv, ConnOK, Holds
        <4>2. 0 # 1
          OBVIOUS
        <4> QED
          BY <2>2, <2>5, <4>1, <4>2, ZenonT(30) DEF AttestInv, MinterOK
      <3>2. queue.nextId \in Ids => queue.nextId # i
        BY <2>7 DEF Settled, Ids
      <3> QED
        BY <2>5, <3>1, <3>2, MinterKept, Zenon
    <2> QED
      BY <2>6, <2>8, <2>10, <2>11, Zenon DEF AttestInv
  <1> QED
    BY <1>1, <1>2, Zenon

LEMMA AttestFinish ==
    ASSUME TypeInv, FlightInv, JobOpen, WaitInv, AttestInv, [Next]_vars,
           NEW c \in Conns, FinishAuthorization(c)
    PROVE  AttestInv'
  <1> DEFINE i == conn[c].id
             n == [ceremony[i] EXCEPT !.minted = @ + 1]
             new == [request |-> i, serial |-> ceremony[i].minted, cap |-> conn[c].key,
                     age |-> 0]
  <1>0. /\ \A j \in Ids : ~WorkerStart(j)
        /\ queue' = queue
        /\ ceremony \in [Ids -> Ceremony]
        /\ conn[c].pc = "mint"
    BY StartsNothing, Zenon DEF FinishAuthorization, TypeInv, TypeOK
  <1>1. CASE UNCHANGED ceremony /\ receipts' \subseteq receipts
    <2>1. \A j \in Ids : SameCeremony(j)
      BY <1>1, ZenonT(30) DEF SameCeremony
    <2> QED
      BY <1>0, <1>1, <2>1, AttestQuiet, ZenonT(30)
  <1>2. CASE /\ receipts' = MintReceipt(receipts, i, ceremony[i].minted, conn[c].key)
             /\ ceremony' = [ceremony EXCEPT ![i].minted = @ + 1]
             /\ Answer(c, "RECEIPT")
    <2>1. /\ i \in Ids /\ conn[c].op = "AUTHORIZE" /\ Holds(conn[c])
          /\ ceremony[i].minted = 0 /\ ceremony[i].redeemed = <<>>
          /\ ceremony[i].key = conn[c].key /\ Settled(queue, i)
      <3>1. i \in Ids /\ conn[c].op = "AUTHORIZE" /\ Holds(conn[c])
        BY <1>0, Zenon DEF TypeInv, ConnOK, Holds
      <3> QED
        BY <1>0, <3>1, ZenonT(30) DEF AttestInv, MinterOK, AttestOK
    <2>2. ceremony' = [ceremony EXCEPT ![i] = n] /\ receipts' = SweepReceipts(receipts) \cup {new}
      BY <1>2, Zenon DEF MintReceipt
    <2>3. n.key = conn[c].key /\ n.minted = 1 /\ n.redeemed = <<>>
      BY <1>0, <2>1, SMTT(30) DEF Ceremony
    <2>4. new.request = i /\ new.cap = conn[c].key
      OBVIOUS
    <2> HIDE DEF n, new
    <2>5. ceremony'[i] = n /\ \A j \in Ids \ {i} : SameCeremony(j)
      BY <1>0, <2>1, <2>2, ZenonT(30) DEF SameCeremony
    <2>6. \A j \in Ids \ {i} : AttestOK(ceremony', queue', j)
      BY <1>0, <2>5, AttestKept, ZenonT(30) DEF AttestInv
    <2>7. AttestOK(ceremony', queue', i)
      <3>1. StateOf(queue, i) \in {"Decrypting", "Granted"} =>
                conn[c].key = queue.requests[i].key
        BY <2>1, ZenonT(30) DEF AttestInv, AttestOK
      <3> QED
        BY <1>0, <2>1, <2>3, <2>5, <3>1, ZenonT(30) DEF AttestOK
    <2>8. \A t \in receipts : t.request \in Ids \ {i}
      <3>1. \A t \in receipts : t.request \in Ids
        BY DEF TypeInv, TypeOK, Receipt
      <3>2. 0 # 1
        OBVIOUS
      <3> QED
        BY <2>1, <3>1, <3>2, ZenonT(30) DEF AttestInv, ReceiptOK
    <2>9. \A t \in receipts' : t = new \/ t \in receipts
      BY <2>2, Zenon DEF SweepReceipts
    <2>10. \A t \in receipts' : ReceiptOK(ceremony', t)
      <3>1. ReceiptOK(ceremony', new)
        BY <2>3, <2>4, <2>5, Zenon DEF ReceiptOK
      <3>2. \A t \in receipts : ReceiptOK(ceremony', t)
        BY <2>5, <2>8, ReceiptKept, Zenon DEF AttestInv
      <3> QED
        BY <2>9, <3>1, <3>2, Zenon
    <2>11. OneEach(receipts')
      BY <2>4, <2>8, <2>9, Zenon DEF AttestInv, OneEach
    <2>12. ASSUME NEW d \in Conns PROVE MinterOK(ceremony', queue', conn'[d])
      <3>1. CASE d = c
        <4>1. conn'[c].pc = "done"
          BY <1>2, ZenonT(30) DEF Answer, NewConn, TypeInv, TypeOK
        <4> QED
          BY <3>1, <4>1, Zenon DEF MinterOK, Holds
      <3>2. CASE d # c
        <4>1. Holds(conn[d]) => conn[d].id \in Ids
          BY DEF TypeInv, ConnOK, Holds
        <4>2. Holds(conn[d]) => conn[d].id # i
          BY <2>1, <3>2, ZenonT(30) DEF WaitInv, SoleWaiter
        <4>3. queue.nextId \in Ids => queue.nextId # i
          BY <2>1 DEF Settled, Ids
        <4> QED
          BY <2>5, <4>1, <4>2, <4>3, MinterKept, ZenonT(30)
      <3> QED
        BY <3>1, <3>2, Zenon
    <2> QED
      BY <2>6, <2>7, <2>10, <2>11, <2>12, Zenon DEF AttestInv
  <1> QED
    BY <1>1, <1>2, Zenon DEF FinishAuthorization, SweepReceipts

LEMMA AttestInit == Init => AttestInv
  <1> SUFFICES ASSUME Init PROVE AttestInv
    OBVIOUS
  <1>1. \A i \in Ids : /\ StateOf(queue, i) = "Absent" /\ ceremony[i].minted = 0
                       /\ ceremony[i].redeemed = <<>>
    BY Zenon DEF Init, NewQueue, NoRequest, NoCeremony, StateOf
  <1>2. \A i \in Ids : AttestOK(ceremony, queue, i)
    BY <1>1 DEF AttestOK
  <1>3. receipts = {} /\ \A c \in Conns : conn[c].pc = "new"
    BY Zenon DEF Init, NewConn
  <1> QED
    BY <1>2, <1>3, Zenon DEF AttestInv, OneEach, MinterOK, Holds

LEMMA AttestStep ==
    TypeInv /\ FlightInv /\ JobOpen /\ WaitInv /\ AttestInv /\ [Next]_vars => AttestInv'
  <1> SUFFICES ASSUME TypeInv, FlightInv, JobOpen, WaitInv, AttestInv, [Next]_vars
               PROVE  AttestInv'
    OBVIOUS
  <1>1. ASSUME NEW r \in receipts, NEW cap \in CapKeys, RedeemReceipt(r, cap)
        PROVE  AttestInv'
    BY <1>1, AttestRedeem, Zenon
  <1>2. ASSUME NEW c \in Conns, FinishAuthorization(c) PROVE AttestInv'
    BY <1>2, AttestFinish, Zenon
  <1>3. ASSUME NEW i \in Ids, WorkerStart(i) PROVE AttestInv'
    BY <1>3, AttestWorkerStart, Zenon
  <1>4. ASSUME \A i \in Ids : SameCeremony(i), \A i \in Ids : ~WorkerStart(i),
               \A c \in Conns : ~FinishAuthorization(c)
        PROVE  AttestInv'
    BY <1>4, ReceiptsMove, AttestQuiet, ZenonT(30)
  <1> QED
    BY <1>1, <1>2, <1>3, <1>4, CeremonyWriters, ZenonT(30)

(* One ceremony attests at most once, and only to the capability that was  *)
(* decrypted for it: its one receipt is minted by the one handler that     *)
(* waited on it, after the grant, and is gone from the table in the        *)
(* critical section that redeems it.                                       *)
THEOREM OneAttestationHolds == Spec => []OneAttestationPerCeremony
  <1>1. AttestInv => OneAttestationPerCeremony
    BY Zenon DEF AttestInv, AttestOK, OneAttestationPerCeremony
  <1>2. Init => JobOpen
    BY DEF Init, IdleWorker, JobOpen
  <1>3. TypeInv /\ FlightInv /\ JobOpen /\ [Next]_vars => JobOpen'
    BY OutcomeStep
  <1> QED
    BY <1>1, <1>2, <1>3, AttestInit, AttestStep, WaitInvariant, PTL DEF Spec

=============================================================================
