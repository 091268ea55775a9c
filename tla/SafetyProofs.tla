---------------------------- MODULE SafetyProofs ----------------------------
(***************************************************************************)
(* The safety of the daemon, proved for every value of the constants: what *)
(* a touch approves, what survives the end of a session or a LOCK, and the *)
(* bounds of the queue and of the receipt table.                           *)
(*                                                                         *)
(* Each theorem rests on an inductive invariant that adds to the property  *)
(* what a thread must know about the shared state between two of its own   *)
(* critical sections.                                                      *)
(***************************************************************************)
EXTENDS BrokerProofs, FiniteSetTheorems

-----------------------------------------------------------------------------
(* The invariants. *)

(* While the worker is idle the last touch is at least as old as the last  *)
(* finish; while it is busy, a touch that is still remembered was made for *)
(* its own request.                                                        *)
TouchInv ==
    /\ child # "none" => worker.pc \in {"spawned", "running"}
    /\ worker.pc = "idle" => \/ touch.age = TouchCache
                             \/ touch.age >= queue.sinceFinished
    /\ worker.pc # "idle" => touch.age = TouchCache \/ touch.id = worker.id
    /\ TouchIsForItsRequest

(* The epoch that handler r read before it asked is at most that of the    *)
(* ceremony it waits on, once the worker has begun it.                     *)
EpochOK(r, q, cer, n) ==
    /\ r.epoch <= n
    /\ \/ r.pc = "mint"
       \/ /\ r.pc = "waiting"
          /\ r.op = "AUTHORIZE"
          /\ StateOf(q, r.id) \in {"Decrypting", "Granted"}
       => r.epoch <= cer[r.id].epoch

LockInv ==
    /\ NothingPredatesLock
    /\ \A g \in grants : g.request \in Ids
    /\ \A i \in Ids : ceremony[i].epoch <= lockEpoch
    /\ worker.pc # "idle" => ceremony[worker.id].epoch = worker.epoch
    /\ \A c \in Conns : EpochOK(conn[c], queue, ceremony, lockEpoch)

-----------------------------------------------------------------------------
(* One touch, one request. *)

LEMMA TouchInit == Init => TouchInv
  BY DEF Init, TouchInv, TouchIsForItsRequest, IdleWorker

LEMMA TouchKeeps ==
    ASSUME TypeInv, TouchInv, UNCHANGED <<worker, touch>>,
           queue'.sinceFinished \in {0, queue.sinceFinished},
           child' \in {child, KillGroup(child)}
    PROVE  TouchInv'
  <1>1. touch.age \in Nat
    BY DEF TypeInv, TypeOK
  <1> QED
    BY <1>1 DEF TouchInv, TouchIsForItsRequest, KillGroup

LEMMA TouchCancel ==
    ASSUME TypeInv, TouchInv, NEW i \in Ids, NEW st \in {"Denied", "TimedOut"},
           queue' = Cancel(queue, i, st), KillActive({i}), UNCHANGED <<worker, touch>>
    PROVE  TouchInv'
  <1>1. queue \in Queue
    BY DEF TypeInv, TypeOK
  <1> QED
    BY <1>1, CancelRetires, TouchKeeps, ZenonT(30) DEF KillActive

LEMMA SweptSince ==
    ASSUME queue \in Queue
    PROVE  Swept.sinceFinished \in {0, queue.sinceFinished}
  <1>1. /\ SweepTimeouts(queue) \in Queue
        /\ SweepTimeouts(queue).sinceFinished \in {0, queue.sinceFinished}
    BY SweepTimeoutsLemma, Zenon
  <1> QED
    BY <1>1, PruneLemma, Zenon DEF Swept

LEMMA TouchWorker ==
    ASSUME TypeInv, FlightInv, TouchInv, WorkerStep
    PROVE  TouchInv'
  <1> USE DEF core, outside
  <1>0. queue \in Queue /\ touch.age \in 0..TouchCache
    BY DEF TypeInv, TypeOK
  <1>1. CASE WorkerWait
    <2>1. UNCHANGED <<worker, touch, child>> /\ queue' = Swept
      BY <1>1, FlightSweep, ZenonT(30) DEF WorkerWait, Housekeeping
    <2> QED
      BY <1>0, <2>1, SweptSince, TouchKeeps, ZenonT(30)
  <1>2. ASSUME NEW i \in Ids, WorkerStart(i)
        PROVE  TouchInv'
    <2>1. child = "none" /\ child' = "none" /\ touch' = touch
      BY <1>2, FlightSweep, ZenonT(30) DEF WorkerStart, Housekeeping, TouchInv, TypeInv, TypeOK
    <2>2. Swept.sinceFinished >= Cooldown
      BY <1>2 DEF WorkerStart, NextReady, HardwareFree
    <2>3. queue.sinceFinished >= Cooldown
      BY <1>0, <2>2, SweptSince, QueueAssumption, BrokerAssumption, SMTT(30)
    <2>4. touch.age = TouchCache
      BY <1>0, <1>2, <2>3, BrokerAssumption, QueueAssumption, SMTT(30)
      DEF TouchInv, WorkerStart, Housekeeping, Queue
    <2>5. worker'.pc = "probe"
      BY <1>2, Zenon DEF WorkerStart, IdleWorker
    <2> QED
      BY <2>1, <2>4, <2>5, ZenonT(30) DEF TouchInv, TouchIsForItsRequest
  <1>3. CASE DecryptSpawn \/ OnStarted \/ WorkerDeadline \/ \E e : DecryptRefused(e)
    <2>1. /\ worker'.id = worker.id /\ touch' = touch
          /\ worker.pc # "idle" /\ worker'.pc # "idle"
          /\ child' # "none" => worker'.pc \in {"spawned", "running"}
          /\ child' = "ok" => child = "ok"
      BY <1>3, Zenon DEF DecryptSpawn, OnStarted, WorkerDeadline, DecryptRefused, TouchInv,
                  KillGroup, TypeInv, TypeOK, Worker
    <2> QED
      BY <2>1, ZenonT(30) DEF TouchInv, TouchIsForItsRequest
  <1>4. CASE WorkerSucceeds \/ \E e : WorkerFails(e)
    <2>1. queue'.sinceFinished = 0
      BY <1>4, SuccessRetires, FailureRetires, Zenon
    <2>2. worker'.pc = "idle" /\ child' = "none" /\ touch' = touch
      BY <1>4 DEF WorkerSucceeds, WorkerFails, BackToIdle, IdleWorker
    <2> QED
      BY <1>0, <2>1, <2>2 DEF TouchInv, TouchIsForItsRequest
  <1> QED
    BY <1>1, <1>2, <1>3, <1>4, ZenonT(30) DEF WorkerStep

LEMMA TouchStep == TypeInv /\ FlightInv /\ TouchInv /\ [Next]_vars => TouchInv'
  <1> SUFFICES ASSUME TypeInv, FlightInv, TouchInv, [Next]_vars PROVE TouchInv'
    BY Zenon
  <1> USE DEF core, outside, history
  <1>0. queue \in Queue
    BY Zenon DEF TypeInv, TypeOK
  <1>1. CASE Command
    <2>1. ASSUME NEW t, NEW s, RegisterSession(t, s) PROVE TouchInv'
      BY <2>1, TouchKeeps, Zenon DEF RegisterSession
    <2>2. ASSUME NEW s, UnregisterSession(s) PROVE TouchInv'
      BY <2>2, TouchKeeps, Zenon DEF UnregisterSession
    <2>3. ASSUME NEW i \in Ids, DenyRequest(i) PROVE TouchInv'
      BY <2>3, TouchCancel, Zenon DEF DenyRequest, Deny
    <2>4. CASE Lock
      <3>1. CASE active = NoId
        BY <2>4, <3>1, TouchKeeps, Zenon DEF Lock
      <3>2. CASE active # NoId
        <4>1. active \in Ids
          BY <3>2, Zenon DEF TypeInv, TypeOK
        <4> QED
          BY <2>4, <3>2, <4>1, TouchCancel, Zenon DEF Lock, Deny
      <3> QED
        BY <3>1, <3>2, Zenon
    <2>5. ASSUME NEW r, NEW cap, RedeemReceipt(r, cap) PROVE TouchInv'
      BY <2>5, TouchKeeps, Zenon DEF RedeemReceipt
    <2> QED
      BY <1>1, <2>1, <2>2, <2>3, <2>4, <2>5, Zenon DEF Command
  <1>2. ASSUME NEW c \in Conns, Arrive(c) PROVE TouchInv'
    <2>1. UNCHANGED <<queue, worker, child, touch>>
      BY <1>2, ZenonT(30) DEF Arrive, BeginAuthorize, RefuseCapabilityKey, ResolveAccess,
                  ResolveRefused
    <2> QED
      BY <2>1, TouchKeeps, ZenonT(30)
  <1>3. ASSUME NEW c \in Conns, Handler(c) PROVE TouchInv'
    <2>1. CASE \/ AwaitCached(c) \/ WakeGranted(c) \/ WakeEnded(c) \/ FetchValue(c)
               \/ FinishAuthorization(c) \/ AwaitRefused(c) \/ AwaitCoalesced(c)
      <3>1. UNCHANGED <<queue, worker, child, touch>>
        BY <2>1, Zenon DEF AwaitCached, WakeGranted, WakeEnded, FetchValue,
                    FinishAuthorization, AwaitRefused, AwaitCoalesced, MustAsk
      <3> QED
        BY <3>1, TouchKeeps
    <2>2. CASE AwaitQueued(c)
      <3>1. conn[c].scope \in Scopes /\ conn[c].key \in Keys
        BY <2>2, MustAskType, Zenon DEF AwaitQueued
      <3>2. queue'.sinceFinished = queue.sinceFinished
        BY <1>0, <2>2, <3>1, PushLemma, SMTT(30) DEF AwaitQueued
      <3> QED
        BY <2>2, <3>2, TouchKeeps, Zenon DEF AwaitQueued, MustAsk
    <2>3. CASE WakeDeadline(c)
      <3>1. conn[c].id \in Ids
        BY <2>3, Zenon DEF WakeDeadline, TypeInv, ConnOK
      <3> QED
        BY <2>3, <3>1, TouchCancel, SMTT(60) DEF WakeDeadline, Timeout
    <2> QED
      BY <1>3, <2>1, <2>2, <2>3 DEF Handler
  <1>4. CASE WorkerStep
    BY <1>4, TouchWorker, Zenon
  <1>5. CASE Environment
    <2>1. CASE HumanTouches
      BY <2>1, Zenon DEF HumanTouches, TouchInv, TouchIsForItsRequest
    <2>2. CASE ChildSucceeds
      <3>1. touch.age # TouchCache
        BY <2>2, BrokerAssumption, SMTT(60) DEF ChildSucceeds, TypeInv, TypeOK
      <3> QED
        BY <2>2, <3>1, Zenon DEF ChildSucceeds, TouchInv, TouchIsForItsRequest
    <2>3. CASE ChildFails
      BY <2>3, Zenon DEF ChildFails, TouchInv, TouchIsForItsRequest
    <2>4. ASSUME NEW k, \/ ReplaceFile(k) \/ RemoveFile(k)
                        \/ DuplicateFile(k) \/ RemoveDuplicate(k)
          PROVE  TouchInv'
      BY <2>4, TouchKeeps, Zenon
      DEF ReplaceFile, RemoveFile, DuplicateFile, RemoveDuplicate, SetFile
    <2>5. ASSUME NEW t, RootExits(t) PROVE TouchInv'
      BY <2>5, TouchKeeps, Zenon DEF RootExits
    <2>6. ASSUME NEW y, TtyVanishes(y) \/ TtyAppears(y) PROVE TouchInv'
      <3>1. UNCHANGED <<queue, worker, child, touch>>
        BY <2>6, Zenon DEF TtyVanishes, TtyAppears
      <3> QED
        BY <3>1, TouchKeeps, Zenon
    <2> QED
      BY <1>5, <2>1, <2>2, <2>3, <2>4, <2>5, <2>6, SMTT(60) DEF Environment
  <1>6. CASE Tick
    <2>1. /\ touch.age \in 0..TouchCache /\ touch'.id = touch.id
          /\ touch'.age = IF touch.age < TouchCache THEN touch.age + 1 ELSE touch.age
          /\ worker'.pc = worker.pc /\ worker'.id = worker.id /\ child' = child
      BY <1>6, Zenon DEF Tick, TypeInv, TypeOK, Worker
    <2>2. /\ queue.sinceFinished \in 0..Cooldown
          /\ queue'.sinceFinished = IF queue.sinceFinished < Cooldown
                                    THEN queue.sinceFinished + 1
                                    ELSE queue.sinceFinished
      BY <1>0, <1>6, AgeQueueLemma, Zenon DEF Tick, Queue
    <2> QED
      BY <2>1, <2>2, QueueAssumption, BrokerAssumption, SMTT(30)
      DEF TouchInv, TouchIsForItsRequest
  <1>7. CASE UNCHANGED vars
    BY <1>7, TouchKeeps, Zenon DEF vars
  <1> QED
    BY <1>1, <1>2, <1>3, <1>4, <1>5, <1>6, <1>7, Zenon DEF Next

(* One touch never approves two requests, for every cooldown longer than   *)
(* the touch cache: the condition that Config::validate imposes.           *)
THEOREM TouchIsForItsRequestHolds == Spec => []TouchIsForItsRequest
  <1>1. TouchInv => TouchIsForItsRequest
    BY DEF TouchInv
  <1>2. Spec => []TouchInv
    BY TouchInit, TouchStep, FlightInvariant, PTL DEF Spec
  <1> QED
    BY <1>1, <1>2, PTL

-----------------------------------------------------------------------------
(* A grant never outlives the registration of its session. *)

LEMMA GrantsShrink ==
    ASSUME SessionGrantsRegistered, UNCHANGED registry,
           \A g \in grants' : \E h \in grants : h.scope = g.scope
    PROVE  SessionGrantsRegistered'
  BY DEF SessionGrantsRegistered

LEMMA SessionStep ==
    TypeInv /\ SessionGrantsRegistered /\ [Next]_vars => SessionGrantsRegistered'
  <1> SUFFICES ASSUME TypeInv, SessionGrantsRegistered, [Next]_vars
               PROVE  SessionGrantsRegistered'
    OBVIOUS
  <1> USE DEF core, outside, history
  <1>0. registry \in Registry /\ grants \subseteq Grant /\ queue \in Queue
    BY DEF TypeInv, TypeOK
  <1>1. CASE Command
    <2>1. ASSUME NEW t \in Tokens, NEW s \in Sessions, RegisterSession(t, s)
          PROVE  SessionGrantsRegistered'
      <3>1. \A u \in Tokens : registry.session[u] # None =>
               u \in Displaced(registry, t, s) \/ registry'.session[u] # None
        BY <1>0, <2>1, GrantsAssumption, ZenonT(30)
        DEF RegisterSession, Register, Displaced, TokensOf, Registry
      <3>2. \A g \in grants' : g \in grants /\ g.scope \notin Displaced(registry, t, s)
        BY <2>1, Zenon DEF RegisterSession, RevokeTokens
      <3> QED
        BY <3>1, <3>2, Zenon DEF SessionGrantsRegistered
    <2>2. ASSUME NEW s \in Sessions, UnregisterSession(s)
          PROVE  SessionGrantsRegistered'
      <3>1. \A u \in Tokens : registry.session[u] # None =>
               u \in TokensOf(registry, s) \/ registry'.session[u] # None
        BY <1>0, <2>2, Zenon DEF UnregisterSession, Unregister, TokensOf, Registry
      <3>2. \A g \in grants' : g \in grants /\ g.scope \notin TokensOf(registry, s)
        BY <2>2, Zenon DEF UnregisterSession, RevokeTokens
      <3> QED
        BY <3>1, <3>2, Zenon DEF SessionGrantsRegistered
    <2>3. ASSUME NEW i, DenyRequest(i) PROVE SessionGrantsRegistered'
      BY <2>3, GrantsShrink, Zenon DEF DenyRequest
    <2>4. CASE Lock
      BY <2>4, Zenon DEF Lock, SessionGrantsRegistered
    <2>5. ASSUME NEW r, NEW cap, RedeemReceipt(r, cap) PROVE SessionGrantsRegistered'
      BY <2>5, GrantsShrink, Zenon DEF RedeemReceipt
    <2> QED
      BY <1>1, <2>1, <2>2, <2>3, <2>4, <2>5, Zenon DEF Command
  <1>2. ASSUME NEW c \in Conns, Arrive(c) PROVE SessionGrantsRegistered'
    <2>1. ASSUME NEW op, NEW k, NEW t, NEW y, ResolveAccess(c, op, k, t, y)
          PROVE  SessionGrantsRegistered'
      <3>1. registry'.session = registry.session /\ grants' = grants
        BY <1>0, <2>1, Zenon DEF ResolveAccess, LearnTty, Registry
      <3> QED
        BY <3>1, Zenon DEF SessionGrantsRegistered
    <2>2. CASE BeginAuthorize(c) \/ RefuseCapabilityKey(c)
      BY <2>2, GrantsShrink, Zenon DEF BeginAuthorize, RefuseCapabilityKey
    <2>3. ASSUME NEW op, NEW k, NEW t, NEW y, NEW b, ResolveRefused(c, op, k, t, y, b)
          PROVE  SessionGrantsRegistered'
      BY <2>3, GrantsShrink, Zenon DEF ResolveRefused
    <2> QED
      BY <1>2, <2>1, <2>2, <2>3, ZenonT(30) DEF Arrive
  <1>3. ASSUME NEW c \in Conns, Handler(c) PROVE SessionGrantsRegistered'
    <2>1. grants' \subseteq grants /\ registry' = registry
      BY <1>3, Zenon DEF Handler, AwaitCached, WakeGranted, WakeEnded, FetchValue,
                  FinishAuthorization, AwaitRefused, AwaitCoalesced, AwaitQueued,
                  WakeDeadline, MustAsk, Revoke
    <2> QED
      BY <2>1, GrantsShrink, ZenonT(30)
  <1>4. CASE WorkerStep
    <2>1. CASE WorkerSucceeds
      <3> DEFINE q == IF Withdrawn THEN Deny(queue, worker.id) ELSE queue
      <3>1. worker.id \in Ids /\ registry' = registry
        BY <2>1, Zenon DEF WorkerSucceeds, BackToIdle, TypeInv, WorkerOK
      <3>2. StillCurrent(q, worker.id, worker.generation) => ~Withdrawn
        <4>1. ~IsActive(Deny(queue, worker.id), worker.id)
          BY <1>0, <3>1, CancelRetires, Zenon DEF Deny
        <4> QED
          BY <4>1, Zenon DEF StillCurrent, IsActive, ActiveStates
      <3>3. grants' = IF StillCurrent(q, worker.id, worker.generation)
                      THEN InsertGrant(grants, worker.scope, worker.key,
                                       worker.version, worker.id)
                      ELSE grants
        BY <2>1, Zenon DEF WorkerSucceeds
      <3>4. \A g \in grants' : \/ g \in grants
                               \/ g.scope = worker.scope /\ ~Withdrawn
        BY <3>2, <3>3 DEF InsertGrant, Revoke
      <3> QED
        BY <3>1, <3>4, Zenon DEF SessionGrantsRegistered, Withdrawn, ScopeAlive
    <2>2. CASE \/ WorkerWait \/ DecryptSpawn \/ OnStarted \/ WorkerDeadline
               \/ (\E i \in Ids : WorkerStart(i))
               \/ (\E e : DecryptRefused(e) \/ WorkerFails(e))
      <3>1. grants' \subseteq grants /\ registry' = registry
        BY <2>2, Zenon DEF WorkerWait, WorkerStart, Housekeeping, DecryptSpawn, OnStarted,
                    WorkerDeadline, DecryptRefused, WorkerFails, BackToIdle,
                    RevokeMissingTtys, RevokeExpired
      <3> QED
        BY <3>1, GrantsShrink, ZenonT(30)
    <2> QED
      BY <1>4, <2>1, <2>2, Zenon DEF WorkerStep
  <1>5. CASE Environment
    <2>1. grants' = grants /\ registry'.session = registry.session
      BY <1>0, <1>5, ZenonT(30)
      DEF Environment, HumanTouches, ChildSucceeds, ChildFails, ReplaceFile,
          RemoveFile, DuplicateFile, RemoveDuplicate, SetFile, RootExits,
          TtyVanishes, TtyAppears, Registry
    <2> QED
      BY <2>1, Zenon DEF SessionGrantsRegistered
  <1>6. CASE Tick
    <2>1. ASSUME NEW g \in grants
          PROVE  [g EXCEPT !.age = IF @ < MaxGrant THEN @ + 1 ELSE @].scope = g.scope
      BY <1>0, ZenonT(30) DEF Grant
    <2>2. \A g \in grants' : \E h \in grants : h.scope = g.scope
      BY <1>6, <2>1, Zenon DEF Tick, AgeGrants
    <2> QED
      BY <1>6, <2>2, GrantsShrink, ZenonT(30) DEF Tick
  <1>7. CASE UNCHANGED vars
    BY <1>7, ZenonT(30) DEF vars, SessionGrantsRegistered
  <1> QED
    BY <1>1, <1>2, <1>3, <1>4, <1>5, <1>6, <1>7, Zenon DEF Next

(* No session grant exists for a token that is not registered, however     *)
(* register and unregister fall between the worker's critical sections.    *)
THEOREM SessionGrantsRegisteredHolds == Spec => []SessionGrantsRegistered
  <1>1. Init => SessionGrantsRegistered
    BY Zenon DEF Init, SessionGrantsRegistered
  <1> QED
    BY <1>1, SessionStep, TypeInit, TypeStep, PTL DEF Spec

-----------------------------------------------------------------------------
(* Nothing survives a LOCK. *)

LEMMA LockInit == Init => LockInv
  <1> SUFFICES ASSUME Init PROVE LockInv
    OBVIOUS
  <1>1. \A i \in Ids : ceremony[i].epoch <= lockEpoch
    <2>1. NoCeremony.epoch = 0
      BY DEF NoCeremony
    <2>2. lockEpoch = 0 /\ \A i \in Ids : ceremony[i] = NoCeremony
      BY Zenon DEF Init
    <2> QED
      BY <2>1, <2>2
  <1>2. \A c \in Conns : conn[c].epoch = 0 /\ conn[c].pc = "new"
    <2>1. NewConn.epoch = 0 /\ NewConn.pc = "new"
      BY DEF NewConn
    <2>2. \A c \in Conns : conn[c] = NewConn
      BY Zenon DEF Init
    <2> QED
      BY <2>1, <2>2, Zenon
  <1>3. worker.pc = "idle" /\ grants = {} /\ receipts = {} /\ lockEpoch = 0
    BY Zenon DEF Init, IdleWorker
  <1> QED
    BY <1>1, <1>2, <1>3, SMTT(30) DEF LockInv, NothingPredatesLock, EpochOK

LEMMA EpochKept ==
    ASSUME NEW r, ConnOK(r), NEW q, NEW p, NoStart(p, q), NEW cer, NEW n,
           EpochOK(r, q, cer, n)
    PROVE  EpochOK(r, p, cer, n)
  BY DEF ConnOK, NoStart, EpochOK

(* A handler that answers no longer carries an epoch. *)
LEMMA EpochsAfterAnswer ==
    ASSUME TypeInv, LockInv, NEW c \in Conns, NEW a, Answer(c, a),
           NoStart(queue', queue)
    PROVE  \A d \in Conns : EpochOK(conn'[d], queue', ceremony, lockEpoch)
  <1>1. /\ conn'[c].epoch = 0 /\ conn'[c].pc = "done"
        /\ \A d \in Conns \ {c} : conn'[d] = conn[d]
        /\ lockEpoch \in Nat
    BY Zenon DEF Answer, NewConn, TypeInv, TypeOK
  <1>2. EpochOK(conn'[c], queue', ceremony, lockEpoch)
    BY <1>1, SMTT(60) DEF EpochOK
  <1>3. \A d \in Conns \ {c} : EpochOK(conn'[d], queue', ceremony, lockEpoch)
    BY <1>1, EpochKept, Zenon DEF LockInv, TypeInv
  <1> QED
    BY <1>2, <1>3, Zenon

LEMMA EpochsAfterMove ==
    ASSUME TypeInv, LockInv, NEW c \in Conns, NEW r,
           conn' = [conn EXCEPT ![c] = r], NoStart(queue', queue),
           EpochOK(r, queue', ceremony, lockEpoch)
    PROVE  \A d \in Conns : EpochOK(conn'[d], queue', ceremony, lockEpoch)
  <1>1. conn'[c] = r /\ \A d \in Conns \ {c} : conn'[d] = conn[d]
    BY SMTT(60) DEF TypeInv, TypeOK
  <1>2. \A d \in Conns \ {c} : EpochOK(conn'[d], queue', ceremony, lockEpoch)
    BY <1>1, EpochKept, Zenon DEF LockInv, TypeInv
  <1> QED
    BY <1>1, <1>2, ZenonT(30)

LEMMA EpochsUnmoved ==
    ASSUME TypeInv, LockInv, UNCHANGED conn, NoStart(queue', queue)
    PROVE  \A d \in Conns : EpochOK(conn'[d], queue', ceremony, lockEpoch)
  BY EpochKept, ZenonT(30) DEF LockInv, TypeInv

(* Whatever begins no ceremony and adds nothing from an earlier epoch. *)
LEMMA LockKeeps ==
    ASSUME TypeInv, TypeInv', LockInv, UNCHANGED lockEpoch,
           \A i \in Ids : ceremony'[i].epoch = ceremony[i].epoch,
           \A g \in grants' :
              \/ \E h \in grants : h.request = g.request
              \/ g.request \in Ids /\ ceremony[g.request].epoch = lockEpoch,
           \A r \in receipts' :
              \/ \E h \in receipts : h.request = r.request
              \/ ceremony[r.request].epoch = lockEpoch,
           \/ worker'.pc = "idle"
           \/ worker.pc # "idle" /\ worker'.id = worker.id /\ worker'.epoch = worker.epoch,
           \A d \in Conns : EpochOK(conn'[d], queue', ceremony, lockEpoch)
    PROVE  LockInv'
  <1>1. \A g \in grants' : g.request \in Ids /\ ceremony'[g.request].epoch = lockEpoch'
    BY Zenon DEF LockInv, NothingPredatesLock
  <1>2. \A r \in receipts' : ceremony'[r.request].epoch = lockEpoch'
    <2>1. \A r \in receipts' : r.request \in Ids
      BY DEF TypeInv, TypeOK, Receipt
    <2> QED
      BY <2>1, ZenonT(30) DEF LockInv, NothingPredatesLock
  <1>3. worker'.pc # "idle" => ceremony'[worker'.id].epoch = worker'.epoch
    BY Zenon DEF LockInv, TypeInv, WorkerOK
  <1>4. \A d \in Conns : EpochOK(conn'[d], queue', ceremony', lockEpoch')
    <2>1. \A d \in Conns : conn'[d].pc \in {"waiting", "mint"} => conn'[d].id \in Ids
      BY Zenon DEF TypeInv, ConnOK
    <2> SUFFICES ASSUME NEW d \in Conns
                 PROVE  EpochOK(conn'[d], queue', ceremony', lockEpoch')
      BY Zenon
    <2>2. EpochOK(conn'[d], queue', ceremony, lockEpoch) /\ lockEpoch' = lockEpoch
      BY Zenon
    <2> QED
      BY <2>1, <2>2, Zenon DEF EpochOK
  <1> QED
    BY <1>1, <1>2, <1>3, <1>4, Zenon DEF LockInv, NothingPredatesLock

LEMMA LockCommand ==
    ASSUME TypeInv, TypeInv', LockInv, Command
    PROVE  LockInv'
  <1> USE DEF outside, history
  <1>0. queue \in Queue /\ NoStart(queue, queue)
    BY ZenonT(30) DEF TypeInv, TypeOK, NoStart
  <1>1. ASSUME NEW t, NEW s, RegisterSession(t, s) PROVE LockInv'
    BY <1>0, <1>1, LockKeeps, EpochsUnmoved, Zenon
    DEF RegisterSession, RevokeTokens, LockInv
  <1>2. ASSUME NEW s, UnregisterSession(s) PROVE LockInv'
    BY <1>0, <1>2, LockKeeps, EpochsUnmoved, Zenon
    DEF UnregisterSession, RevokeTokens, LockInv
  <1>3. ASSUME NEW i \in Ids, DenyRequest(i) PROVE LockInv'
    <2>1. NoStart(queue', queue)
      BY <1>0, <1>3, CancelRetires, RetiresNoStart, ZenonT(30) DEF DenyRequest, Deny
    <2> QED
      BY <1>3, <2>1, LockKeeps, EpochsUnmoved, Zenon DEF DenyRequest, LockInv
  <1>4. CASE Lock
    <2>1. /\ grants' = {} /\ receipts' = {} /\ lockEpoch' = lockEpoch + 1
          /\ UNCHANGED <<conn, worker, ceremony>> /\ lockEpoch \in Nat
      BY <1>4, Zenon DEF Lock, TypeInv, TypeOK
    <2>2. NoStart(queue', queue)
      <3>1. active = NoId \/ active \in Ids
        BY SMTT(60) DEF TypeInv, TypeOK
      <3> QED
        BY <1>0, <1>4, <3>1, CancelRetires, RetiresNoStart, ZenonT(30) DEF Lock, Deny
    <2>3. \A i \in Ids : ceremony'[i].epoch <= lockEpoch'
      <3>1. \A i \in Ids : ceremony[i].epoch \in Nat
        BY DEF TypeInv, TypeOK, Ceremony
      <3>2. \A i \in Ids : ceremony'[i].epoch <= lockEpoch
        BY <2>1, Zenon DEF LockInv
      <3>3. \A i \in Ids : ceremony'[i].epoch \in Nat
        BY <2>1, <3>1, Zenon
      <3> QED
        BY <2>1, <3>2, <3>3, SMTT(60)
    <2>4. \A c \in Conns : EpochOK(conn'[c], queue', ceremony', lockEpoch')
      <3>1. ASSUME NEW c \in Conns
            PROVE  EpochOK(conn'[c], queue', ceremony', lockEpoch')
        <4>1. EpochOK(conn'[c], queue', ceremony, lockEpoch)
          BY <2>1, <2>2, EpochsUnmoved, SMTT(60)
        <4>2. conn[c].epoch \in Nat
          BY DEF TypeInv, ConnOK, Conn
        <4>3. conn'[c].epoch <= lockEpoch /\ conn'[c] = conn[c]
          BY <2>1, <4>1, Zenon DEF EpochOK
        <4>4. conn'[c].epoch <= lockEpoch'
          <5> HIDE DEF outside, history
          <5> QED
            BY <2>1, <4>2, <4>3, SMTT(30)
        <4> QED
          BY <2>1, <4>1, <4>4, Zenon DEF EpochOK
      <3> QED
        BY <3>1, ZenonT(30)
    <2> QED
      BY <2>1, <2>3, <2>4, Zenon DEF LockInv, NothingPredatesLock
  <1>5. ASSUME NEW r \in receipts, NEW cap, RedeemReceipt(r, cap) PROVE LockInv'
    <2>1. /\ receipts' \subseteq receipts
          /\ UNCHANGED <<grants, lockEpoch, worker, conn, queue>>
      BY <1>5, ZenonT(30) DEF RedeemReceipt, Redeem, SweepReceipts
    <2>2. \A i \in Ids : ceremony'[i].epoch = ceremony[i].epoch
      <3>1. r.request \in Ids /\ ceremony \in [Ids -> Ceremony]
        BY Zenon DEF TypeInv, TypeOK, Receipt
      <3>2. [ceremony[r.request] EXCEPT !.redeemed = Append(@, cap)].epoch
              = ceremony[r.request].epoch
        BY <3>1, ZenonT(30) DEF Ceremony
      <3> QED
        BY <1>5, <3>1, <3>2, ZenonT(30) DEF RedeemReceipt
    <2> QED
      BY <1>0, <2>1, <2>2, LockKeeps, EpochsUnmoved, Zenon DEF LockInv
  <1> QED
    BY <1>1, <1>2, <1>3, <1>4, <1>5, ZenonT(30) DEF Command

LEMMA LockArrive ==
    ASSUME TypeInv, TypeInv', LockInv, NEW c \in Conns, Arrive(c)
    PROVE  LockInv'
  <1> USE DEF core, outside, history
  <1>0. NoStart(queue', queue) /\ UNCHANGED <<grants, receipts, lockEpoch, worker, ceremony>>
    BY ZenonT(30)
    DEF Arrive, BeginAuthorize, RefuseCapabilityKey, ResolveAccess, ResolveRefused,
        NoStart
  <1>1. conn[c] \in Conn /\ lockEpoch \in Nat
    BY DEF TypeInv, TypeOK
  <1>2. \A d \in Conns : EpochOK(conn'[d], queue', ceremony, lockEpoch)
    <2>1. CASE BeginAuthorize(c)
      <3> DEFINE r == [conn[c] EXCEPT !.pc = "resolve", !.op = "AUTHORIZE",
                                      !.epoch = lockEpoch]
      <3>1. r.epoch = lockEpoch /\ r.pc = "resolve"
        BY <1>1, Zenon DEF Conn
      <3>2. EpochOK(r, queue', ceremony, lockEpoch)
        BY <1>1, <3>1 DEF EpochOK
      <3>3. conn' = [conn EXCEPT ![c] = r]
        BY <2>1, ZenonT(30) DEF BeginAuthorize
      <3> HIDE DEF r
      <3> QED
        BY <1>0, <3>2, <3>3, EpochsAfterMove, Zenon
    <2>2. CASE RefuseCapabilityKey(c)
      BY <1>0, <2>2, EpochsAfterAnswer, Zenon DEF RefuseCapabilityKey
    <2>3. ASSUME NEW op, NEW k, NEW t, NEW y, ResolveAccess(c, op, k, t, y)
          PROVE  \A d \in Conns : EpochOK(conn'[d], queue', ceremony, lockEpoch)
      <3> DEFINE r == [conn[c] EXCEPT !.pc = "await", !.op = op, !.key = k,
                                      !.scope = ResolvedScope(t, y),
                                      !.seen = files[k].version,
                                      !.reg = IF t # None THEN regs[t] ELSE 0]
      <3>1. r.epoch = conn[c].epoch /\ r.pc = "await"
        BY <1>1, Zenon DEF Conn
      <3>2. EpochOK(r, queue', ceremony, lockEpoch)
        BY <3>1, Zenon DEF EpochOK, LockInv
      <3>3. conn' = [conn EXCEPT ![c] = r]
        BY <2>3, Zenon DEF ResolveAccess
      <3> HIDE DEF r
      <3> QED
        BY <1>0, <3>2, <3>3, EpochsAfterMove, Zenon
    <2>4. ASSUME NEW op, NEW k, NEW t, NEW y, NEW b, ResolveRefused(c, op, k, t, y, b)
          PROVE  \A d \in Conns : EpochOK(conn'[d], queue', ceremony, lockEpoch)
      BY <1>0, <2>4, EpochsAfterAnswer, ZenonT(30) DEF ResolveRefused
    <2> QED
      BY <2>1, <2>2, <2>3, <2>4, ZenonT(30) DEF Arrive
  <1> QED
    BY <1>0, <1>2, LockKeeps, Zenon DEF LockInv

LEMMA LockHandler ==
    ASSUME TypeInv, TypeInv', LockInv, NEW c \in Conns, Handler(c)
    PROVE  LockInv'
  <1> USE DEF core, outside, history
  <1> DEFINE EpochsOK == \A d \in Conns : EpochOK(conn'[d], queue', ceremony, lockEpoch)
  <1>0. /\ queue \in Queue /\ NoStart(queue, queue) /\ conn[c] \in Conn /\ ConnOK(conn[c])
        /\ EpochOK(conn[c], queue, ceremony, lockEpoch)
    BY Zenon DEF TypeInv, TypeOK, NoStart, LockInv
  <1>1. \A r : r = [conn[c] EXCEPT !.pc = "fetch"] =>
               EpochOK(r, queue, ceremony, lockEpoch)
    BY <1>0, Zenon DEF EpochOK, Conn
  <1>2. CASE AwaitCached(c)
    <2>1. EpochsOK
      <3>1. CASE conn[c].op = "GET"
        BY <1>0, <1>1, <1>2, <3>1, EpochsAfterMove, ZenonT(30) DEF AwaitCached
      <3>2. CASE conn[c].op # "GET"
        BY <1>0, <1>2, <3>2, EpochsAfterAnswer, ZenonT(30) DEF AwaitCached
      <3> QED
        BY <3>1, <3>2, Zenon
    <2> QED
      BY <1>2, <2>1, LockKeeps, ZenonT(30) DEF AwaitCached, LockInv
  <1>3. CASE AwaitRefused(c)
    <2>1. EpochsOK
      BY <1>0, <1>3, EpochsAfterAnswer, Zenon DEF AwaitRefused
    <2> QED
      BY <1>3, <2>1, LockKeeps, Zenon DEF AwaitRefused, MustAsk, Revoke, LockInv
  <1>4. CASE AwaitCoalesced(c)
    <2>1. PICK i \in Ids : /\ i \in Coalescible(queue, conn[c].scope, conn[c].key)
                          /\ Waiting(c, i)
      BY <1>4, Zenon DEF AwaitCoalesced, First
    <2>2. conn[c].op # "AUTHORIZE"
      BY <1>0, <1>4, <2>1, Zenon DEF AwaitCoalesced, MustAsk, ConnOK, Coalescible
    <2> DEFINE r == [conn[c] EXCEPT !.pc = "waiting", !.id = i, !.waited = 0]
    <2>3. r.pc = "waiting" /\ r.op # "AUTHORIZE" /\ r.epoch = conn[c].epoch
      BY <1>0, <2>2, Zenon DEF Conn
    <2>4. EpochOK(r, queue, ceremony, lockEpoch)
      BY <1>0, <2>3, ZenonT(30) DEF EpochOK
    <2>5. conn' = [conn EXCEPT ![c] = r] /\ queue' = queue
      BY <1>4, <2>1, Zenon DEF Waiting, AwaitCoalesced
    <2> HIDE DEF r
    <2>6. EpochsOK
      BY <1>0, <2>4, <2>5, EpochsAfterMove, Zenon
    <2> QED
      BY <1>4, <2>6, LockKeeps, Zenon DEF AwaitCoalesced, MustAsk, Revoke, LockInv
  <1>5. CASE AwaitQueued(c)
    <2> DEFINE r == [conn[c] EXCEPT !.pc = "waiting", !.id = queue.nextId, !.waited = 0]
    <2>1. /\ queue.nextId \in Ids
          /\ \A j \in Ids \ {queue.nextId} : queue'.requests[j] = queue.requests[j]
          /\ StateOf(queue', queue.nextId) = "Pending"
      BY <1>0, <1>5, MustAskType, PushLemma, SMTT(30) DEF AwaitQueued, StateOf
    <2>2. NoStart(queue', queue)
      BY <2>1, Zenon DEF NoStart, StateOf
    <2>3. r.id = queue.nextId /\ r.epoch = conn[c].epoch /\ r.pc = "waiting"
      BY <1>0, Zenon DEF Conn
    <2>4. EpochOK(r, queue', ceremony, lockEpoch)
      BY <1>0, <2>1, <2>3, Zenon DEF EpochOK
    <2>5. conn' = [conn EXCEPT ![c] = r]
      BY <1>5, Zenon DEF Waiting, AwaitQueued
    <2> HIDE DEF r
    <2>6. EpochsOK
      BY <2>2, <2>4, <2>5, EpochsAfterMove, Zenon
    <2>7. \A i \in Ids : ceremony'[i].epoch = ceremony[i].epoch
      <3>1. ceremony \in [Ids -> Ceremony]
        BY Zenon DEF TypeInv, TypeOK
      <3>2. ceremony' = [ceremony EXCEPT ![queue.nextId].reg = conn[c].reg]
        BY <1>5, Zenon DEF AwaitQueued
      <3> QED
        BY <2>1, <3>1, <3>2, Zenon DEF Ceremony
    <2> QED
      BY <1>5, <2>6, <2>7, LockKeeps, Zenon DEF AwaitQueued, MustAsk, Revoke, LockInv
  <1>6. CASE WakeGranted(c)
    <2>1. EpochsOK
      <3>1. CASE conn[c].op = "GET"
        BY <1>0, <1>1, <1>6, <3>1, EpochsAfterMove, ZenonT(30) DEF WakeGranted
      <3>2. CASE conn[c].op = "AUTHORIZE"
        <4> DEFINE r == [conn[c] EXCEPT !.pc = "mint"]
        <4>1. r.id = conn[c].id /\ r.epoch = conn[c].epoch /\ r.pc = "mint"
          BY <1>0, Zenon DEF Conn
        <4>2. EpochOK(r, queue, ceremony, lockEpoch)
          BY <1>0, <1>6, <3>2, <4>1, ZenonT(30) DEF EpochOK, WakeGranted
        <4>3. conn' = [conn EXCEPT ![c] = r] /\ queue' = queue
          BY <1>6, <3>2, Zenon DEF WakeGranted
        <4> HIDE DEF r
        <4> QED
          BY <1>0, <4>2, <4>3, EpochsAfterMove, Zenon
      <3>3. CASE conn[c].op \notin {"GET", "AUTHORIZE"}
        BY <1>0, <1>6, <3>3, EpochsAfterAnswer, ZenonT(30) DEF WakeGranted
      <3> QED
        BY <3>1, <3>2, <3>3, ZenonT(30)
    <2> QED
      BY <1>6, <2>1, LockKeeps, Zenon DEF WakeGranted, LockInv
  <1>7. CASE WakeEnded(c)
    <2>1. EpochsOK
      BY <1>0, <1>7, EpochsAfterAnswer, Zenon DEF WakeEnded
    <2> QED
      BY <1>7, <2>1, LockKeeps, Zenon DEF WakeEnded, LockInv
  <1>8. CASE WakeDeadline(c)
    <2>1. NoStart(queue', queue)
      BY <1>0, <1>8, CancelRetires, RetiresNoStart, Zenon DEF WakeDeadline, Timeout, ConnOK
    <2>2. EpochsOK
      BY <1>8, <2>1, EpochsAfterAnswer, Zenon DEF WakeDeadline
    <2> QED
      BY <1>8, <2>2, LockKeeps, Zenon DEF WakeDeadline, LockInv
  <1>9. CASE FetchValue(c)
    <2>1. EpochsOK
      <3>1. CASE LookupGrant(grants, conn[c].scope, conn[c].key) = {}
        BY <1>0, <1>9, <3>1, EpochsAfterAnswer, Zenon DEF FetchValue
      <3>2. CASE LookupGrant(grants, conn[c].scope, conn[c].key) # {}
        <4>1. PICK v : AnswerBytes(c, v)
          BY <1>9, <3>2, Zenon DEF FetchValue
        <4> DEFINE r == [NewConn EXCEPT !.pc = "done", !.answer = "BYTES",
                                        !.id = conn[c].id, !.seen = conn[c].seen,
                                        !.served = v]
        <4>2. r.epoch = 0 /\ r.pc = "done" /\ lockEpoch \in Nat
          BY Zenon DEF NewConn, TypeInv, TypeOK
        <4>3. EpochOK(r, queue, ceremony, lockEpoch)
          BY <4>2 DEF EpochOK
        <4>4. conn' = [conn EXCEPT ![c] = r] /\ queue' = queue
          BY <1>9, <4>1, Zenon DEF AnswerBytes, FetchValue
        <4> HIDE DEF r
        <4> QED
          BY <1>0, <4>3, <4>4, EpochsAfterMove, Zenon
      <3> QED
        BY <3>1, <3>2, Zenon
    <2> QED
      BY <1>9, <2>1, LockKeeps, Zenon DEF FetchValue, LockInv
  <1>10. CASE FinishAuthorization(c)
    <2>1. conn[c].id \in Ids /\ conn[c].pc = "mint"
      BY <1>0, <1>10, ZenonT(30) DEF FinishAuthorization, ConnOK
    <2>2. EpochsOK
      BY <1>0, <1>10, EpochsAfterAnswer, ZenonT(30) DEF FinishAuthorization
    <2>3. \A i \in Ids : ceremony'[i].epoch = ceremony[i].epoch
      <3> DEFINE r == [ceremony[conn[c].id] EXCEPT !.minted = @ + 1]
      <3>1. ceremony \in [Ids -> Ceremony]
        BY DEF TypeInv, TypeOK
      <3>2. r.epoch = ceremony[conn[c].id].epoch
        BY <2>1, <3>1, ZenonT(30) DEF Ceremony
      <3>3. ceremony' = ceremony \/ ceremony' = [ceremony EXCEPT ![conn[c].id] = r]
        BY <1>10, ZenonT(30) DEF FinishAuthorization
      <3> HIDE DEF r
      <3> QED
        BY <2>1, <3>1, <3>2, <3>3, ZenonT(30)
    <2>4. MayMint(c) => ceremony[conn[c].id].epoch = lockEpoch
      <3>1. /\ conn[c].epoch \in Nat /\ lockEpoch \in Nat
            /\ ceremony[conn[c].id].epoch \in Nat
        BY <1>0, <2>1, ZenonT(30) DEF TypeInv, TypeOK, Conn, Ceremony
      <3>2. /\ conn[c].epoch <= ceremony[conn[c].id].epoch
            /\ ceremony[conn[c].id].epoch <= lockEpoch
        BY <1>0, <2>1, Zenon DEF EpochOK, LockInv
      <3> QED
        BY <3>1, <3>2, SMTT(60) DEF MayMint
    <2>5. \A r \in receipts' : \/ r \in receipts
                               \/ ceremony[r.request].epoch = lockEpoch
      BY <1>10, <2>4 DEF FinishAuthorization, MintReceipt, SweepReceipts
    <2> QED
      BY <1>10, <2>2, <2>3, <2>5, LockKeeps, ZenonT(30) DEF FinishAuthorization, LockInv
  <1> QED
    BY <1>2, <1>3, <1>4, <1>5, <1>6, <1>7, <1>8, <1>9, <1>10, ZenonT(30) DEF Handler

LEMMA LockWorker ==
    ASSUME TypeInv, TypeInv', FlightInv, LockInv, WorkerStep
    PROVE  LockInv'
  <1> USE DEF core, outside, history
  <1>0. queue \in Queue /\ NoStart(queue, queue)
    BY Zenon DEF TypeInv, TypeOK, NoStart
  <1>1. ASSUME Housekeeping
        PROVE  /\ NoStart(Swept, queue) /\ grants' \subseteq grants
               /\ receipts' \subseteq receipts /\ UNCHANGED <<lockEpoch, conn>>
    <2>1. FlightOK(SweepTimeouts(queue)) /\ SweepTimeouts(queue) \in Queue
      BY <1>0, SweepTimeoutsRetires, RetiresKeeps, Zenon DEF FlightInv, Retires
    <2>2. NoStart(Swept, queue)
      BY <1>0, <2>1, SweepTimeoutsRetires, PruneRetires, RetiresTrans, RetiresNoStart, Zenon
      DEF Swept
    <2> QED
      BY <1>1, <2>2, Zenon DEF Housekeeping, RevokeMissingTtys, RevokeExpired, SweepReceipts
  <1>2. CASE WorkerWait
    BY <1>1, <1>2, LockKeeps, EpochsUnmoved, Zenon DEF WorkerWait, Housekeeping, LockInv
  <1>3. ASSUME NEW i \in Ids, WorkerStart(i)
        PROVE  LockInv'
    <2>1. /\ NoStart(Swept, queue) /\ grants' \subseteq grants
          /\ receipts' \subseteq receipts /\ UNCHANGED <<lockEpoch, conn>>
      BY <1>1, <1>3, ZenonT(30) DEF WorkerStart
    <2>2. /\ ceremony'[i].epoch = lockEpoch
          /\ \A j \in Ids \ {i} : ceremony'[j].epoch = ceremony[j].epoch
          /\ lockEpoch \in Nat
      BY <1>3, ZenonT(30) DEF WorkerStart, TypeInv, TypeOK, Ceremony
    <2>3. worker'.id = i /\ worker'.epoch = lockEpoch
      BY <1>3, Zenon DEF WorkerStart, IdleWorker
    <2>4. \A j \in Ids \ {i} : queue'.requests[j] = Swept.requests[j]
      BY <1>3, FlightSweep, MarkDecryptingLemma, ZenonT(30) DEF WorkerStart
    <2>5. \A d \in Conns : EpochOK(conn'[d], queue', ceremony', lockEpoch')
      <3>1. ASSUME NEW d \in Conns
            PROVE  EpochOK(conn[d], queue', ceremony', lockEpoch)
        <4>1. EpochOK(conn[d], queue, ceremony, lockEpoch) /\ ConnOK(conn[d])
          BY Zenon DEF LockInv, TypeInv
        <4>2. CASE conn[d].id = i
          BY <2>2, <4>1, <4>2, ZenonT(30) DEF EpochOK
        <4>3. CASE conn[d].id # i
          BY <2>1, <2>2, <2>4, <4>1, <4>3, Zenon DEF EpochOK, ConnOK, NoStart, StateOf
        <4> QED
          BY <4>2, <4>3, ZenonT(30)
      <3> QED
        BY <2>1, <3>1, Zenon
    <2>6. /\ \A g \in grants' : g.request \in Ids /\ ceremony'[g.request].epoch = lockEpoch
          /\ \A r \in receipts' : ceremony'[r.request].epoch = lockEpoch
      <3>1. \A r \in receipts' : r.request \in Ids
        BY DEF TypeInv, TypeOK, Receipt
      <3> QED
        BY <2>1, <2>2, <3>1, Zenon DEF LockInv, NothingPredatesLock
    <2>7. \A j \in Ids : ceremony'[j].epoch <= lockEpoch'
      <3>1. lockEpoch \in Nat /\ \A j \in Ids : ceremony[j].epoch <= lockEpoch
        BY Zenon DEF LockInv, TypeInv, TypeOK
      <3>2. ASSUME NEW j \in Ids PROVE ceremony'[j].epoch <= lockEpoch
        <4>1. CASE j = i
          BY <4>1, <2>2
        <4>2. CASE j # i
          <5>1. ceremony'[j].epoch = ceremony[j].epoch
            BY <4>2, <2>2, Zenon
          <5> QED
            BY <5>1, <3>1, Zenon
        <4> QED
          BY <4>1, <4>2, Zenon
      <3> QED
        BY <2>1, <3>2, Zenon
    <2>8. ceremony'[worker'.id].epoch = worker'.epoch
      BY <2>2, <2>3, ZenonT(30)
    <2> QED
      BY <2>1, <2>5, <2>6, <2>7, <2>8, Zenon DEF LockInv, NothingPredatesLock
  <1>4. CASE DecryptSpawn \/ OnStarted \/ WorkerDeadline \/ \E e : DecryptRefused(e)
    <2>1. /\ worker'.id = worker.id /\ worker'.epoch = worker.epoch /\ worker.pc # "idle"
          /\ UNCHANGED <<grants, receipts, lockEpoch, ceremony, conn, queue>>
      BY <1>4, ZenonT(60) DEF DecryptSpawn, OnStarted, WorkerDeadline, DecryptRefused,
                  TypeInv, TypeOK, Worker
    <2> QED
      BY <1>0, <2>1, LockKeeps, EpochsUnmoved, Zenon
  <1>5. CASE WorkerSucceeds
    <2> DEFINE q == IF Withdrawn THEN Deny(queue, worker.id) ELSE queue
    <2>1. /\ worker.id \in Ids /\ worker.pc # "idle" /\ worker'.pc = "idle"
          /\ UNCHANGED <<receipts, lockEpoch, ceremony, conn>>
      BY <1>5, Zenon DEF WorkerSucceeds, BackToIdle, IdleWorker, TypeInv, WorkerOK
    <2>2. StillCurrent(q, worker.id, worker.generation) => ~Withdrawn
      <3>1. ~IsActive(Deny(queue, worker.id), worker.id)
        BY <1>0, <2>1, CancelRetires, ZenonT(30) DEF Deny
      <3> QED
        BY <3>1, Zenon DEF StillCurrent, IsActive, ActiveStates
    <2>3. grants' = IF StillCurrent(q, worker.id, worker.generation)
                    THEN InsertGrant(grants, worker.scope, worker.key,
                                     worker.version, worker.id)
                    ELSE grants
      BY <1>5, ZenonT(30) DEF WorkerSucceeds
    <2>4. \A g \in grants' : \/ g \in grants
                             \/ g.request = worker.id /\ ~Withdrawn
      BY <2>2, <2>3, SMTT(60) DEF InsertGrant, Revoke
    <2>5. ~Withdrawn => ceremony[worker.id].epoch = lockEpoch
      BY <2>1, Zenon DEF Withdrawn, LockInv
    <2>6. NoStart(queue', queue)
      BY <1>5, SuccessRetires, RetiresNoStart, ZenonT(30)
    <2> QED
      BY <2>1, <2>4, <2>5, <2>6, LockKeeps, EpochsUnmoved
  <1>6. ASSUME NEW e, WorkerFails(e)
        PROVE  LockInv'
    <2>1. NoStart(queue', queue)
      BY <1>6, FailureRetires, RetiresNoStart, ZenonT(30)
    <2>2. worker'.pc = "idle" /\ UNCHANGED <<grants, receipts, lockEpoch, ceremony, conn>>
      BY <1>6, Zenon DEF WorkerFails, BackToIdle, IdleWorker
    <2> QED
      BY <2>1, <2>2, LockKeeps, EpochsUnmoved, Zenon
  <1> QED
    BY <1>2, <1>3, <1>4, <1>5, <1>6, Zenon DEF WorkerStep

LEMMA LockStep ==
    TypeInv /\ TypeInv' /\ FlightInv /\ LockInv /\ [Next]_vars => LockInv'
  <1> SUFFICES ASSUME TypeInv, TypeInv', FlightInv, LockInv, [Next]_vars
               PROVE  LockInv'
    BY ZenonT(30)
  <1> USE DEF core, outside, history
  <1>0. queue \in Queue /\ NoStart(queue, queue)
    BY DEF TypeInv, TypeOK, NoStart
  <1>1. CASE Environment \/ UNCHANGED vars
    <2>1. UNCHANGED <<grants, receipts, lockEpoch, ceremony, conn, queue, worker>>
      <3> DEFINE same == UNCHANGED <<grants, receipts, lockEpoch, ceremony, conn,
                                     queue, worker>>
      <3>1. UNCHANGED vars => same
        BY Zenon DEF vars
      <3>2. HumanTouches \/ ChildSucceeds \/ ChildFails => same
        BY Zenon DEF HumanTouches, ChildSucceeds, ChildFails
      <3>3. \A k, f : SetFile(k, f) => same
        BY Zenon DEF SetFile
      <3>4. \A t : RootExits(t) => same
        BY ZenonT(30) DEF RootExits
      <3>5. \A y : TtyVanishes(y) \/ TtyAppears(y) => same
        BY DEF TtyVanishes, TtyAppears
      <3> HIDE DEF same
      <3>6. same
        BY <1>1, <3>1, <3>2, <3>3, <3>4, <3>5, Zenon
        DEF Environment, ReplaceFile, RemoveFile, DuplicateFile, RemoveDuplicate
      <3> QED
        BY <3>6, Zenon DEF same
    <2> QED
      BY <1>0, <2>1, LockKeeps, EpochsUnmoved, Zenon
  <1>2. CASE Tick
    <2>1. NoStart(queue', queue)
      BY <1>0, <1>2, AgeQueueRetires, RetiresNoStart, ZenonT(30) DEF Tick
    <2>2. \A g \in grants' : \E h \in grants : h.request = g.request
      <3>1. ASSUME NEW g \in grants
            PROVE  [g EXCEPT !.age = IF @ < MaxGrant THEN @ + 1 ELSE @].request = g.request
        BY ZenonT(30) DEF TypeInv, TypeOK, Grant
      <3> QED
        BY <1>2, <3>1, Zenon DEF Tick, AgeGrants
    <2>3. \A r \in receipts' : \E h \in receipts : h.request = r.request
      <3>1. ASSUME NEW r \in receipts
            PROVE  [r EXCEPT !.age = IF @ < ReceiptTtl THEN @ + 1 ELSE @].request
                      = r.request
        BY Zenon DEF TypeInv, TypeOK, Receipt
      <3> QED
        BY <1>2, <3>1, Zenon DEF Tick, AgeReceipts
    <2>4. /\ UNCHANGED <<lockEpoch, ceremony>> /\ worker'.pc = worker.pc
          /\ worker'.id = worker.id /\ worker'.epoch = worker.epoch
      BY <1>2, ZenonT(30) DEF Tick, TypeInv, TypeOK, Worker
    <2>5. \A d \in Conns : EpochOK(conn'[d], queue', ceremony, lockEpoch)
      <3>1. ASSUME NEW d \in Conns
            PROVE  EpochOK(conn'[d], queue', ceremony, lockEpoch)
        <4>1. /\ conn'[d].pc = conn[d].pc /\ conn'[d].op = conn[d].op
              /\ conn'[d].id = conn[d].id /\ conn'[d].epoch = conn[d].epoch
          BY <1>2, ZenonT(30) DEF Tick, TypeInv, TypeOK, Conn
        <4>2. EpochOK(conn[d], queue', ceremony, lockEpoch)
          BY <2>1, EpochKept, Zenon DEF LockInv, TypeInv
        <4> QED
          BY <4>1, <4>2, Zenon DEF EpochOK
      <3> QED
        BY <3>1, SMTT(60)
    <2> QED
      BY <2>2, <2>3, <2>4, <2>5, LockKeeps, ZenonT(30)
  <1> QED
    BY <1>1, <1>2, LockCommand, LockArrive, LockHandler, LockWorker, ZenonT(30) DEF Next

(* Whatever LOCK clears stays cleared, for any number of connections and   *)
(* locks: no grant and no receipt stems from a decrypt begun before it.    *)
THEOREM NothingPredatesLockHolds == Spec => []NothingPredatesLock
  <1>1. LockInv => NothingPredatesLock
    BY DEF LockInv
  <1>2. Spec => []LockInv
    BY LockInit, LockStep, FlightInvariant, PTL DEF Spec
  <1> QED
    BY <1>1, <1>2, PTL

-----------------------------------------------------------------------------
(* How many requests a scope may have active. *)

ActiveOf(q, s) == {i \in Ids : IsActive(q, i) /\ q.requests[i].scope = s}
CapsOf(q, s) == {i \in ActiveOf(q, s) : q.requests[i].key \in CapKeys}
OthersOf(q, s) == ActiveOf(q, s) \ CapsOf(q, s)

BoundedFor(q, s) ==
    /\ Cardinality(CapsOf(q, s)) <= 1
    /\ Cardinality(OthersOf(q, s)) <= MaxPending

PendingInv == \A s \in Scopes : BoundedFor(queue, s)

LEMMA FewerIds ==
    ASSUME NEW S \in SUBSET Ids, NEW T \in SUBSET S
    PROVE  /\ IsFiniteSet(S) /\ IsFiniteSet(T)
           /\ Cardinality(S) \in Nat /\ Cardinality(T) \in Nat
           /\ Cardinality(T) <= Cardinality(S)
  <1>1. IsFiniteSet(Ids)
    BY FS_Interval, QueueAssumption, SMTT(30) DEF Ids
  <1>2. IsFiniteSet(S)
    BY <1>1, FS_Subset, Zenon
  <1> QED
    BY <1>2, FS_Subset, FS_CardinalityType, Zenon

LEMMA OneMoreId ==
    ASSUME NEW S \in SUBSET Ids, NEW i \in Ids
    PROVE  Cardinality(S \cup {i}) <= Cardinality(S) + 1
  <1>1. IsFiniteSet(S) /\ Cardinality(S) \in Nat
    BY FewerIds
  <1>2. Cardinality(S \cup {i}) = IF i \in S THEN Cardinality(S) ELSE Cardinality(S) + 1
    BY <1>1, FS_AddElement, Zenon
  <1> QED
    BY <1>1, <1>2

LEMMA SteadyBounded ==
    ASSUME NEW q, NEW p, Steady(p, q), NEW s, BoundedFor(q, s)
    PROVE  BoundedFor(p, s)
  <1>1. \A i \in Ids : IsActive(p, i) =>
            /\ IsActive(q, i)
            /\ p.requests[i].scope = q.requests[i].scope
            /\ p.requests[i].key = q.requests[i].key
    BY Zenon DEF Steady, IsActive, ActiveStates
  <1>2. /\ CapsOf(p, s) \subseteq CapsOf(q, s) /\ CapsOf(q, s) \subseteq Ids
        /\ OthersOf(p, s) \subseteq OthersOf(q, s) /\ OthersOf(q, s) \subseteq Ids
    BY <1>1, Zenon DEF CapsOf, OthersOf, ActiveOf
  <1>3. /\ Cardinality(CapsOf(p, s)) <= Cardinality(CapsOf(q, s))
        /\ Cardinality(CapsOf(p, s)) \in Nat /\ Cardinality(CapsOf(q, s)) \in Nat
    BY <1>2, FewerIds, Zenon
  <1>4. /\ Cardinality(OthersOf(p, s)) <= Cardinality(OthersOf(q, s))
        /\ Cardinality(OthersOf(p, s)) \in Nat /\ Cardinality(OthersOf(q, s)) \in Nat
    BY <1>2, FewerIds, Zenon
  <1> QED
    BY <1>3, <1>4, QueueAssumption DEF BoundedFor

LEMMA QueuedBounded ==
    ASSUME TypeInv, FlightInv, NEW c \in Conns, AwaitQueued(c),
           NEW s \in Scopes, BoundedFor(queue, s)
    PROVE  BoundedFor(queue', s)
  <1> DEFINE n == queue.nextId
             k == conn[c].key
  <1>1. /\ n \in Ids
        /\ \A j \in Ids \ {n} : queue'.requests[j] = queue.requests[j]
        /\ queue'.requests[n].state = "Pending"
        /\ queue'.requests[n].scope = conn[c].scope
        /\ queue'.requests[n].key = k
    BY QueuedStep, Zenon
  <1>2. IsActive(queue', n) /\ \A j \in Ids \ {n} : IsActive(queue', j) <=> IsActive(queue, j)
    BY <1>1, Zenon DEF IsActive, StateOf, ActiveStates
  <1>3. ~IsActive(queue, n)
    BY <1>1, SMTT(30) DEF FlightInv, Fresh, IsActive, ActiveStates, Ids
  <1>4. HasRoom(queue, conn[c].scope, k)
    BY DEF AwaitQueued
  <1> HIDE DEF n, k
  <1>5. CASE conn[c].scope # s
    <2>1. CapsOf(queue', s) = CapsOf(queue, s) /\ OthersOf(queue', s) = OthersOf(queue, s)
      BY <1>1, <1>2, <1>3, <1>5, ZenonT(30) DEF CapsOf, OthersOf, ActiveOf
    <2> QED
      BY <2>1, Zenon DEF BoundedFor
  <1>6. CASE conn[c].scope = s /\ k \in CapKeys
    <2>1. /\ CapsOf(queue', s) = CapsOf(queue, s) \cup {n}
          /\ OthersOf(queue', s) = OthersOf(queue, s)
          /\ Counted(queue, s, k) = CapsOf(queue, s)
      BY <1>1, <1>2, <1>3, <1>6, ZenonT(30) DEF CapsOf, OthersOf, ActiveOf, Counted
    <2>2. CapsOf(queue, s) \subseteq Ids
      BY DEF CapsOf, ActiveOf
    <2>3. /\ Cardinality(CapsOf(queue, s) \cup {n}) <= Cardinality(CapsOf(queue, s)) + 1
          /\ Cardinality(CapsOf(queue, s)) \in Nat
      BY <1>1, <2>2, OneMoreId, FewerIds, Zenon
    <2>4. Cardinality(CapsOf(queue, s)) < 1
      BY <1>4, <1>6, <2>1, Zenon DEF HasRoom, LimitFor
    <2>5. CapsOf(queue, s) \cup {n} \subseteq Ids
      BY <1>1, <2>2, Zenon
    <2>6. Cardinality(CapsOf(queue, s) \cup {n}) \in Nat
      BY <2>5, FewerIds, Zenon
    <2>7. Cardinality(CapsOf(queue', s)) <= 1
      BY <2>1, <2>3, <2>4, <2>6, SMTT(30)
    <2> QED
      BY <2>1, <2>7, Zenon DEF BoundedFor
  <1>7. CASE conn[c].scope = s /\ k \notin CapKeys
    <2>1. /\ CapsOf(queue', s) = CapsOf(queue, s)
          /\ OthersOf(queue', s) = OthersOf(queue, s) \cup {n}
          /\ OthersOf(queue, s) \subseteq Counted(queue, s, k)
      BY <1>1, <1>2, <1>3, <1>7, ZenonT(30) DEF CapsOf, OthersOf, ActiveOf, Counted
    <2>2. Counted(queue, s, k) \subseteq Ids /\ OthersOf(queue, s) \subseteq Ids
      BY <2>1, Zenon DEF Counted
    <2>3. /\ Cardinality(OthersOf(queue, s) \cup {n}) <= Cardinality(OthersOf(queue, s)) + 1
          /\ Cardinality(OthersOf(queue, s)) \in Nat
      BY <1>1, <2>2, OneMoreId, FewerIds, ZenonT(30)
    <2>4. /\ Cardinality(OthersOf(queue, s)) <= Cardinality(Counted(queue, s, k))
          /\ Cardinality(Counted(queue, s, k)) \in Nat
      BY <2>1, <2>2, FewerIds, ZenonT(30)
    <2>5. Cardinality(Counted(queue, s, k)) < MaxPending
      BY <1>4, <1>7, Zenon DEF HasRoom, LimitFor
    <2>6. OthersOf(queue, s) \cup {n} \subseteq Ids
      BY <1>1, <2>2, ZenonT(30)
    <2>7. Cardinality(OthersOf(queue, s) \cup {n}) \in Nat
      BY <2>6, FewerIds, SMTT(30)
    <2>8. Cardinality(OthersOf(queue', s)) <= MaxPending
      BY <2>1, <2>3, <2>4, <2>5, <2>7, QueueAssumption, SMTT(30)
    <2> QED
      BY <2>1, <2>8, Zenon DEF BoundedFor
  <1> QED
    BY <1>5, <1>6, <1>7, ZenonT(30)

LEMMA PendingInit == Init => PendingInv
  <1> SUFFICES ASSUME Init, NEW s \in Scopes PROVE BoundedFor(queue, s)
    BY Zenon DEF PendingInv
  <1>1. \A i \in Ids : StateOf(queue, i) = "Absent"
    BY Zenon DEF Init, NewQueue, NoRequest, StateOf
  <1>2. CapsOf(queue, s) = {} /\ OthersOf(queue, s) = {}
    BY <1>1, Zenon DEF CapsOf, OthersOf, ActiveOf, IsActive, ActiveStates
  <1> QED
    BY <1>2, FS_EmptySet, QueueAssumption, SMTT(30) DEF BoundedFor

LEMMA PendingStep == TypeInv /\ FlightInv /\ PendingInv /\ [Next]_vars => PendingInv'
  <1> SUFFICES ASSUME TypeInv, FlightInv, PendingInv, [Next]_vars, NEW s \in Scopes
               PROVE  BoundedFor(queue', s)
    BY Zenon DEF PendingInv
  <1>1. CASE \A c \in Conns : ~AwaitQueued(c)
    BY <1>1, SteadyStep, SteadyBounded, Zenon DEF PendingInv
  <1>2. ASSUME NEW c \in Conns, AwaitQueued(c) PROVE BoundedFor(queue', s)
    BY <1>2, QueuedBounded, Zenon DEF PendingInv
  <1> QED
    BY <1>1, <1>2, Zenon

(* A scope never has more than one capability request, nor more than       *)
(* max_pending_per_scope others, active at once, for any number of         *)
(* handlers that enqueue: the check and the append are one critical        *)
(* section, and nothing else makes a request active.                       *)
THEOREM PendingBoundedHolds == Spec => []PendingBounded
  <1>1. PendingInv => PendingBounded
    BY DEF PendingInv, BoundedFor, PendingBounded, CapsOf, OthersOf, ActiveOf
  <1> QED
    BY <1>1, PendingInit, PendingStep, FlightInvariant, PTL DEF Spec

-----------------------------------------------------------------------------
(* The bound of the receipt table. *)

ReceiptsInv == IsFiniteSet(receipts) /\ ReceiptsBounded

LEMMA FewerReceipts ==
    ASSUME ReceiptsInv, receipts' \subseteq receipts
    PROVE  ReceiptsInv'
  <1>1. /\ IsFiniteSet(receipts') /\ Cardinality(receipts') <= Cardinality(receipts)
        /\ Cardinality(receipts) \in Nat /\ Cardinality(receipts') \in Nat
    BY FS_Subset, FS_CardinalityType, Zenon DEF ReceiptsInv
  <1> QED
    BY <1>1, ReceiptsAssumption, SMTT(30) DEF ReceiptsInv, ReceiptsBounded

LEMMA ReceiptsMinted ==
    ASSUME ReceiptsInv, HasReceiptRoom(receipts), NEW i, NEW n, NEW k,
           receipts' = MintReceipt(receipts, i, n, k)
    PROVE  ReceiptsInv'
  <1> DEFINE S == SweepReceipts(receipts)
             r == [request |-> i, serial |-> n, cap |-> k, age |-> 0]
  <1>1. IsFiniteSet(S) /\ Cardinality(S) \in Nat
    BY FS_Subset, FS_CardinalityType, Zenon DEF ReceiptsInv, SweepReceipts
  <1>2. receipts' = S \cup {r} /\ Cardinality(S) < MaxReceipts
    BY Zenon DEF MintReceipt, HasReceiptRoom
  <1> HIDE DEF S, r
  <1>3. IsFiniteSet(S \cup {r}) /\ Cardinality(S \cup {r}) \in {Cardinality(S), Cardinality(S) + 1}
    BY <1>1, FS_AddElement, Zenon
  <1> QED
    BY <1>1, <1>2, <1>3, ReceiptsAssumption, SMTT(30) DEF ReceiptsInv, ReceiptsBounded

LEMMA ReceiptsAged ==
    ASSUME ReceiptsInv, receipts' = AgeReceipts(receipts)
    PROVE  ReceiptsInv'
  <1> DEFINE f == [r \in receipts |-> [r EXCEPT !.age = IF @ < ReceiptTtl THEN @ + 1 ELSE @]]
  <1>1. f \in Surjection(receipts, receipts')
    BY Zenon DEF AgeReceipts, Surjection
  <1>2. IsFiniteSet(receipts') /\ Cardinality(receipts') <= Cardinality(receipts)
    BY <1>1, FS_Surjection, Zenon DEF ReceiptsInv
  <1>3. Cardinality(receipts) \in Nat /\ Cardinality(receipts') \in Nat
    BY <1>2, FS_CardinalityType, Zenon DEF ReceiptsInv
  <1> QED
    BY <1>2, <1>3, ReceiptsAssumption, SMTT(30) DEF ReceiptsInv, ReceiptsBounded

LEMMA ReceiptsStep == ReceiptsInv /\ [Next]_vars => ReceiptsInv'
  <1> SUFFICES ASSUME ReceiptsInv, [Next]_vars PROVE ReceiptsInv'
    OBVIOUS
  <1>1. CASE receipts' \subseteq receipts
    BY <1>1, FewerReceipts, Zenon
  <1>2. CASE Tick
    BY <1>2, ReceiptsAged, Zenon DEF Tick
  <1>3. ASSUME NEW c \in Conns, FinishAuthorization(c) PROVE ReceiptsInv'
    <2>1. \/ receipts' \in {receipts, SweepReceipts(receipts)}
          \/ /\ HasReceiptRoom(receipts)
             /\ receipts' = MintReceipt(receipts, conn[c].id,
                                        ceremony[conn[c].id].minted, conn[c].key)
      BY <1>3, ZenonT(30) DEF FinishAuthorization
    <2> QED
      BY <2>1, FewerReceipts, ReceiptsMinted, Zenon DEF SweepReceipts
  <1> QED
    BY <1>1, <1>2, <1>3, ReceiptsMove, Zenon

(* The receipt table never exceeds MAX_RECEIPTS, however many AUTHORIZE    *)
(* handlers finish at once: each counts and inserts in one critical        *)
(* section.                                                                *)
THEOREM ReceiptsBoundedHolds == Spec => []ReceiptsBounded
  <1>1. Init => ReceiptsInv
    BY FS_EmptySet, ReceiptsAssumption, SMTT(30) DEF Init, ReceiptsInv, ReceiptsBounded
  <1>2. ReceiptsInv => ReceiptsBounded
    BY DEF ReceiptsInv
  <1> QED
    BY <1>1, <1>2, ReceiptsStep, PTL DEF Spec

=============================================================================
