------------------------------- MODULE Broker -------------------------------
(***************************************************************************)
(* The daemon: connection handlers, the single decrypt worker, the sops    *)
(* child with the YubiKey behind it, and the state they share under one    *)
(* mutex (src/src/server.rs, src/src/server/, src/src/decrypt.rs).         *)
(*                                                                         *)
(* One action is one critical section of the state mutex, with the thread- *)
(* local code that leads up to it, or one event outside the daemon.  What  *)
(* a thread carries from one critical section to the next is part of the   *)
(* state: the fields of conn[c] for a handler, of worker for the worker.   *)
(***************************************************************************)
EXTENDS Receipts, Sequences

CONSTANTS
    Conns,       \* connections; a connection carries one request
    Ops,         \* the access commands they may carry
    StderrCodes, \* the codes that a failing sops is classified as
    TouchCache,  \* how long the YubiKey remembers a touch (15 s)
    MaxLocks,    \* bound on LOCK commands
    MaxVersion,  \* bound on the versions of a ciphertext file
    MaxRegs      \* bound on the registrations of one token

(* TouchCache < Cooldown is Config::validate under TouchPolicy::Cached. *)
ASSUME BrokerAssumption ==
    /\ StderrCodes \subseteq {"YUBIKEY_UNREACHABLE", "TIMEOUT", "INTERNAL"}
    /\ Ops \subseteq {"GET", "REQUEST", "AUTHORIZE"}
    /\ TouchCache \in Nat /\ TouchCache < Cooldown
    /\ MaxLocks \in Nat /\ MaxVersion \in Nat /\ MaxRegs \in Nat
    /\ None \notin Ops

VARIABLES
    registry,   \* Registry
    grants,     \* GrantTable
    receipts,   \* ReceiptTable
    queue,      \* Queue
    failures,   \* error codes of failed requests, by id
    lockEpoch,  \* State.lock_epoch
    active,     \* State.active_decrypt: the id whose process group it names
    conn,       \* what each handler thread is doing
    worker,     \* what the worker thread is doing
    child,      \* the sops child
    touch,      \* the last touch of the YubiKey: its age and for which request
    files,      \* the ciphertext files
    ttys,       \* terminal devices that exist
    ceremony,   \* history: what happened to each request
    regs        \* history: registrations made of each token

core == <<registry, grants, receipts, queue, failures, lockEpoch, active>>
outside == <<touch, files, ttys>>
history == <<ceremony, regs>>
vars == <<core, conn, worker, child, outside, history>>

-----------------------------------------------------------------------------
(* Types and the initial state. *)

FailureCodes == {"YUBIKEY_UNREACHABLE", "TIMEOUT", "INTERNAL"}
FileErrors == {"NOT_HUMAN_KEY", "AMBIGUOUS_KEY"}

(* What a client is told.  REFUSED is any verdict of resolve but OK. *)
Answers == FailureCodes \cup FileErrors
             \cup {"REFUSED", "TOO_MANY_PENDING", "DENIED",
                   "GRANTED", "BYTES", "RECEIPT"}

(* A handler that has not answered has no answer. *)
ASSUME AnswersAssumption == None \notin Answers

File == [version : Nat, state : {"sole", "absent", "ambiguous"}]

(* seen and served are history: the version of the file when the request   *)
(* was resolved, and the version whose bytes were sent.  reg is history:   *)
(* which registration of its token the request was resolved under.        *)
Conn == [pc     : {"new", "resolve", "await", "waiting", "fetch", "mint", "done"},
         op     : Ops \cup {None},
         scope  : Scopes \cup {None},
         key    : Keys \cup {None},
         epoch  : Nat,
         id     : Ids \cup {NoId},
         waited : 0..(Ttl + 1),
         answer : Answers \cup {None},
         seen   : Nat,
         served : Nat,
         reg    : Nat]

NewConn == [pc |-> "new", op |-> None, scope |-> None, key |-> None,
            epoch |-> 0, id |-> NoId, waited |-> 0, answer |-> None,
            seen |-> 0, served |-> 0, reg |-> 0]

(* The worker's Job and its place in the loop: idle at the top, probe once *)
(* a job is taken, spawned until on_started has run, running until the     *)
(* child has ended; failed when no child was started.                      *)
Worker == [pc         : {"idle", "probe", "spawned", "running", "failed"},
           id         : Ids \cup {NoId},
           scope      : Scopes \cup {None},
           key        : Keys \cup {None},
           generation : Nat,
           epoch      : Nat,
           version    : Nat,
           age        : 0..Ttl,
           error      : FailureCodes \cup FileErrors \cup {None}]

IdleWorker == [pc |-> "idle", id |-> NoId, scope |-> None, key |-> None,
               generation |-> 0, epoch |-> 0, version |-> 0, age |-> 0,
               error |-> None]

Child == {"none", "alive", "ok", "err", "killed", "expired"}

(* key and epoch are those of the decrypt that ran for the request.        *)
Ceremony == [key : Keys \cup {None}, epoch : Nat, reg : Nat, minted : Nat,
             redeemed : Seq(CapKeys)]

NoCeremony == [key |-> None, epoch |-> 0, reg |-> 0, minted |-> 0,
               redeemed |-> <<>>]

TypeOK ==
    /\ registry \in Registry
    /\ grants \subseteq Grant
    /\ receipts \subseteq Receipt
    /\ queue \in Queue
    /\ failures \in [Ids -> FailureCodes \cup FileErrors \cup {None}]
    /\ lockEpoch \in Nat
    /\ active \in Ids \cup {NoId}
    /\ conn \in [Conns -> Conn]
    /\ worker \in Worker
    /\ child \in Child
    /\ touch \in [age : 0..TouchCache, id : Ids \cup {NoId}]
    /\ files \in [Keys -> File]
    /\ ttys \subseteq Ttys
    /\ ceremony \in [Ids -> Ceremony]
    /\ regs \in [Tokens -> Nat]

Init ==
    /\ registry = NewRegistry
    /\ grants = {}
    /\ receipts = {}
    /\ queue = NewQueue
    /\ failures = [i \in Ids |-> None]
    /\ lockEpoch = 0
    /\ active = NoId
    /\ conn = [c \in Conns |-> NewConn]
    /\ worker = IdleWorker
    /\ child = "none"
    /\ touch = [age |-> TouchCache, id |-> NoId]
    /\ files = [k \in Keys |-> [version |-> 1, state |-> "sole"]]
    /\ ttys = Ttys
    /\ ceremony = [i \in Ids |-> NoCeremony]
    /\ regs = [t \in Tokens |-> 0]

-----------------------------------------------------------------------------
(* Killing the child.  SIGKILL to the process group of a child that has    *)
(* already ended changes nothing.                                          *)

KillGroup(ch) == IF ch = "alive" THEN "killed" ELSE ch

KillActive(ids) ==
    /\ active' = IF active \in ids THEN NoId ELSE active
    /\ child' = IF active \in ids THEN KillGroup(child) ELSE child

-----------------------------------------------------------------------------
(* Immediate commands: each is one critical section of one handler.        *)

RegisterSession(t, s) ==
    /\ RegisterAccepted(registry, t, s)
    /\ registry.session[t] # s => regs[t] < MaxRegs
    /\ registry' = Register(registry, t, s)
    /\ grants' = RevokeTokens(grants, Displaced(registry, t, s))
    /\ regs' = IF registry.session[t] = s THEN regs ELSE [regs EXCEPT ![t] = @ + 1]
    /\ UNCHANGED <<receipts, queue, failures, lockEpoch, active, conn, worker,
                   child, outside, ceremony>>

UnregisterSession(s) ==
    /\ registry' = Unregister(registry, s)
    /\ grants' = RevokeTokens(grants, TokensOf(registry, s))
    /\ UNCHANGED <<receipts, queue, failures, lockEpoch, active, conn, worker,
                   child, outside, history>>

DenyRequest(i) ==
    /\ IsActive(queue, i)
    /\ queue' = Deny(queue, i)
    /\ KillActive({i})
    /\ UNCHANGED <<registry, grants, receipts, failures, lockEpoch, conn, worker,
                   outside, history>>

(* LOCK denies the request whose child on_started has published, and no    *)
(* other: not one that waits its turn, nor one whose child just started.   *)
Lock ==
    /\ lockEpoch < MaxLocks
    /\ grants' = {}
    /\ receipts' = {}
    /\ lockEpoch' = lockEpoch + 1
    /\ IF active = NoId
       THEN UNCHANGED <<queue, active, child>>
       ELSE queue' = Deny(queue, active) /\ KillActive({active})
    /\ UNCHANGED <<registry, failures, conn, worker, outside, history>>

RedeemReceipt(r, cap) ==
    /\ receipts' = Redeem(receipts, r, cap)
    /\ ceremony' = IF Redeemable(receipts, r, cap)
                   THEN [ceremony EXCEPT ![r.request].redeemed = Append(@, cap)]
                   ELSE ceremony
    /\ UNCHANGED <<registry, grants, queue, failures, lockEpoch, active, conn,
                   worker, child, outside, regs>>

-----------------------------------------------------------------------------
(* GET, REQUEST and AUTHORIZE.  The answer ends the connection; of what    *)
(* the handler carried, only what the properties speak of is kept.         *)

Answer(c, a) == conn' = [conn EXCEPT ![c] = [NewConn EXCEPT !.pc = "done",
                                                            !.answer = a]]

AnswerBytes(c, v) ==
    conn' = [conn EXCEPT ![c] = [NewConn EXCEPT !.pc = "done", !.answer = "BYTES",
                                                !.id = conn[c].id,
                                                !.seen = conn[c].seen,
                                                !.served = v]]

(* authorize reads the lock epoch before anything else, on its own. *)
BeginAuthorize(c) ==
    /\ conn[c].pc = "new"
    /\ "AUTHORIZE" \in Ops
    /\ conn' = [conn EXCEPT ![c] = [@ EXCEPT !.pc = "resolve", !.op = "AUTHORIZE",
                                             !.epoch = lockEpoch]]
    /\ UNCHANGED <<core, worker, child, outside, history>>

(* GET and REQUEST never name a capability; AUTHORIZE always does. *)
MayResolve(c, op, k) ==
    \/ conn[c].pc = "new" /\ op \in Ops \ {"AUTHORIZE"} /\ k \notin CapKeys
    \/ conn[c].pc = "resolve" /\ op = "AUTHORIZE" /\ k \in CapKeys

RefuseCapabilityKey(c) ==
    /\ conn[c].pc = "new"
    /\ CapKeys # {} /\ Ops \ {"AUTHORIZE"} # {}
    /\ Answer(c, "NOT_HUMAN_KEY")
    /\ UNCHANGED <<core, worker, child, outside, history>>

ResolveAccess(c, op, k, t, y) ==
    /\ MayResolve(c, op, k)
    /\ ResolveVerdict(registry, t, y, TRUE) = "OK"
    /\ registry' = LearnTty(registry, t, y)
    /\ conn' = [conn EXCEPT ![c] = [@ EXCEPT
                    !.pc = "await", !.op = op, !.key = k,
                    !.scope = ResolvedScope(t, y),
                    !.seen = files[k].version,
                    !.reg = IF t # None THEN regs[t] ELSE 0]]
    /\ UNCHANGED <<grants, receipts, queue, failures, lockEpoch, active, worker,
                   child, outside, history>>

ResolveRefused(c, op, k, t, y, inTree) ==
    /\ MayResolve(c, op, k)
    /\ ResolveVerdict(registry, t, y, inTree) # "OK"
    /\ Answer(c, "REFUSED")
    /\ UNCHANGED <<core, worker, child, outside, history>>

ServableAnyVersion(c) ==
    conn[c].op # "AUTHORIZE" /\ LookupGrant(grants, conn[c].scope, conn[c].key) # {}

(* await_approval looks the grant up and compares its FileIdentity with    *)
(* the file of the moment; AUTHORIZE always asks anew.                     *)
Servable(c) ==
    /\ conn[c].op # "AUTHORIZE"
    /\ files[conn[c].key].state = "sole"
    /\ \E g \in LookupGrant(grants, conn[c].scope, conn[c].key) :
           g.version = files[conn[c].key].version

AwaitCached(c) ==
    /\ conn[c].pc = "await"
    /\ Servable(c)
    /\ IF conn[c].op = "GET"
       THEN conn' = [conn EXCEPT ![c].pc = "fetch"]
       ELSE Answer(c, "GRANTED")
    /\ UNCHANGED <<core, worker, child, outside, history>>

(* Otherwise a grant that was found is revoked in the same critical        *)
(* section, and the request is refused, joins an active one, or is queued. *)
MustAsk(c) ==
    /\ conn[c].pc = "await"
    /\ ~Servable(c)
    /\ grants' = Revoke(grants, conn[c].scope, conn[c].key)
    /\ UNCHANGED <<registry, receipts, failures, lockEpoch, active, worker, child,
                   outside, regs>>

FileError(k) == IF files[k].state = "absent" THEN "NOT_HUMAN_KEY" ELSE "AMBIGUOUS_KEY"

AwaitRefused(c) ==
    /\ MustAsk(c)
    /\ UNCHANGED <<queue, ceremony>>
    /\ IF files[conn[c].key].state # "sole"
       THEN Answer(c, FileError(conn[c].key))
       ELSE /\ Coalescible(queue, conn[c].scope, conn[c].key) = {}
            /\ ~HasRoom(queue, conn[c].scope, conn[c].key)
            /\ Answer(c, "TOO_MANY_PENDING")

Waiting(c, i) ==
    conn' = [conn EXCEPT ![c] = [@ EXCEPT !.pc = "waiting", !.id = i, !.waited = 0]]

AwaitCoalesced(c) ==
    /\ MustAsk(c)
    /\ files[conn[c].key].state = "sole"
    /\ \E i \in Ids :
          /\ First(i, Coalescible(queue, conn[c].scope, conn[c].key))
          /\ Waiting(c, i)
    /\ UNCHANGED <<queue, ceremony>>

AwaitQueued(c) ==
    /\ MustAsk(c)
    /\ files[conn[c].key].state = "sole"
    /\ Coalescible(queue, conn[c].scope, conn[c].key) = {}
    /\ HasRoom(queue, conn[c].scope, conn[c].key)
    /\ queue.nextId \in Ids
    /\ queue' = Push(queue, conn[c].scope, conn[c].key)
    /\ ceremony' = [ceremony EXCEPT ![queue.nextId].reg = conn[c].reg]
    /\ Waiting(c, queue.nextId)

(* A waiter woken by the condvar or by its own deadline. *)
WakeGranted(c) ==
    /\ conn[c].pc = "waiting"
    /\ StateOf(queue, conn[c].id) = "Granted"
    /\ CASE conn[c].op = "GET"       -> conn' = [conn EXCEPT ![c].pc = "fetch"]
         [] conn[c].op = "AUTHORIZE" -> conn' = [conn EXCEPT ![c].pc = "mint"]
         [] OTHER                    -> Answer(c, "GRANTED")
    /\ UNCHANGED <<core, worker, child, outside, history>>

EndCode(i) ==
    CASE StateOf(queue, i) = "Denied"                          -> "DENIED"
      [] StateOf(queue, i) = "TimedOut"                        -> "TIMEOUT"
      [] StateOf(queue, i) = "Failed" /\ failures[i] # None    -> failures[i]
      [] OTHER                                                 -> "INTERNAL"

WakeEndedUnlessPruned(c) ==
    /\ conn[c].pc = "waiting"
    /\ StateOf(queue, conn[c].id) \in OverStates \ {"Granted"}
    /\ Answer(c, EndCode(conn[c].id))
    /\ UNCHANGED <<core, worker, child, outside, history>>

WakeEnded(c) ==
    /\ conn[c].pc = "waiting"
    /\ StateOf(queue, conn[c].id) \in (OverStates \ {"Granted"}) \cup {"Absent"}
    /\ Answer(c, EndCode(conn[c].id))
    /\ UNCHANGED <<core, worker, child, outside, history>>

WakeDeadline(c) ==
    /\ conn[c].pc = "waiting"
    /\ IsActive(queue, conn[c].id)
    /\ conn[c].waited > Ttl
    /\ queue' = Timeout(queue, conn[c].id)
    /\ KillActive({conn[c].id})
    /\ Answer(c, "TIMEOUT")
    /\ UNCHANGED <<registry, grants, receipts, failures, lockEpoch, worker, outside,
                   history>>

(* GET takes the lock again to copy the value: no identity check here. *)
FetchValue(c) ==
    /\ conn[c].pc = "fetch"
    /\ IF LookupGrant(grants, conn[c].scope, conn[c].key) = {}
       THEN Answer(c, "INTERNAL")
       ELSE \E g \in LookupGrant(grants, conn[c].scope, conn[c].key) :
               AnswerBytes(c, g.version)
    /\ UNCHANGED <<core, worker, child, outside, history>>

MayMint(c) == lockEpoch = conn[c].epoch

(* mint fails when the table is full, or when /dev/urandom does. *)
FinishAuthorization(c) ==
    /\ conn[c].pc = "mint"
    /\ IF MayMint(c)
       THEN \/ /\ HasReceiptRoom(receipts)
               /\ receipts' = MintReceipt(receipts, conn[c].id,
                                          ceremony[conn[c].id].minted, conn[c].key)
               /\ ceremony' = [ceremony EXCEPT ![conn[c].id].minted = @ + 1]
               /\ Answer(c, "RECEIPT")
            \/ /\ receipts' = SweepReceipts(receipts)
               /\ Answer(c, IF HasReceiptRoom(receipts) THEN "INTERNAL"
                                                        ELSE "TOO_MANY_PENDING")
               /\ UNCHANGED ceremony
       ELSE Answer(c, "DENIED") /\ UNCHANGED <<receipts, ceremony>>
    /\ UNCHANGED <<registry, grants, queue, failures, lockEpoch, active, worker,
                   child, outside, regs>>

-----------------------------------------------------------------------------
(* The worker.  Every pass of its loop sweeps the tables, then takes the   *)
(* next request if the hardware is free and cool.                          *)

Swept == Prune(SweepTimeouts(queue))

Housekeeping ==
    /\ worker.pc = "idle"
    /\ KillActive(Overdue(queue))
    /\ grants' = RevokeMissingTtys(RevokeExpired(grants), ttys)
    /\ receipts' = SweepReceipts(receipts)
    /\ failures' = [i \in Ids |-> IF StateOf(Swept, i) = "Absent" THEN None
                                  ELSE failures[i]]
    /\ UNCHANGED <<registry, lockEpoch, conn, outside, regs>>

WorkerWait ==
    /\ Housekeeping
    /\ \A i \in Ids : ~NextReady(Swept, i)
    /\ queue' = Swept
    /\ UNCHANGED <<worker, ceremony>>

WorkerStart(i) ==
    /\ Housekeeping
    /\ NextReady(Swept, i)
    /\ queue' = MarkDecrypting(Swept, i)
    /\ worker' = [IdleWorker EXCEPT !.pc = "probe", !.id = i,
                                    !.scope = Swept.requests[i].scope,
                                    !.key = Swept.requests[i].key,
                                    !.generation = Swept.generation + 1,
                                    !.epoch = lockEpoch]
    /\ ceremony' = [ceremony EXCEPT ![i] = [@ EXCEPT !.key = Swept.requests[i].key,
                                                     !.epoch = lockEpoch]]

(* decrypt_opened_with_start fails before a child exists: the key is       *)
(* unreachable, the file is gone or ambiguous, sops does not start.        *)
DecryptRefused(e) ==
    /\ worker.pc = "probe"
    /\ \/ e \in {"YUBIKEY_UNREACHABLE", "INTERNAL"}
       \/ files[worker.key].state # "sole" /\ e = FileError(worker.key)
    /\ worker' = [worker EXCEPT !.pc = "failed", !.error = e]
    /\ UNCHANGED <<core, conn, child, outside, history>>

(* The ciphertext is opened, its identity taken from the open file, and    *)
(* sops spawned on that descriptor.                                        *)
DecryptSpawn ==
    /\ worker.pc = "probe"
    /\ files[worker.key].state = "sole"
    /\ worker' = [worker EXCEPT !.pc = "spawned",
                                !.version = files[worker.key].version]
    /\ child' = "alive"
    /\ UNCHANGED <<core, conn, outside, history>>

OnStartedKeepsChild ==
    /\ worker.pc = "spawned"
    /\ worker' = [worker EXCEPT !.pc = "running"]
    /\ active' = IF StateOf(queue, worker.id) = "Decrypting" THEN worker.id ELSE active
    /\ UNCHANGED <<registry, grants, receipts, queue, failures, lockEpoch, conn,
                   child, outside, history>>

(* The on_started callback: publish the process group, or kill it at once  *)
(* when the request was cancelled meanwhile.                               *)
OnStarted ==
    /\ worker.pc = "spawned"
    /\ worker' = [worker EXCEPT !.pc = "running"]
    /\ IF StateOf(queue, worker.id) = "Decrypting"
       THEN active' = worker.id /\ UNCHANGED child
       ELSE child' = KillGroup(child) /\ UNCHANGED active
    /\ UNCHANGED <<registry, grants, receipts, queue, failures, lockEpoch, conn,
                   outside, history>>

(* try_wait finds the child still running at the decryptor's deadline. *)
WorkerDeadline ==
    /\ worker.pc = "running"
    /\ child = "alive"
    /\ worker.age >= Ttl
    /\ child' = "expired"
    /\ UNCHANGED <<core, conn, worker, outside, history>>

WithdrawnIgnoringLock == ~ScopeAlive(registry, ttys, worker.scope)

(* An approval is dropped if LOCK ran, or its scope ended, meanwhile. *)
Withdrawn ==
    lockEpoch # worker.epoch \/ ~ScopeAlive(registry, ttys, worker.scope)

BackToIdle ==
    /\ active' = IF active = worker.id THEN NoId ELSE active
    /\ worker' = IdleWorker
    /\ child' = "none"
    /\ UNCHANGED <<registry, receipts, lockEpoch, conn, outside, history>>

WorkerSucceeds ==
    /\ worker.pc = "running"
    /\ child = "ok"
    /\ LET q == IF Withdrawn THEN Deny(queue, worker.id) ELSE queue
       IN  /\ queue' = Complete(q, worker.id, worker.generation)
           /\ grants' = IF StillCurrent(q, worker.id, worker.generation)
                        THEN InsertGrant(grants, worker.scope, worker.key,
                                         worker.version, worker.id)
                        ELSE grants
    /\ BackToIdle
    /\ UNCHANGED failures

DecryptErrorUnlessKilled(e) ==
    \/ worker.pc = "failed" /\ e = worker.error
    \/ worker.pc = "running" /\ child = "expired" /\ e = "TIMEOUT"
    \/ worker.pc = "running" /\ child = "err" /\ e \in StderrCodes

(* The error is the one met before the spawn, the deadline's, or what the  *)
(* child's stderr is classified as.                                        *)
DecryptError(e) ==
    \/ worker.pc = "failed" /\ e = worker.error
    \/ worker.pc = "running" /\ child = "expired" /\ e = "TIMEOUT"
    \/ worker.pc = "running" /\ child \in {"err", "killed"} /\ e \in StderrCodes

WorkerFails(e) ==
    /\ DecryptError(e)
    /\ queue' = Fail(queue, worker.id)
    /\ failures' = [failures EXCEPT ![worker.id] = e]
    /\ BackToIdle
    /\ UNCHANGED grants

-----------------------------------------------------------------------------
(* Outside the daemon: sops and the YubiKey, files, terminals, processes.  *)

HumanTouches ==
    /\ child = "alive"
    /\ touch' = [age |-> 0, id |-> worker.id]
    /\ UNCHANGED <<core, conn, worker, child, files, ttys, history>>

(* sops succeeds on a touch the YubiKey remembers, whoever it was meant    *)
(* for, and prints one assignment.                                         *)
ChildSucceeds ==
    /\ child = "alive"
    /\ touch.age < TouchCache
    /\ child' = "ok"
    /\ UNCHANGED <<core, conn, worker, outside, history>>

ChildFails ==
    /\ child = "alive"
    /\ child' = "err"
    /\ UNCHANGED <<core, conn, worker, outside, history>>

SetFile(k, f) ==
    /\ files' = [files EXCEPT ![k] = f]
    /\ UNCHANGED <<core, conn, worker, child, touch, ttys, history>>

ReplaceFile(k) ==
    /\ files[k].version < MaxVersion
    /\ SetFile(k, [version |-> files[k].version + 1, state |-> "sole"])

RemoveFile(k) == MaxVersion > 1 /\ SetFile(k, [files[k] EXCEPT !.state = "absent"])

DuplicateFile(k) ==
    /\ MaxVersion > 1
    /\ files[k].state = "sole"
    /\ SetFile(k, [files[k] EXCEPT !.state = "ambiguous"])

RemoveDuplicate(k) ==
    /\ files[k].state = "ambiguous"
    /\ SetFile(k, [files[k] EXCEPT !.state = "sole"])

RootExits(t) ==
    /\ t \in registry.liveRoots
    /\ registry' = [registry EXCEPT !.liveRoots = @ \ {t}]
    /\ UNCHANGED <<grants, receipts, queue, failures, lockEpoch, active, conn,
                   worker, child, outside, history>>

TtyVanishes(y) ==
    /\ y \in ttys
    /\ ttys' = ttys \ {y}
    /\ UNCHANGED <<core, conn, worker, child, touch, files, history>>

TtyAppears(y) ==
    /\ ttys' = ttys \cup {y}
    /\ UNCHANGED <<core, conn, worker, child, touch, files, history>>

(* Time passes for everything that holds an Instant. *)
Tick ==
    /\ queue' = AgeQueue(queue)
    /\ grants' = AgeGrants(grants)
    /\ receipts' = AgeReceipts(receipts)
    /\ touch' = [touch EXCEPT !.age = IF @ < TouchCache THEN @ + 1 ELSE @]
    /\ conn' = [c \in Conns |->
                  IF conn[c].pc = "waiting" /\ conn[c].waited <= Ttl
                  THEN [conn[c] EXCEPT !.waited = @ + 1]
                  ELSE conn[c]]
    /\ worker' = IF worker.pc = "running" /\ worker.age < Ttl
                 THEN [worker EXCEPT !.age = @ + 1]
                 ELSE worker
    /\ UNCHANGED <<registry, failures, lockEpoch, active, child, files, ttys, history>>

-----------------------------------------------------------------------------
(* The system. *)

Command ==
    \/ \E t \in Tokens, s \in Sessions : RegisterSession(t, s)
    \/ \E s \in Sessions : UnregisterSession(s)
    \/ \E i \in Ids : DenyRequest(i)
    \/ Lock
    \/ \E r \in receipts, cap \in CapKeys : RedeemReceipt(r, cap)

Arrive(c) ==
    \/ BeginAuthorize(c)
    \/ RefuseCapabilityKey(c)
    \/ \E op \in Ops, k \in Keys, t \in Tokens \cup {None}, y \in Ttys \cup {None} :
          \/ ResolveAccess(c, op, k, t, y)
          \/ \E inTree \in BOOLEAN : ResolveRefused(c, op, k, t, y, inTree)

Handler(c) ==
    \/ AwaitCached(c)
    \/ AwaitRefused(c)
    \/ AwaitCoalesced(c)
    \/ AwaitQueued(c)
    \/ WakeGranted(c)
    \/ WakeEnded(c)
    \/ WakeDeadline(c)
    \/ FetchValue(c)
    \/ FinishAuthorization(c)

WorkerStep ==
    \/ WorkerWait
    \/ \E i \in Ids : WorkerStart(i)
    \/ DecryptSpawn
    \/ OnStarted
    \/ WorkerDeadline
    \/ WorkerSucceeds
    \/ \E e \in FailureCodes \cup FileErrors : DecryptRefused(e) \/ WorkerFails(e)

Environment ==
    \/ HumanTouches
    \/ ChildSucceeds
    \/ ChildFails
    \/ \E k \in Keys : \/ ReplaceFile(k)
                       \/ RemoveFile(k)
                       \/ DuplicateFile(k)
                       \/ RemoveDuplicate(k)
    \/ \E t \in Tokens : RootExits(t)
    \/ \E y \in Ttys : TtyVanishes(y) \/ TtyAppears(y)

Next ==
    \/ Command
    \/ \E c \in Conns : Arrive(c) \/ Handler(c)
    \/ WorkerStep
    \/ Environment
    \/ Tick

Spec == Init /\ [][Next]_vars

(* The threads run and time passes; nobody is obliged to touch the key, to *)
(* send a command or to exit.                                              *)
FairSpec ==
    /\ Spec
    /\ WF_vars(WorkerStep)
    /\ \A c \in Conns : WF_vars(Handler(c))
    /\ WF_vars(Tick)

-----------------------------------------------------------------------------
(* Safety. *)

(* A grant never outlives the registration of its session: register and    *)
(* unregister revoke what they unbind in the same critical section, and    *)
(* the worker installs no grant for a token that is no longer registered.  *)
SessionGrantsRegistered ==
    \A g \in grants : g.scope \in Tokens => registry.session[g.scope] # None

(* Whatever LOCK clears stays cleared: no grant and no receipt stems from  *)
(* a decrypt that began before the latest LOCK, however LOCK falls between *)
(* the worker's and the authorizing handler's critical sections.           *)
NothingPredatesLock ==
    /\ \A g \in grants : ceremony[g.request].epoch = lockEpoch
    /\ \A r \in receipts : ceremony[r.request].epoch = lockEpoch

(* One decrypt at a time: a request is Decrypting exactly when the queue   *)
(* holds the hardware for it, and then the worker is busy with that very   *)
(* request under its current generation.                                   *)
SingleFlight ==
    \A i \in Ids :
        /\ StateOf(queue, i) = "Decrypting" <=> queue.inflight = i
        /\ queue.inflight = i =>
              /\ worker.pc # "idle"
              /\ worker.id = i
              /\ worker.generation = queue.requests[i].generation

(* The kill switch is exact.  active_decrypt names a process group only    *)
(* while its request is Decrypting, and once on_started has run, a sops    *)
(* child that is still alive is one that active_decrypt can kill: no       *)
(* cancelled request leaves the YubiKey blinking.                          *)
NoOrphanDecrypt ==
    /\ active # NoId => /\ worker.pc = "running"
                        /\ active = worker.id
                        /\ StateOf(queue, active) = "Decrypting"
    /\ worker.pc = "running" /\ child = "alive" => active = worker.id

(* One touch never approves two requests: a decrypt that succeeds used a   *)
(* touch made while its own child was asking, because the cooldown outlasts *)
(* the touch cache from whichever way the previous decrypt ended.          *)
TouchIsForItsRequest == child = "ok" => touch.id = worker.id

(* A handler waits only on a request of its own scope and key, and two     *)
(* AUTHORIZE handlers never share one.                                     *)
WaitsOnOwnRequest ==
    \A c \in Conns :
        conn[c].pc \in {"waiting", "mint"} =>
            /\ StateOf(queue, conn[c].id) # "Absent" =>
                  /\ queue.requests[conn[c].id].scope = conn[c].scope
                  /\ queue.requests[conn[c].id].key = conn[c].key
            /\ \A d \in Conns \ {c} :
                  /\ conn[d].pc \in {"waiting", "mint"}
                  /\ conn[c].op = "AUTHORIZE"
                  => conn[c].id # conn[d].id

(* One ceremony attests at most once, and only to its own capability:      *)
(* receipts are minted once per completed request and consumed when used.  *)
OneAttestationPerCeremony ==
    \A i \in Ids : ceremony[i].redeemed \in {<<>>, <<ceremony[i].key>>}

(* The receipt table never exceeds its bound. *)
ReceiptsBounded == Cardinality(receipts) <= MaxReceipts

(* A GET answered from the cache, with no request of its own, never sends  *)
(* a version older than the file it could have read when it arrived, even  *)
(* though the value is copied in a later critical section than the check.  *)
CachedReadIsCurrent ==
    \A c \in Conns :
        conn[c].answer = "BYTES" /\ conn[c].id = NoId => conn[c].served >= conn[c].seen

(* A scope has at most one active capability request and at most           *)
(* max_pending_per_scope others; enqueue counts them together, but a       *)
(* capability request is admitted whatever else is pending.                *)
PendingBounded ==
    \A s \in Scopes :
        LET act == {i \in Ids : IsActive(queue, i) /\ queue.requests[i].scope = s}
            cap == {i \in act : queue.requests[i].key \in CapKeys}
        IN  /\ Cardinality(cap) <= 1
            /\ Cardinality(act \ cap) <= MaxPending

(* A GET never sends a version older than the file at its arrival, whether *)
(* the value comes from the cache or from a request.  The comment in       *)
(* await_approval on revoking under the lock asks for this; a GET that     *)
(* joins a decrypt which opened the previous file does not get it.         *)
ServedValueIsCurrent ==
    \A c \in Conns : conn[c].answer = "BYTES" => conn[c].served >= conn[c].seen

(* A session that registers again starts with zero grants: every grant of  *)
(* a token was asked for under the token's present registration.  The      *)
(* worker compares only whether the token is registered.                   *)
GrantBelongsToRegistration ==
    \A g \in grants : g.scope \in Tokens => ceremony[g.request].reg = regs[g.scope]

-----------------------------------------------------------------------------
(* Action properties. *)

(* A grant appears only in the step that turns its own request from        *)
(* Decrypting to Granted, and for that request's scope and key: a denied,  *)
(* timed-out, failed or withdrawn approval never leaves a grant behind.    *)
GrantNeedsApproval ==
    [][\A g \in grants' :
          (\A h \in grants : h.request # g.request) =>
              /\ StateOf(queue, g.request) = "Decrypting"
              /\ StateOf(queue', g.request) = "Granted"
              /\ queue.requests[g.request].scope = g.scope
              /\ queue.requests[g.request].key = g.key]_vars

(* A request that ended stays ended: Granted is final, a request that was  *)
(* denied, timed out or failed is never granted or queued again, and a     *)
(* pruned id is never reused.                                              *)
EndIsFinal ==
    [][\A i \in Ids :
          /\ StateOf(queue, i) = "Granted" => StateOf(queue', i) \in {"Granted", "Absent"}
          /\ StateOf(queue, i) \in OverStates \ {"Granted"} =>
                 StateOf(queue', i) \in {StateOf(queue, i), "Failed", "Absent"}
          /\ i < queue.nextId /\ StateOf(queue, i) = "Absent" =>
                 StateOf(queue', i) = "Absent"]_vars

-----------------------------------------------------------------------------
(* What the daemon promises, seen through its queue and its grants.        *)

PhaseOf(q, i) ==
    IF StateOf(q, i) = "Pending" THEN "asked"
    ELSE IF StateOf(q, i) = "Decrypting" THEN "touching"
    ELSE IF StateOf(q, i) = "Absent" /\ i >= q.nextId THEN "new"
    ELSE "over"

Phase == [i \in Ids |-> PhaseOf(queue, i)]

InForce == {g.request : g \in grants}

Desk == INSTANCE ApprovalDesk WITH Requests <- Ids, phase <- Phase, inForce <- InForce

(* The daemon implements the approval desk: one touch at a time, first     *)
(* come first served, a grant from the touch for its own request and from  *)
(* nothing else, however handlers, worker, timeouts, LOCK and the ends of  *)
(* sessions interleave.                                                    *)
ImplementsDesk == Desk!Spec

-----------------------------------------------------------------------------
(* Liveness, under FairSpec. *)

(* Every handler that has resolved its scope answers: it is never for ever *)
(* between the resolve and the answer, because the request is granted,     *)
(* ends, or is timed out by the handler itself.                            *)
EveryHandlerAnswers ==
    \A c \in Conns : []<>(conn[c].pc \notin {"await", "waiting", "fetch", "mint"})

(* The worker always comes back for the next request, even if nobody       *)
(* touches the key and sops hangs.                                         *)
WorkerComesBack == []<>(worker.pc = "idle")

(* The sweeps catch up: a grant at the backstop age, or of a terminal      *)
(* whose device is gone, is there for a while at most, though the worker   *)
(* sweeps only between two decrypts.                                       *)
OldGrantsRevoked ==
    []<>(\A g \in grants : g.age < MaxGrant /\ g.scope \notin Ttys \ ttys)

=============================================================================
