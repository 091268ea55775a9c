# TLA+ verification of secretsd

`secretsd` is a broker for human-tier secrets. A client asks it for a secret on
a Unix socket; the daemon runs `sops`, which needs a touch of a YubiKey; the
decrypted value is kept in memory as a *grant* of one session (or terminal) and
one key until it is revoked. Agent harnesses register their sessions with the
daemon through a plugin, and a command-line client edits the encrypted files.
This directory models the daemon, the two plugins and the edit commands in TLA+,
checks small instances with TLC, and proves the central properties with TLAPS
for all values of the constants.

Paths below are relative to the repository root as it appears in
`PROJECT.json` (`src/src/...` is the Rust crate,
`src/opencode/...` and `src/omp/...` are the plugins).

## 1. The system

All daemon state lives in one `State` behind one mutex with one condition
variable (`src/src/server.rs`). Three kinds of threads use it:

- the **accepting thread** peeks at a new connection and hands it to one of
  three bounded channels (main, fast, control);
- **handler threads** read one request, run it, and answer; a request that needs
  approval enters the queue and waits on the condition variable;
- the **worker** sweeps, takes the next request, runs `sops` without holding the
  mutex, and installs the grant.

| Part | State | Operations | What is hard about it |
|---|---|---|---|
| Registry (`grants.rs`) | token -> session, root process; agent terminals | register, unregister, resolve | displacement, a root that exits, the token coming back |
| Grant table (`grants.rs`) | (scope, key) -> value, file identity, time | insert, lookup, revocations | a value that was checked in one critical section and copied in another |
| Request queue (`requests.rs`) | requests, in-flight id, last finish | enqueue, next_ready, mark_decrypting, complete, fail, deny, timeout, sweep, prune | generations, cooldown, limits, late results |
| Receipts (`receipts.rs`) | minted capabilities | mint, redeem, sweep, clear | single use, capacity, LOCK racing the mint |
| Dispatch (`server/dispatch.rs`) | lock epoch | one handler per command | an epoch read long before it is used |
| Approval (`server/approval.rs`) | the handler's locals | lookup, enqueue, wait, second lookup | coalescing, deadlines, pruned requests |
| Worker (`server/worker.rs`, `decrypt.rs`) | the job, `active_decrypt`, the child | sweep, start, callback, finish | cancellation between start and callback |
| Store (`store.rs`) | the files, outside the daemon | locate, open, identity | files change at any time |
| Lanes (`server.rs`) | channels and pools | accept, receive, read, answer | the lane is chosen by what has arrived so far |
| OpenCode plugin (`opencode/plugins/secretsd.ts`) | a token, a file, a belief and a pending registration per session | shell.env, secrets_request, session.deleted, dispose | the daemon forgets everything when it restarts; hooks interleave at every await |
| omp extension (`omp/extensions/secretsd.ts`) | one anchor shared by all sessions of the process | session_start, session_info_changed, session_shutdown, spawn, secrets_request | an anchor is retired while calls made for it are under way |
| Secret files (`secret.rs`, `store.rs`, `client/human.rs`, `client/agent.rs`, `client/cli.rs`) | directories of encrypted files under ordered roots | scan, locate, choose a tier | a stray file name fails every scan; two files for one name |
| Edit commands (`client/edit.rs`, `client/edit/new.rs`) | a directory lock, a temporary ciphertext, a plaintext file, two pipes to `sops` | edit, edit-local, edit-human, from an editor or a pipe | several processes without a daemon between them, each of which may die anywhere |

A plugin is single-threaded: its hooks are asynchronous functions that interleave
only where they await. It never hears of a daemon restart; each command is
preceded by a HELLO whose reply names the process that answered.

The other parts (start-up, wire format, hardening, audit) are listed in
`PROJECT.json` with the reason each is not modelled; the hazards are listed there
too, each at the line where it bites.

## 2. Modules and how they correspond to the code

`Grants`, `RequestQueue` and `Receipts` define each method of the Rust tables as
an operator from a table to a table. `Broker` holds the variables and composes
those operators.

| Module | Models |
|---|---|
| `Grants` | `Registry`, `GrantTable` |
| `RequestQueue` | `Queue` |
| `Receipts` | `ReceiptTable` |
| `Broker` | `State`, `dispatch`, `approval`, `worker`, `decrypt`, the child, the YubiKey, the files |
| `ApprovalDesk` | no code: what the daemon promises about approvals, which `Broker` implements |
| `ConnectionLanes` | `serve`, the lanes, `handle`'s control flow |
| `HarnessLink` | `BrokerClient`, the event loop, the token files, and what a plugin can observe of the daemon |
| `OpencodePlugin` | `createSecretsdPlugin` and its hooks |
| `OmpExtension` | `secretsdOmpExtension`, the shared anchor |
| `SecretFiles` | file names and `parse_human_file_name`, `HumanNames::load`, `HumanStore::open`, `AgentStore`, the choice of a path for an edit, the tier that answers a read |
| `Editor` | `edit`, `edit-local`, `edit-human`: `write_piped_human`, `encrypt_bytes`, `create`, `PlaintextTemp`, `encrypt` |
| `MCBroker`, `MCLanes`, `MCPlugin`, `MCOmp`, `MCEditor` | instances for TLC: symmetry sets, sequences of roots |
| `BrokerProofs`, `SafetyProofs`, `OutcomeProofs`, `LaneProofs`, `PluginProofs`, `OmpLoopProofs`, `OmpProofs`, `EditorProofs` | lemmas and theorems |

**Steps.** One action of `Broker` is one critical section of the mutex,
together with the thread-local code before it, or one event outside the daemon.
What a thread remembers between two critical sections is state: `conn[c]` for a
handler, `worker` for the worker. A GET is therefore three steps or more
(resolve, await, wake, fetch), and everything else may happen between them. A
decrypt is `WorkerStart`, `DecryptSpawn` or `DecryptRefused`, `OnStarted`, the
child's own steps, and `WorkerSucceeds` or `WorkerFails`.

**Time.** An `Instant` is an age that `Tick` increments up to the largest value
the code compares it with. `Tick` is always possible, so any two deadlines may
expire in either order that their ages allow.

**Data.** Tokens, session names, terminals, keys and connections are model
values. A secret value is the version of the file it was decrypted from. A
receipt's random bytes are the pair (request, serial). `inTree` stands for the
result of the ancestry walk over `/proc`.

**History variables.** `ceremony` and `regs`, the fields `seen`, `served` and
`reg` of a connection, and the field `request` of a grant, are read by
properties only.

**External parts.** `sops`, the YubiKey, the file system, terminals and root
processes act nondeterministically: the child succeeds only while the YubiKey
remembers a touch, and may fail or hang at any time.

`ConnectionLanes` is a module of its own. It shares no state with `Broker`: all
it needs to know of a request is whether it may wait for a human.

**Plugins.** `OpencodePlugin` and `OmpExtension` both extend `HarnessLink`. A
task is one asynchronous function; its `pc` is the call it awaits, and one
action is the code between two awaits. `ensureRegistered` is inlined into the
hooks: `EnsureRegistered` is its first stretch, `ProbeReturns`,
`RegisterHelloReturns` and `RegisterReturns` the next ones, `Settle` resumes the
caller and all who joined the registration. `wire` holds the call a task awaits.
`Poll` is a round of the event loop: it takes all replies that have arrived, and
the tasks they resume may run in any order before the next round. A call that
fails may leave its command in the socket (`late`), to be read at any later time.
The daemon is reduced to its process identity and the token of each session:
`HandleRegister` displaces, `HandleUnregister` goes by session id,
`HandleRequest` says only whether the token is known. `Restart` forgets all
tokens. In `OmpExtension` an anchor object is named by its token, and anchors
stay in `anchors` after they were replaced, since closures still refer to them.
`disturbed` and `failures` are history; `deleted` and the instances that have
shut down bound what the harness still calls.

**The approval desk.** `ApprovalDesk` says what approvals are about without
sessions, threads, processes or clocks: requests are served one at a time in the
order in which they were made; a grant comes into force in the step that ends the
touch for its own request, and in no other; what is over stays over. `Broker`
maps onto it with `Phase`, from the states of the queue (a coalesced request is
one request, `Decrypting` is "touching"), and `InForce`, the requests that the
grants in the table stem from.

**Files and edits.** In `SecretFiles` a file name is the sequence of its parts
between dots, since that is what `parse_human_file_name` tells apart, and a disk
maps paths to contents. `Editor` runs one command per process. A command loads
the names, picks its path and takes one of three routes: *piped* reads a value,
takes the directory's `flock`, feeds `sops` while a second thread drains it, and
renames the ciphertext over the path; *create* runs an editor on a plaintext
file, validates what it reopens, and installs with `persist_noclobber`, without
the lock; *sops* hands an existing file over to `sops`. One action is the code
between two system calls that another process can observe. A file is its inode,
named by the process that made it, and the process that wrote it last, whether
the ciphertext is whole, whether what is in it fits its place, and its names. The
pipes hold `PipeSize` pieces; `sops` reads a piece and then writes up to two, so
that a command that writes everything before it reads would block. `Kill` ends a
process at any point: the system drops its lock and its files stay. `saw` and
`replaced` are history.

## 3. Runs

| Run | Question | Result |
|---|---|---|
| `sessions` | two tokens, one session name, one key: registration, displacement, denial, timeout, failure and completion in every order; does the daemon implement the desk? | passes |
| `lock` | LOCK anywhere inside two requests or authorizations of one terminal; the limits of the queue and of the receipts | passes |
| `rotation` | a file replaced, removed, duplicated during two GETs | passes |
| `liveness` | every handler answers, the worker comes back, old grants and grants of vanished terminals are revoked | passes |
| `lanes` | where each connection is, what the side lanes hold; the listener and LOCK are not held up by a stuck main lane | passes |
| `plugin` | OpenCode: restarts, failing calls and late commands during two hooks; every hook returns | passes |
| `omp` | omp: two instances start, reload, request, re-key and shut down | passes |
| `omp_faults` | omp: a call fails and is read late, the daemon restarts, during requests and re-keys | passes |
| `editor` | two edit commands by any route, failing or killed anywhere, with a value longer than the pipes; every command ends | passes |
| `stale_join` | is every value sent at least as new as the file on arrival? | violated |
| `reregistered` | does a registration start with zero grants? | violated |
| `failed_editor` | is the plaintext scrubbed and unlinked on every exit path? | violated |

### The disagreements

1. **`stale_join`.** A request coalesces with one that is already decrypting and
   whose file was opened before it was replaced; the second lookup of GET does
   not compare identities. The value sent is that of the previous file. Values
   served purely from the cache are current (`CachedReadIsCurrent`).
2. **`reregistered`.** UNREGISTER leaves the token's requests queued, and the
   worker only asks whether the token is registered. If the session registers
   again meanwhile, it starts with a grant it did not ask for.
3. **`failed_editor`.** `create` leaves at once when the editor exits with a
   failure, and reopens the plaintext file only after that. If the editor had put
   a new file in its place, `drop` overwrites the first file and unlinks the new
   one, whose text is never overwritten; `docs/design.md` (line 58) says "The file
   is scrubbed and unlinked on every exit path". What was reopened is scrubbed,
   as far as the scrub succeeds (`PlaintextScrubbed`).

### Limits of the passing properties

Several properties are stated with an exception or for a part of the system only,
because the code does not give more. The models have these behaviours; a reader
should not expect them to be excluded.

- `Queue::fail` sets `Failed` whatever the state: after a DENY that kills the
  child, a handler that wakes late reports the child's error in place of
  `DENIED`. No grant results (`EndIsFinal`, `GrantNeedsApproval`).
- `accept` peeks once. A LOCK whose bytes arrive a moment later is queued in the
  main lane, behind requests that wait for a touch; one that is complete on
  arrival never is (`ControlAnswered`). `docs/design.md` (line 353) says that deny
  and lock "are always serviced immediately, ahead of the queue"; the property
  says it of the latter kind only.
- The `session.deleted` hook of the OpenCode plugin neither waits for nor cancels
  a registration that is under way, so a REGISTER read after the UNREGISTER
  brings the session back.
- A reply of the old daemon process resumed after a handshake with the new one
  leaves a plugin believing in a registration that is gone; its next request
  finds out and heals it (`RetryHeals`). This is about restarts from before the
  tool call. One that falls into the call is excused: after a first restart
  another hook registers anew, a second restart undoes what it was told, and a
  retry that joins it in between is told `UNKNOWN_TOKEN` again. With a single
  restart in all, TLC finds every request healed. In the reverse case a
  shutdown of the omp owner sends no UNREGISTER (`RetiredIsGone` is checked
  without restarts).
- UNREGISTER names a session, not a token: after a switch away and back, what is
  under way for the first anchor hits the third. `AnchorRegistrationKept` is about
  anchors of different sessions.
- Creating a human key takes no lock and scans only once. Two commands that
  scanned before the other's file was there can leave two files for one name,
  which the daemon then calls ambiguous (the exception in `KeysStayOpenable`),
  and a piped command can report "created" when it replaced what an editor
  command had just installed (the exception in `CreatedReplacedNothing`).
- `scrub` returns at the first call that fails, and the result of `remove_file`
  is ignored. In `Drop` each of the three may therefore fail, and what it was to
  remove is `kept`. `PlaintextScrubbed` says that each is tried whatever happened
  before, of the file the command made and of one it reopened. A killed command
  leaves its plaintext file in place.
- `TiersAgree` takes what a file names as one set. The code has two parsers, one
  for names and one for values; that they agree on every text is not modelled.
- `OldGrantsRevoked` says that an expired grant goes. Until the worker sweeps, it
  is served.

### Bounds

Two connections are the fewest that can coalesce, compete or race; two requests
are the fewest for a cooldown, a second touch or a second receipt. `Cooldown = 2`
and `TouchCache = 1` are the smallest values with `0 < TouchCache < Cooldown`,
`Ttl = 1` lets a deadline fall before, at and after every other step. One LOCK
separates "before" from "after"; two versions of a file separate old from new.
`sessions` has two tokens for one session name, so that displacement happens;
`lock` has one terminal, a secret and a capability, against limits of one.
Pools of one thread and channels of one place make every capacity case occur
with three clients. `MaxRequests`, `MaxLocks`, `MaxVersion` and `MaxRegs` bound
counters that the code leaves unbounded; actions that would exceed them are
disabled. Connections are interchangeable, hence the symmetry of the safety
runs; liveness runs use none.

In the plugin runs two tasks are the fewest that interleave or join; `plugin` was
also checked once with three tasks and `omp` with three tasks and one instance.
One session suffices for the OpenCode plugin, whose sessions share only
`brokerInstance` and the `registered.clear()` it triggers; two tokens let a
session be forgotten and minted again; three daemon processes are two restarts,
so that one can fall before the first request and one between it and its retry.
In the omp runs `s1` is the root, `s2` a subagent, `s3` the root's next session;
`omp` has both instances and no faults, `omp_faults` one instance, one failing
call and one restart, because together they exceed what TLC finishes in minutes.
Deadlock is not checked in these runs: after dispose, deletion or shutdown the
plugin really stops, and the bound on tokens ends the rest.

Two edit commands are the fewest that race. One name suffices for `editor`, since
commands for different names share only the scan, the agent files and the lock;
one root and the two kinds of file give the name two places, enough for it to
become ambiguous, and the initial states have it in either of them or in none.
With two roots the safety properties were checked apart from `CommandsEnd`; they
are proved for any number. `failed_editor` has two roots. `InputChunks = 3` against
`PipeSize = 1` is a value that does not fit into the pipes on both sides of
`sops`; `MaxOutput` is smaller than what `sops` may write, so that the limit is
hit. Commands end, so deadlock is not checked.

Connections do not come back after they were answered, so `Broker` has states
in which only `Tick`, the worker's sweep and the environment still act; `Tick`
keeps deadlock checking on and satisfied. It is checked in all runs of the
daemon and its lanes.

### Fairness

`Broker!FairSpec` assumes weak fairness of the worker, of each handler that has
resolved its scope, and of `Tick`: operating-system threads run, waits on the
condition variable are bounded by timeouts (100 ms in the worker, the remaining
ttl in a handler), and time passes. Nothing is assumed of people, of `sops`, of
files or of clients. `ConnectionLanes!FairSpec` assumes the same of the
accepting thread, of the channels' receivers and of handlers reading a frame
(bounded by the read timeout) or running a command that does not wait for a
touch; a handler that waits for a touch may be busy for ever.
`OpencodePlugin!FairSpec` assumes that timers fire, that the event loop turns,
and that a resumed function runs on; nothing of the daemon.
`Editor!FairSpec` assumes weak fairness of what a command and its `sops` do
together: as long as one of the two threads or the child can go on, one of them
does. It asks nothing of whoever types, pipes or kills, and no failure is fair,
so that a blocked command is never rescued by one. `sops` itself is trusted to
read, write and end as long as its pipes let it.

## 4. Proofs

TLAPS proves, for any constants that satisfy the named assumptions:

| Theorem | Statement |
|---|---|
| `BrokerProofs!TypeCorrect` | `Spec => []TypeOK` |
| `BrokerProofs!SingleFlightHolds` | `Spec => []SingleFlight` |
| `BrokerProofs!NoOrphanDecryptHolds` | `Spec => []NoOrphanDecrypt` |
| `SafetyProofs!TouchIsForItsRequestHolds` | `Spec => []TouchIsForItsRequest` |
| `SafetyProofs!SessionGrantsRegisteredHolds` | `Spec => []SessionGrantsRegistered` |
| `SafetyProofs!NothingPredatesLockHolds` | `Spec => []NothingPredatesLock` |
| `SafetyProofs!PendingBoundedHolds` | `Spec => []PendingBounded` |
| `SafetyProofs!ReceiptsBoundedHolds` | `Spec => []ReceiptsBounded` |
| `OutcomeProofs!WaitsOnOwnRequestHolds` | `Spec => []WaitsOnOwnRequest` |
| `OutcomeProofs!CachedReadIsCurrentHolds` | `Spec => []CachedReadIsCurrent` |
| `OutcomeProofs!ImplementsDeskHolds` | `Spec => ImplementsDesk` (a refinement) |
| `OutcomeProofs!GrantNeedsApprovalHolds` | `Spec => GrantNeedsApproval` (an action property) |
| `OutcomeProofs!EndIsFinalHolds` | `Spec => EndIsFinal` (an action property) |
| `OutcomeProofs!OneAttestationHolds` | `Spec => []OneAttestationPerCeremony` |
| `LaneProofs!SideLanesNeverWaitHolds` | `Spec => []SideLanesNeverWait` |
| `LaneProofs!OnePlaceEachHolds` | `Spec => []OnePlaceEach` |
| `PluginProofs!TokenFileIsCurrentHolds` | `Spec => []TokenFileIsCurrent` |
| `PluginProofs!RegistrationKeptHolds` | `Spec => RegistrationKept` (an action property) |
| `PluginProofs!RetryHealsHolds` | `Spec => []RetryHeals` |
| `OmpProofs!OmpTypeOKHolds` | `Spec => []TypeOK` of `OmpExtension` |
| `OmpProofs!RequestsOnLiveAnchorHolds` | `Spec => []RequestsOnLiveAnchor` |
| `OmpProofs!OnlyAnchorsFileHolds` | `Spec => []OnlyAnchorsFile` |
| `OmpProofs!RetiredIsGoneHolds` | `Spec => []RetiredIsGone` |
| `OmpProofs!RetryHealsHolds` | `Spec => []RetryHeals` of `OmpExtension` |
| `OmpProofs!AnchorRegistrationKeptHolds` | `Spec => AnchorRegistrationKept` (an action property) |
| `EditorProofs!TargetsCompleteHolds` | `Spec => []TargetsComplete` |
| `EditorProofs!ReplacedUnderLockHolds` | `Spec => ReplacedUnderLock` (an action property) |
| `EditorProofs!PlaintextScrubbedHolds` | `Spec => []PlaintextScrubbed` |
| `EditorProofs!ScansSucceedHolds` | `Spec => []ScansSucceed` |
| `EditorProofs!CreatedReplacedNothingHolds` | `Spec => []CreatedReplacedNothing` |
| `EditorProofs!KeysStayOpenableHolds` | `Spec => []KeysStayOpenable` |
| `EditorProofs!EditorTypeOKHolds` | `Spec => []TypeOK` of `Editor` |
| `EditorProofs!TiersAgreeHolds` | `Spec => []TiersAgree` |

**Assumptions.** Tokens and terminals are disjoint, none of the sets contains the
null value, nor does the set of answers, capability keys are keys, bounds are
natural numbers, and
`TouchCache < Cooldown`, which is what `Config::validate` enforces for a key
with a cached touch policy. `TouchIsForItsRequest` rests on that inequality.
An operator who declares `SECRETSD_TOUCH_POLICY=always` removes the floor; that
configuration is outside the theorem. The roots are a nonempty sequence without
repetition. An omp instance is named by a session, and the root is one of them. A
process of `Editor` stands also for what follows the dot in the name of its
temporary file, `secretsd-ciphertext-` and a random part, which is therefore not
`env`.

**Argument.**

- `BrokerProofs` begins with what each queue operation preserves: the types
  (`QueueOK`), that at most the in-flight request is Decrypting (`FlightOK`), and
  that ids not yet handed out are absent (`Fresh`). It lifts the types to the
  daemon: `TypeInv` adds to `TypeOK` what a handler or the worker knows at each
  program point (`ConnOK`, `WorkerOK`): a handler that waits has an id, a busy
  worker has a job.
- `FlightInv` ties the worker to the queue: the in-flight request is the
  worker's job, with its generation, and the published process group is its
  child. `SingleFlight` alone is not inductive: a DENY frees the hardware
  while the worker is still busy, and only the link to the worker shows that
  no second decrypt starts. `EvolvesStep` then says once what any step of the
  daemon does to the queue as a whole: it queues one request, or starts one, or
  only ends and prunes some. The other modules cite it.
- `TouchInv` adds that, while the worker is idle, the last touch is at least as
  old as the last finish. The cooldown then outlasts the touch cache whichever
  way the previous decrypt ended.
- `LockInv` adds that the worker's epoch is that of its ceremony, and that the
  epoch an AUTHORIZE read first is no later than that of the ceremony it waits
  on; the comparison at completion and at the mint then suffices.
- `PendingInv` counts the active requests of a scope as `enqueue` does. No step
  but `AwaitQueued` makes a request active, and it counts and appends in one
  critical section. `ReceiptsInv` is the same for the receipts, of which only
  `FinishAuthorization` adds one; it also says that the table is finite.
- `OutcomeProofs` begins with what any step does to one handler (`ConnStep`: it stays,
  leaves, sends, resolves, is served from the cache, joins, queues or wakes).
  `WaitInv` adds to `WaitsOnOwnRequest` that the id a handler holds has been
  handed out, so that a request pushed later is not it, although the one it
  waited on may have been pruned. `CacheInv` follows the version of a
  file from the worker, which opened it, to the grant and to the handler that
  found the grant: between the check and the copy the grant can only make way for
  one that was opened later, and there is one grant for a scope and a key.
- It then shows that every action of `Broker` maps to a step of the desk or to a
  stutter. Most actions only withdraw (`WithdrawStep`: some requests
  are over, some grants gone) or leave both alone (`QuietStep`). `WorkerStart`
  maps to `Serve`, withdrawing first what its sweeps end (`SweptRetires`), and
  `WorkerSucceeds` to `Approve`; here `FlightInv` is needed, to know that the
  request that the worker completes is the one that is touching.
- The two action properties of the daemon follow. Only
  `WorkerSucceeds` adds a grant (`OtherGrants`), and `FlightInv` shows that the
  request it then completes has the scope and the key of the job. `Final` says
  what each queue operation does to requests that have ended. `fail` overwrites
  any state, so `EndIsFinal` needs one more invariant, `JobOpen`: the request of
  a running job is not Granted, since only the end of that job grants it.
- `AttestInv` says of each ceremony that a receipt was minted for it at most once
  and only after it was granted or pruned, that the receipt in the table is not
  yet redeemed, and that the handler which is to mint has not done so. That no
  other handler can mint for it is `WaitInv`; that the worker never begins it
  again is what `Final` says of a granted request.
- `LaneInv` says what `accept` knew about a connection that it put in a side
  lane; bytes that have arrived do not disappear, so it stays true. `PlaceInv`
  says that the backlog and each channel list their clients once (`Lists`) and
  that the pools are within their sizes; `ListsAppend` and its like for the head
  of a queue are the facts about sequences it needs.
- `PluginInv` says what a hook may rely on when it resumes: while its session
  lives, the token it works for is the session's, `registrations` names whoever
  runs the registration, and whatever is still on its way to the daemon is a
  REGISTER of that token or is for a session that is gone. `RegistrationKept`
  follows, and `TokenFileIsCurrent` is kept by the same steps. `RetryHeals` needs
  `HealInv`, which is about a pair of hooks: a registration that the daemon
  confirmed and then lost (`Stale`) can still make the plugin believe in it, but
  each hook that had the token before the restart either has yet to say HELLO, or
  the stale confirmation resumes before its own reply does. A step of the event
  loop leaves a task as it is or moves it on (`Turn`); `TurnKeepsInv` and
  `TurnHeals` carry both invariants over for the tasks that stay, so that an
  action is proved for the tasks it moves.
- The omp extension needs four invariants, because one anchor is shared by all
  hooks and is replaced while they run. `OmpLoopProofs` has them and the steps of
  the event loop, `OmpProofs` the steps of the daemon and the theorems.
  - `OmpInv` says what the heap of anchors looks like (only the newest can be the
    process's one, all others were retired, a believed registration is not under
    way any more), what each hook may rely on when it resumes (`TaskOK`: it works
    for an anchor that exists and for that one's session, a request is for the
    present and live anchor, a compensating UNREGISTER is for a retired one), that
    `registration` names the hook that runs the registration, and that at most one
    instance owns the anchor and at most one hook tears it down.
    `RequestsOnLiveAnchor` is a part of it; `OnlyAnchorsFile` is kept by the same
    steps. It also says which commands can be in the socket: an UNREGISTER is for
    a session of some retired anchor. `AnchorRegistrationKept` follows, and its
    exception, that no earlier anchor was for the same session, is just what this
    leaves open.
  - `HealInv` is the counterpart of the plugin's: no confirmation that the daemon
    has lost since is for a hook that has had the token all along.
  - `CleanInv` is what `RetiredIsGone` needs before the extension is quiet:
    whatever the daemon holds is the present anchor's and believed in, or some hook
    still registers it, or some hook is about to unregister its session. Each step
    must hand this duty on (`HandsOn`): a registration that settles passes it to
    the anchor or to the compensating UNREGISTER, a shutdown or a re-key to the
    hook that tears down.
  - `SeenInv` says that the extension knows of no daemon process that has not been.
    Without it the first handshake could look like a restart and clear a true
    belief, and the shutdown would then send nothing.

  `TurnKeepsInv`, `TurnHeals` and `TurnIsClean` carry the invariants over for the
  hooks that stay. The actions are proved by what they have in common (a hook moves
  on, an anchor is retired or replaced, a registration settles with all who joined
  it), and `Keeps` is what a step of the extension owes to all four.
- `EditInv` says what an edit command relies on at each point: its
  path is a key's or an agent file, it holds the lock of the path's directory
  from `look` to `exit`, the file it hands to `sops` exists, and the temporary
  file that it is about to rename is its own, valid and, at the rename, whole. It
  also says that a file in place was installed by a command that is past the
  install; without that, a file saved by `sops` could not be told from one the
  same command had installed. `StepKeeps` reduces each step to what it does to its
  own record, its own temporary file and the files in place: two processes never
  share a temporary name (`TempsDiffer`), and no temporary name is a target
  (`TempFacts`). `ScansSucceed` follows from what `EditInv` says of names.
- `PlainInv` says for each point of a command what its plaintext file can be:
  untouched before the editor, without a copy that goes unnoticed after it, and
  at the end scrubbed or kept by a failure of the scrub; `PlaintextScrubbed` is its
  last conjunct.
- `TurnInv` says that while a piped command that found no file has the lock, only
  an editor command can have put one there: a piped one would need the same lock.
  `ScanInv` says that a command saw no file of its key but its own, that what it
  saw stays recorded with the file it made, and that a file from before has no
  second one and gets none. `CreatedReplacedNothing` and `KeysStayOpenable` follow.
- `TiersAgree` needs no invariant. It holds of every disk: `ContainsAgrees` shows
  that the search that stops at the first hit and the reading of all files find the
  same names whenever the latter succeeds.

**Only model-checked.** All liveness properties (`EveryHandlerAnswers`,
`WorkerComesBack`, `OldGrantsRevoked`, `ControlAnswered`,
`EveryConnectionAccepted`, `HooksReturn`, `CommandsEnd`): fairness and ENABLED are
beyond the prover. Every invariant and action property that a passing run checks
is also proved. The inductive invariants themselves were evaluated by TLC on the
instances above before they were proved.

## 5. Not modelled

- The daemon's restart in `Broker` (systemd restarts it on failure). All state is
  lost by design; the YubiKey's touch cache is not. The plugins' modules have it.
- In the plugins: a token file that cannot be written when a hook begins (the
  hook gives up before it changes anything; the failing write in a retry, in
  `session_start` and in a re-key is modelled); a token file that cannot be
  removed; deleting a session or disposing while as many hooks run as there are
  tasks; hooks for a session after OpenCode has deleted it; omp events of an
  instance after its shutdown, except a `secrets_request`.
- HELLO and GRANTS, which change nothing; presenting an unknown receipt, which
  only sweeps; the `None` branch of `describe` in the worker, unreachable after
  `mark_decrypting`; the error of `try_wait`; an error of `accept`, which ends
  the process.
- Reuse of process ids; the contents of the sops pipes; the bytes of a frame
  (the read timeout is per read, so a slow sender is longer-lived than here).
- In `SecretFiles` and `Editor`: symbolic links, special files and permissions,
  which the code refuses before it does anything; the parsing of command lines
  and of dotenv text, whose outcome is chosen; a `sops` that saves an existing
  file other than by a single replacement of its contents.
- Start-up (socket activation, reading the environment, hardening) and the audit
  log, which have no later state; the wire format, whose outcome is a complete,
  an invalid or a missing frame; the `/proc` walk, whose result is a Boolean; the
  client's transport and what it prints.

What remains is I/O or text, which these models can only restate. The next steps
that would add something are a restart of `Broker` that keeps the YubiKey's
memory, and frames byte by byte with the per-read timeout.
