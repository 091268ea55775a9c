---------------------------- MODULE OmpExtension ----------------------------
(***************************************************************************)
(* The omp extension (src/omp/extensions/secretsd.ts).  The root session   *)
(* and its subagents load one extension instance each into one process and *)
(* share one anchor: a token, its file and its registration.  The owner's  *)
(* shutdown and a change of the root's session id retire an anchor while   *)
(* registrations and requests for it may be under way.                     *)
(***************************************************************************)
EXTENDS HarnessLink

CONSTANTS
    Instances,  \* extension instances, each named by its first session id
    Root,       \* the root session's instance, whose session id may change
    MaxFaults   \* bound on the failing lines and the restarts together

ASSUME OmpAssumption ==
    /\ Instances \subseteq Sessions
    /\ Root \in Instances
    /\ MaxFaults \in Nat

VARIABLES
    instances,  \* the closure of each extension instance
    anchors,    \* the SharedAnchor objects, each named by its token
    current,    \* the process-wide anchor, NoToken for undefined
    file,       \* the token files
    minted,     \* how many anchors were created
    failures    \* how many lines have failed

local == <<instances, anchors, current, file, minted, failures>>
vars == <<linkVars, local>>

(* id is what getSessionId returns, session is ownSessionId.  *)
Instance == [id : Sessions, session : Sessions \cup {None}, isOwner : BOOLEAN,
             claimed : BOOLEAN, aborted : BOOLEAN]

SharedAnchor == [session : Sessions \cup {None}, registered : BOOLEAN,
                 registration : Tasks \cup {None}, aborted : BOOLEAN,
                 brokerInstance : 0..MaxInstances]

NoAnchor == [session |-> None, registered |-> FALSE, registration |-> None,
             aborted |-> FALSE, brokerInstance |-> 0]

TypeOK ==
    /\ LinkTypeOK
    /\ instances \in [Instances -> Instance]
    /\ anchors \in [Tokens -> SharedAnchor]
    /\ current \in Tokens \cup {NoToken}
    /\ file \in [Sessions -> Tokens \cup {NoToken}]
    /\ minted \in 0..MaxTokens
    /\ failures \in 0..MaxFaults

Init ==
    /\ LinkInit
    /\ instances = [i \in Instances |-> [id |-> i, session |-> None, isOwner |-> FALSE,
                                         claimed |-> FALSE, aborted |-> FALSE]]
    /\ anchors = [k \in Tokens |-> NoAnchor]
    /\ current = NoToken
    /\ file = [s \in Sessions |-> NoToken]
    /\ minted = 0
    /\ failures = 0

-----------------------------------------------------------------------------
(* The functions that all instances share.  heap stands for the anchors as *)
(* the present step has left them so far, tasks for the tasks.             *)

(* createAnchor and setAnchor. *)
CreateAnchor(s) ==
    /\ minted < MaxTokens
    /\ minted' = minted + 1
    /\ current' = minted'
    /\ file' = WriteTokenFile(file, s, minted')

(* The callback of every handshake reads the anchor of that moment. *)
OnInstance(i) ==
    IF current = NoToken THEN anchors
    ELSE [anchors EXCEPT ![current].registered = @ /\ anchors[current].brokerInstance \in {0, i},
                         ![current].brokerInstance = i]

Live(k, heap) == current' = k /\ ~heap[k].aborted

(* ensureRegistered once the belief was found wanting, for task t in state *)
(* r.  The fence lets no REGISTER begin for an anchor that was retired.    *)
RegisterOrJoin(tasks, t, r, heap) ==
    LET k == r.registering
        q == [r EXCEPT !.session = heap[k].session]
    IN  IF heap[k].registration # None
        THEN /\ Proceed([tasks EXCEPT ![t] = [q EXCEPT !.pc = "joined",
                                                       !.owner = heap[k].registration]])
             /\ anchors' = heap
        ELSE IF Live(k, heap)
        THEN /\ Proceed([tasks EXCEPT ![t] = [q EXCEPT !.pc = "register_hello"]])
             /\ anchors' = [heap EXCEPT ![k].registration = t]
        ELSE /\ Proceed([tasks EXCEPT ![t] = Idle])
             /\ anchors' = heap

EnsureRegistered(tasks, t, r, heap) ==
    LET k == r.registering
    IN  IF Live(k, heap) /\ ~heap[k].registered
        THEN RegisterOrJoin(tasks, t, r, heap)
        ELSE /\ Proceed([tasks EXCEPT ![t] =
                           IF Live(k, heap)
                           THEN [r EXCEPT !.pc = "probe", !.session = heap[k].session]
                           ELSE Idle])
             /\ anchors' = heap

EnsuredUnfenced(r) ==
    IF r.kind # "tool" \/ instances[r.by].aborted THEN Idle
    ELSE [r EXCEPT !.pc = "request_hello", !.owner = None, !.token = r.registering]

(* What follows await ensureRegistered: a tool requests, unless one of its *)
(* signals was aborted.                                                    *)
Ensured(r) ==
    IF r.kind # "tool" \/ instances[r.by].aborted \/ anchors[r.registering].aborted
    THEN Idle
    ELSE [r EXCEPT !.pc = "request_hello", !.owner = None, !.token = r.registering]

(* The registration that task t runs is over, for it and for those who     *)
(* joined it.                                                              *)
Settle(t, ok, heap) ==
    /\ anchors' = [heap EXCEPT ![task[t].registering].registration = None]
    /\ Proceed([u \in Tasks |->
                  IF u = t \/ (task[u].pc = "joined" /\ task[u].owner = t)
                  THEN IF ok THEN Ensured(task[u]) ELSE Idle
                  ELSE task[u]])

(* The signals that reject the requests of anchor k and those of the       *)
(* instances gone.                                                         *)
Aborted(k, gone) ==
    [t \in Tasks |-> IF /\ task[t].pc \in {"request_hello", "request"}
                        /\ task[t].token = k \/ task[t].by \in gone
                     THEN Idle ELSE task[t]]

StillReady == ready' = {t \in ready : task'[t] = task[t]}

-----------------------------------------------------------------------------
(* Hooks begin, each in an idle task. *)

(* Nothing follows the registration in a hook of kind shell.  *)
Fresh(kind, k) == [Idle EXCEPT !.kind = kind, !.registering = k]

(* session_start: the first one claims the anchor, a later one adopts it.  *)
(* omp creates subagents only once the root session has started.           *)
SessionStart(t, i) ==
    /\ task[t].pc = "idle"
    /\ ~instances[i].aborted
    /\ i = Root \/ instances[Root].session # None
    /\ LET s == instances[i].id
           self == [instances[i] EXCEPT !.session = s]
       IN  \/ /\ current = NoToken
              /\ CreateAnchor(s)
              /\ instances' = [instances EXCEPT ![i] =
                                 [self EXCEPT !.isOwner = TRUE, !.claimed = TRUE]]
              /\ EnsureRegistered(task, t, Fresh("shell", current'),
                                  [anchors EXCEPT ![current'].session = s])
           \/ /\ current # NoToken
              /\ instances' = [instances EXCEPT ![i] =
                                 [self EXCEPT !.isOwner = @ /\ self.claimed,
                                              !.claimed = TRUE]]
              /\ UNCHANGED <<current, file, minted>>
              /\ EnsureRegistered(task, t, Fresh("shell", current), anchors)
           \/ /\ current = NoToken  \* no runtime directory
              /\ instances' = [instances EXCEPT ![i] = self]
              /\ UNCHANGED <<task, wire, anchors, current, file, minted>>
    /\ UNCHANGED <<daemon, late, ready, failures>>

(* injectSessionToken registers in the background and restores the file.   *)
Spawn(t) ==
    /\ task[t].pc = "idle"
    /\ current # NoToken
    /\ file' = IF file[anchors[current].session] # NoToken THEN file
               ELSE WriteTokenFile(file, anchors[current].session, current)
    /\ UNCHANGED <<instances, current, minted>>
    /\ EnsureRegistered(task, t, Fresh("shell", current), anchors)
    /\ UNCHANGED <<daemon, late, ready, failures>>

(* secrets_request claims a missing anchor for its own session. *)
SecretsRequest(t, i) ==
    /\ task[t].pc = "idle"
    /\ IF current # NoToken
       THEN /\ UNCHANGED <<instances, current, file, minted>>
            /\ EnsureRegistered(task, t, [Fresh("tool", current) EXCEPT !.by = i], anchors)
       ELSE LET s == instances[i].session
            IN  /\ s # None /\ ~instances[i].aborted
                /\ CreateAnchor(s)
                /\ instances' = [instances EXCEPT ![i].isOwner = TRUE]
                /\ EnsureRegistered(task, t, [Fresh("tool", current') EXCEPT !.by = i],
                                    [anchors EXCEPT ![current'].session = s])
    /\ UNCHANGED <<daemon, late, ready, failures>>

ReplaceAnchorKeepingFile(s) ==
    /\ minted < MaxTokens
    /\ minted' = minted + 1
    /\ current' = minted'
    /\ file' = WriteTokenFile(file, s, minted')

(* The anchor for session s takes the place of the present one. *)
ReplaceAnchor(s) ==
    /\ minted < MaxTokens
    /\ minted' = minted + 1
    /\ current' = minted'
    /\ file' = RemoveTokenFile(WriteTokenFile(file, s, minted'), anchors[current].session)

(* session_info_changed of the root, with its new session id: a new anchor *)
(* replaces the old one, which is fenced off and unregistered.  If minting *)
(* fails the old one stays.                                                *)
SessionInfoChanged(t, s) ==
    /\ task[t].pc = "idle"
    /\ ~instances[Root].aborted
    /\ instances' = [instances EXCEPT ![Root].id = s]
    /\ \/ UNCHANGED <<task, wire, ready, anchors, current, file, minted>>
       \/ LET old == anchors[current]
          IN  /\ instances[Root].isOwner /\ current # NoToken /\ s # old.session
              /\ ReplaceAnchor(s)
              /\ LET heap == [anchors EXCEPT ![current].aborted = TRUE,
                                             ![current'] = [NoAnchor EXCEPT
                                                !.session = s,
                                                !.brokerInstance = old.brokerInstance]]
                     r == Fresh("shell", current')
                 IN  IF old.registered
                     THEN /\ Proceed([Aborted(current, {}) EXCEPT ![t] =
                                [r EXCEPT !.kind = "rekey", !.pc = "unregister_hello",
                                          !.session = old.session]])
                          /\ anchors' = heap
                     ELSE EnsureRegistered(Aborted(current, {}), t, r, heap)
              /\ StillReady
    /\ UNCHANGED <<daemon, late, failures>>

(* The finally of session_shutdown, for anchor k. *)
DropAnchor(k) ==
    /\ file' = RemoveTokenFile(file, anchors[k].session)
    /\ current' = NoToken

(* session_shutdown: only the owner tears the anchor down. *)
SessionShutdown(t, i) ==
    /\ task[t].pc = "idle"
    /\ ~instances[i].aborted
    /\ instances' = [instances EXCEPT ![i].aborted = TRUE]
    /\ IF ~instances[i].isOwner \/ current = NoToken
       THEN /\ Proceed(Aborted(NoToken, {i}))
            /\ UNCHANGED <<anchors, current, file>>
       ELSE /\ anchors' = [anchors EXCEPT ![current].aborted = TRUE]
            /\ IF anchors[current].registered
               THEN /\ Proceed([Aborted(current, {i}) EXCEPT ![t] =
                                  [Idle EXCEPT !.kind = "close", !.pc = "unregister_hello",
                                               !.session = anchors[current].session,
                                               !.token = current]])
                    /\ UNCHANGED <<current, file>>
               ELSE /\ Proceed(Aborted(current, {i}))
                    /\ DropAnchor(current)
    /\ StillReady
    /\ UNCHANGED <<daemon, late, minted, failures>>

-----------------------------------------------------------------------------
(* Replies resume the hooks. *)

(* An unreachable broker leaves the belief as it is. *)
ProbeReturns(t) ==
    /\ Resumed(t, "probe")
    /\ UNCHANGED <<daemon, late, instances, current, file, minted, failures>>
    /\ LET heap == IF Reply(t) = "hello" THEN OnInstance(wire[t].instance) ELSE anchors
       IN  IF heap[task[t].registering].registered
           THEN /\ Proceed([task EXCEPT ![t] = Ensured(@)])
                /\ anchors' = heap
           ELSE RegisterOrJoin(task, t, task[t], heap)

RegisterHelloReturns(t) ==
    /\ Resumed(t, "register_hello")
    /\ IF Reply(t) = "hello"
       THEN /\ Proceed([task EXCEPT ![t].pc = "register"])
            /\ anchors' = OnInstance(wire[t].instance)
       ELSE Settle(t, FALSE, anchors)
    /\ UNCHANGED <<daemon, late, instances, current, file, minted, failures>>

RegisterReturnsUnchecked(t) ==
    /\ Resumed(t, "register")
    /\ UNCHANGED <<daemon, late, instances, current, file, minted, failures>>
    /\ Settle(t, Reply(t) = "ok",
              [anchors EXCEPT ![task[t].registering].registered = @ \/ Reply(t) = "ok"])

(* A registration for an anchor that was retired meanwhile is taken back.  *)
RegisterReturns(t) ==
    /\ Resumed(t, "register")
    /\ UNCHANGED <<daemon, late, instances, current, file, minted, failures>>
    /\ LET k == task[t].registering
       IN  IF Reply(t) # "ok" THEN Settle(t, FALSE, anchors)
           ELSE IF Live(k, anchors)
           THEN Settle(t, TRUE, [anchors EXCEPT ![k].registered = TRUE])
           ELSE /\ Proceed([task EXCEPT ![t].pc = "undo_hello"])
                /\ UNCHANGED anchors

UndoHelloReturnsForCurrent(t) ==
    /\ Resumed(t, "undo_hello")
    /\ IF Reply(t) = "hello"
       THEN /\ Proceed([task EXCEPT ![t].pc = "undo",
                  ![t].session = IF current = NoToken THEN @ ELSE anchors[current].session])
            /\ anchors' = OnInstance(wire[t].instance)
       ELSE Settle(t, FALSE, anchors)
    /\ UNCHANGED <<daemon, late, instances, current, file, minted, failures>>

UndoHelloReturns(t) ==
    /\ Resumed(t, "undo_hello")
    /\ IF Reply(t) = "hello"
       THEN /\ Proceed([task EXCEPT ![t].pc = "undo"])
            /\ anchors' = OnInstance(wire[t].instance)
       ELSE Settle(t, FALSE, anchors)
    /\ UNCHANGED <<daemon, late, instances, current, file, minted, failures>>

UndoReturns(t) ==
    /\ Resumed(t, "undo")
    /\ Settle(t, FALSE, anchors)
    /\ UNCHANGED <<daemon, late, instances, current, file, minted, failures>>

RequestHelloReturns(t) ==
    /\ Resumed(t, "request_hello")
    /\ IF Reply(t) = "hello"
       THEN /\ Proceed([task EXCEPT ![t].pc = "request"])
            /\ anchors' = OnInstance(wire[t].instance)
       ELSE /\ Proceed([task EXCEPT ![t] = Idle])
            /\ UNCHANGED anchors
    /\ UNCHANGED <<daemon, late, instances, current, file, minted, failures>>

RequestReturnsKeepingBelief(t) ==
    /\ Resumed(t, "request")
    /\ UNCHANGED <<daemon, late, instances, current, file, minted, failures>>
    /\ IF Reply(t) = "unknown_token" /\ ~task[t].retried /\ Live(task[t].token, anchors)
       THEN EnsureRegistered(task, t, [task[t] EXCEPT !.retried = TRUE], anchors)
       ELSE Proceed([task EXCEPT ![t] = Idle]) /\ UNCHANGED anchors

(* requestSecret registers again, once, when the daemon does not know the  *)
(* token.                                                                  *)
RequestReturns(t) ==
    /\ Resumed(t, "request")
    /\ UNCHANGED <<daemon, late, instances, current, file, minted, failures>>
    /\ LET k == task[t].token
       IN  IF Reply(t) = "unknown_token" /\ ~task[t].retried /\ Live(k, anchors)
           THEN EnsureRegistered(task, t, [task[t] EXCEPT !.retried = TRUE],
                                 [anchors EXCEPT ![k].registered = FALSE])
           ELSE /\ Proceed([task EXCEPT ![t] = Idle])
                /\ UNCHANGED anchors

(* The UNREGISTER of a shutdown or of a re-key has ended, well or not. *)
TornDown(t, heap) ==
    IF task[t].kind = "close"
    THEN /\ DropAnchor(task[t].token)
         /\ Proceed([task EXCEPT ![t] = Idle])
         /\ anchors' = heap
    ELSE /\ UNCHANGED <<current, file>>
         /\ EnsureRegistered(task, t, Fresh("shell", task[t].registering), heap)

UnregisterHelloReturns(t) ==
    /\ Resumed(t, "unregister_hello")
    /\ IF Reply(t) = "hello"
       THEN /\ Proceed([task EXCEPT ![t].pc = "unregister"])
            /\ anchors' = OnInstance(wire[t].instance)
            /\ UNCHANGED <<current, file>>
       ELSE TornDown(t, anchors)
    /\ UNCHANGED <<daemon, late, instances, minted, failures>>

UnregisterReturns(t) ==
    /\ Resumed(t, "unregister")
    /\ TornDown(t, anchors)
    /\ UNCHANGED <<daemon, late, instances, minted, failures>>

(* logind removes the runtime directory. *)
FileVanishes(s) ==
    /\ file[s] # NoToken
    /\ file' = [file EXCEPT ![s] = NoToken]
    /\ UNCHANGED <<linkVars, instances, anchors, current, minted, failures>>

-----------------------------------------------------------------------------
Begin(t) ==
    \/ Spawn(t)
    \/ \E i \in Instances : SessionStart(t, i) \/ SecretsRequest(t, i) \/ SessionShutdown(t, i)
    \/ \E s \in (Sessions \ Instances) \cup {Root} : SessionInfoChanged(t, s)

Resume(t) ==
    \/ ProbeReturns(t)
    \/ RegisterHelloReturns(t)
    \/ RegisterReturns(t)
    \/ UndoHelloReturns(t)
    \/ UndoReturns(t)
    \/ RequestHelloReturns(t)
    \/ RequestReturns(t)
    \/ UnregisterHelloReturns(t)
    \/ UnregisterReturns(t)

Outside(action) == action /\ UNCHANGED local

Faults == failures + daemon.instance - 1

Fails(t) ==
    /\ Faults < MaxFaults
    /\ LineFails(t)
    /\ failures' = failures + 1
    /\ UNCHANGED <<instances, anchors, current, file, minted>>

Next ==
    \/ \E t \in Tasks : Begin(t) \/ Resume(t) \/ Fails(t) \/ Outside(Handle(t))
    \/ \E s \in Sessions : FileVanishes(s)
    \/ Outside(Poll)
    \/ \E m \in late : Outside(HandleLate(m))
    \/ Faults < MaxFaults /\ Outside(Restart)

Spec == Init /\ [][Next]_vars

-----------------------------------------------------------------------------
Quiet == \A t \in Tasks : task[t].pc = "idle"

(* Teardown is complete: as long as no call has failed and the daemon has  *)
(* not restarted, once nothing is under way the daemon holds no token but  *)
(* that of the present anchor, whatever was being registered when a        *)
(* shutdown or a re-key retired its anchor.                                *)
RetiredIsGone ==
    (Quiet /\ failures = 0 /\ daemon.instance = 1)
    => \A s \in Sessions : daemon.token[s] \in {NoToken, current}

(* A request under way is for an anchor that is still the process's one:   *)
(* the fence fails the others before the token file and the registration   *)
(* go, so that none brings a retired anchor back.                          *)
RequestsOnLiveAnchor ==
    \A t \in Tasks : task[t].pc \in {"request_hello", "request"}
                     => task[t].token = current /\ ~anchors[current].aborted

(* The only token file is that of the present anchor. *)
OnlyAnchorsFile ==
    \A s \in Sessions : file[s] # NoToken
                        => file[s] = current /\ anchors[current].session = s

(* While it is the process's anchor, and no anchor before it was for the   *)
(* same session, its registration ends only with the daemon process:       *)
(* nothing that was sent for other anchors displaces or drops it.          *)
AnchorRegistrationKept ==
    [][\A k \in Tokens :
          /\ k = current /\ ~anchors[k].aborted
          /\ \A j \in 1..(k - 1) : anchors[j].session # anchors[k].session
          /\ daemon.token[anchors[k].session] = k
          /\ daemon'.instance = daemon.instance
          => daemon'.token[anchors[k].session] = k]_vars

(* The retry heals every restart from before the tool call: UNKNOWN_TOKEN  *)
(* gets to the agent only if the daemon restarted, or the token was        *)
(* dropped, since the tool has the token.  A restart during the call is    *)
(* excused: the retry may join a registration that it has just undone.     *)
RetryHeals ==
    \A t \in Tasks :
        /\ task[t].pc = "request" /\ task[t].retried
        /\ wire[t].reply = "unknown_token"
        => task[t].disturbed

=============================================================================
