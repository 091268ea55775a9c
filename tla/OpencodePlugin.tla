--------------------------- MODULE OpencodePlugin ---------------------------
(***************************************************************************)
(* The OpenCode plugin (createSecretsdPlugin in                            *)
(* src/opencode/plugins/secretsd.ts): it mints a token for each session,   *)
(* keeps the token in a file for the command-line client, and registers it *)
(* with a daemon that may restart, and lose every registration, any time.  *)
(***************************************************************************)
EXTENDS HarnessLink

VARIABLES
    states,          \* states: the token of each known session
    file,            \* the token files
    registered,      \* registered: sessions believed to be registered
    registrations,   \* registrations: the task that registers a session
    brokerInstance,  \* brokerInstance, 0 before the first handshake
    minted,          \* how many tokens were minted
    aborted,         \* requestAbort
    deleted          \* the sessions that OpenCode has deleted

memory == <<states, file, registered, registrations, brokerInstance, minted, aborted>>
vars == <<linkVars, memory, deleted>>

TypeOK ==
    /\ LinkTypeOK
    /\ states \in [Sessions -> Tokens \cup {NoToken}]
    /\ file \in [Sessions -> Tokens \cup {NoToken}]
    /\ registered \subseteq Sessions
    /\ registrations \in [Sessions -> Tasks \cup {None}]
    /\ brokerInstance \in 0..MaxInstances
    /\ minted \in 0..MaxTokens
    /\ aborted \in BOOLEAN
    /\ deleted \subseteq Sessions

Init ==
    /\ LinkInit
    /\ states = [s \in Sessions |-> NoToken]
    /\ file = [s \in Sessions |-> NoToken]
    /\ registered = {}
    /\ registrations = [s \in Sessions |-> None]
    /\ brokerInstance = 0
    /\ minted = 0
    /\ aborted = FALSE
    /\ deleted = {}

-----------------------------------------------------------------------------
(* The closure's functions. *)

EnsureStateReissues(s) ==
    /\ (states[s] = NoToken \/ file[s] = NoToken) => minted < MaxTokens
    /\ IF states[s] = NoToken \/ file[s] = NoToken
       THEN /\ minted' = minted + 1
            /\ states' = [states EXCEPT ![s] = minted']
            /\ file' = WriteTokenFile(file, s, minted')
       ELSE UNCHANGED <<minted, states, file>>

(* A known session keeps its token, and gets its file back if it is gone.  *)
EnsureState(s) ==
    /\ states[s] = NoToken => minted < MaxTokens
    /\ minted' = IF states[s] = NoToken THEN minted + 1 ELSE minted
    /\ states' = [states EXCEPT ![s] = IF @ = NoToken THEN minted' ELSE @]
    /\ file' = IF file[s] = NoToken \/ states[s] = NoToken
               THEN WriteTokenFile(file, s, states'[s]) ELSE file

(* The callback of every handshake: another process answered, so nothing   *)
(* is registered.                                                          *)
OnInstance(i) ==
    /\ brokerInstance' = i
    /\ registered' = IF brokerInstance \notin {0, i} THEN {} ELSE registered

(* The part of ensureRegistered after the belief was found wanting, for    *)
(* task t in state r.                                                      *)
RegisterOrJoin(t, r) ==
    LET s == r.session
    IN  IF registrations[s] # None
        THEN /\ Proceed([task EXCEPT ![t] = [r EXCEPT !.pc = "joined",
                                                      !.owner = registrations[s]]])
             /\ UNCHANGED registrations
        ELSE /\ Proceed([task EXCEPT ![t] = [r EXCEPT !.pc = "register_hello"]])
             /\ registrations' = [registrations EXCEPT ![s] = t]

EnsureRegistered(t, r, believed) ==
    LET q == [r EXCEPT !.registering = states'[r.session]]
    IN  IF r.session \in believed
        THEN Proceed([task EXCEPT ![t] = [q EXCEPT !.pc = "probe"]])
             /\ UNCHANGED registrations
        ELSE RegisterOrJoin(t, q)

(* What follows await ensureRegistered: a shell is done, a tool requests,  *)
(* with the state that its first ensureRegistered returned.                *)
Ensured(r, token) ==
    IF r.kind # "tool" \/ aborted THEN Idle
    ELSE [r EXCEPT !.pc = "request_hello", !.owner = None,
                   !.token = IF r.retried THEN @ ELSE token]

(* The registration that task t runs is over, for it and for those who     *)
(* joined it.                                                              *)
Settle(t, ok) ==
    /\ registrations' = [registrations EXCEPT ![task[t].session] = None]
    /\ Proceed([u \in Tasks |->
                  IF u = t \/ (task[u].pc = "joined" /\ task[u].owner = t)
                  THEN IF ok THEN Ensured(task[u], task[t].registering) ELSE Idle
                  ELSE task[u]])

RemoveStateKeepsFile(s) ==
    /\ states' = [states EXCEPT ![s] = NoToken]
    /\ registered' = registered \ {s}
    /\ registrations' = [registrations EXCEPT ![s] = None]
    /\ UNCHANGED file

RemoveState(s) ==
    /\ file' = RemoveTokenFile(file, s)
    /\ states' = [states EXCEPT ![s] = NoToken]
    /\ registered' = registered \ {s}
    /\ registrations' = [registrations EXCEPT ![s] = None]

-----------------------------------------------------------------------------
(* The hooks, one action for each stretch between two awaits. *)

(* shell.env and secrets_request; OpenCode calls neither for a session     *)
(* that it has deleted.                                                    *)
Hook(t, kind, s) ==
    /\ task[t].pc = "idle"
    /\ s \notin deleted
    /\ EnsureState(s)
    /\ EnsureRegistered(t, [Idle EXCEPT !.kind = kind, !.session = s], registered)
    /\ UNCHANGED <<daemon, late, ready, registered, brokerInstance, aborted, deleted>>

(* An unreachable broker leaves the belief as it is. *)
ProbeReturns(t) ==
    /\ Resumed(t, "probe")
    /\ IF Reply(t) = "hello" THEN OnInstance(wire[t].instance)
       ELSE UNCHANGED <<registered, brokerInstance>>
    /\ IF task[t].session \in registered'
       THEN /\ Proceed([task EXCEPT ![t] = Ensured(@, @.registering)])
            /\ UNCHANGED registrations
       ELSE RegisterOrJoin(t, task[t])
    /\ UNCHANGED <<daemon, late, states, file, minted, aborted, deleted>>

RegisterHelloReturns(t) ==
    /\ Resumed(t, "register_hello")
    /\ IF Reply(t) = "hello"
       THEN /\ OnInstance(wire[t].instance)
            /\ Proceed([task EXCEPT ![t].pc = "register"])
            /\ UNCHANGED registrations
       ELSE /\ Settle(t, FALSE)
            /\ UNCHANGED <<registered, brokerInstance>>
    /\ UNCHANGED <<daemon, late, states, file, minted, aborted, deleted>>

RegisterReturns(t) ==
    /\ Resumed(t, "register")
    /\ Settle(t, Reply(t) = "ok")
    /\ registered' = IF Reply(t) = "ok" THEN registered \cup {task[t].session}
                     ELSE registered
    /\ UNCHANGED <<daemon, late, states, file, brokerInstance, minted, aborted,
                   deleted>>

RequestHelloReturns(t) ==
    /\ Resumed(t, "request_hello")
    /\ IF Reply(t) = "hello"
       THEN /\ OnInstance(wire[t].instance)
            /\ Proceed([task EXCEPT ![t].pc = "request"])
       ELSE /\ Proceed([task EXCEPT ![t] = Idle])
            /\ UNCHANGED <<registered, brokerInstance>>
    /\ UNCHANGED <<daemon, late, states, file, registrations, minted, aborted,
                   deleted>>

RequestReturnsKeepingBelief(t) ==
    /\ Resumed(t, "request")
    /\ LET s == task[t].session
       IN  IF Reply(t) = "unknown_token" /\ ~task[t].retried
           THEN /\ EnsureState(s)
                /\ EnsureRegistered(t, [task[t] EXCEPT !.retried = TRUE], registered)
           ELSE /\ Proceed([task EXCEPT ![t] = Idle])
                /\ UNCHANGED <<registrations, states, file, minted>>
    /\ UNCHANGED <<daemon, late, registered, brokerInstance, aborted, deleted>>

(* requestSecret registers again, once, when the daemon does not know the  *)
(* token; it then repeats the request for the token it began with.         *)
RequestReturns(t) ==
    /\ Resumed(t, "request")
    /\ LET s == task[t].session
       IN  IF Reply(t) = "unknown_token" /\ ~task[t].retried
           THEN /\ registered' = registered \ {s}
                /\ \/ /\ EnsureState(s)
                      /\ EnsureRegistered(t, [task[t] EXCEPT !.retried = TRUE],
                                          registered')
                   \/ /\ Proceed([task EXCEPT ![t] = Idle])  \* no runtime directory
                      /\ UNCHANGED <<registrations, states, file, minted>>
           ELSE /\ Proceed([task EXCEPT ![t] = Idle])
                /\ UNCHANGED <<registered, registrations, states, file, minted>>
    /\ UNCHANGED <<daemon, late, brokerInstance, aborted, deleted>>

(* event with type session.deleted. *)
SessionDeleted(t, s) ==
    /\ task[t].pc = "idle"
    /\ s \notin deleted
    /\ deleted' = deleted \cup {s}
    /\ Proceed([task EXCEPT ![t] = IF states[s] = NoToken THEN Idle
                                   ELSE [Idle EXCEPT !.kind = "close", !.session = s,
                                                     !.pc = "unregister_hello"]])
    /\ UNCHANGED <<daemon, late, ready, memory>>

UnregisterHelloReturns(t) ==
    /\ Resumed(t, "unregister_hello")
    /\ IF Reply(t) = "hello"
       THEN /\ OnInstance(wire[t].instance)
            /\ Proceed([task EXCEPT ![t].pc = "unregister"])
            /\ UNCHANGED <<states, file, registrations>>
       ELSE /\ RemoveState(task[t].session)
            /\ Proceed([task EXCEPT ![t] = Idle])
            /\ UNCHANGED brokerInstance
    /\ UNCHANGED <<daemon, late, minted, aborted, deleted>>

UnregisterReturns(t) ==
    /\ Resumed(t, "unregister")
    /\ RemoveState(task[t].session)
    /\ Proceed([task EXCEPT ![t] = Idle])
    /\ UNCHANGED <<daemon, late, brokerInstance, minted, aborted, deleted>>

(* Every known session is torn down at the same time, each by a task of    *)
(* its own; requests under way are rejected.                               *)
Dispose ==
    /\ ~aborted
    /\ aborted' = TRUE
    /\ deleted' = Sessions
    /\ LET known == {s \in Sessions : states[s] # NoToken}
           idle == {t \in Tasks : task[t].pc = "idle"}
       IN  \E closer \in [known -> idle] :
             /\ \A s1, s2 \in known : closer[s1] = closer[s2] => s1 = s2
             /\ Proceed([t \in Tasks |->
                  IF \E s \in known : closer[s] = t
                  THEN [Idle EXCEPT !.kind = "close", !.pc = "unregister_hello",
                                    !.session = CHOOSE s \in known : closer[s] = t]
                  ELSE IF task[t].pc \in {"request_hello", "request"} THEN Idle
                  ELSE task[t]])
    /\ ready' = {t \in ready : task'[t] = task[t]}
    /\ UNCHANGED <<daemon, late, states, file, registered, registrations,
                   brokerInstance, minted>>

(* logind removes the runtime directory. *)
FileVanishes(s) ==
    /\ file[s] # NoToken
    /\ file' = [file EXCEPT ![s] = NoToken]
    /\ UNCHANGED <<linkVars, states, registered, registrations, brokerInstance,
                   minted, aborted, deleted>>

-----------------------------------------------------------------------------
Resume(t) ==
    \/ ProbeReturns(t)
    \/ RegisterHelloReturns(t)
    \/ RegisterReturns(t)
    \/ RequestHelloReturns(t)
    \/ RequestReturns(t)
    \/ UnregisterHelloReturns(t)
    \/ UnregisterReturns(t)

Plugin ==
    \/ \E t \in Tasks : Resume(t)
    \/ \E t \in Tasks, s \in Sessions :
          \/ Hook(t, "shell", s)
          \/ Hook(t, "tool", s)
          \/ SessionDeleted(t, s)
    \/ Dispose
    \/ \E s \in Sessions : FileVanishes(s)

Outside(action) == action /\ UNCHANGED <<memory, deleted>>

Environment ==
    \/ Outside(Poll)
    \/ \E t \in Tasks : Outside(LineFails(t)) \/ Outside(Handle(t))
    \/ \E m \in late : Outside(HandleLate(m))
    \/ Outside(Restart)

Next == Plugin \/ Environment

Spec == Init /\ [][Next]_vars

(* Timers fire, the event loop turns and resumed functions run on.  Nothing *)
(* is assumed of the daemon or of OpenCode.                                 *)
FairSpec ==
    /\ Spec
    /\ WF_vars(Outside(Poll))
    /\ \A t \in Tasks : /\ WF_vars(Outside(LineFails(t)))
                        /\ WF_vars(Resume(t))

-----------------------------------------------------------------------------
(* The token file is the one of the session's present state: the client,   *)
(* which reads the file, never presents a token that the plugin has        *)
(* forgotten or replaced.                                                  *)
TokenFileIsCurrent ==
    \A s \in Sessions : file[s] # NoToken => file[s] = states[s]

(* The retry heals every restart from before the tool call, whatever the   *)
(* plugin still believes in, and whatever replies of the previous process  *)
(* resume during it: UNKNOWN_TOKEN gets to the agent of a living session   *)
(* only if the daemon restarted, or the token was dropped, since the tool  *)
(* has the token (requestSecret).  A restart during the call is excused:   *)
(* the retry may join a registration that this restart has just undone.    *)
RetryHeals ==
    \A t \in Tasks :
        /\ task[t].pc = "request" /\ task[t].retried
        /\ wire[t].reply = "unknown_token"
        /\ task[t].session \notin deleted
        => task[t].disturbed

(* While its session lives, a registration ends only with the daemon       *)
(* process: nothing the plugin sends, however late it is read, displaces   *)
(* or drops the token that it still uses, which would revoke its grants.   *)
RegistrationKept ==
    [][\A s \in Sessions \ deleted :
          daemon.token[s] # NoToken /\ daemon'.instance = daemon.instance
              => daemon'.token[s] = daemon.token[s]]_vars

(* Every hook returns, whatever the daemon does. *)
HooksReturn == \A t \in Tasks : []<>(task[t].pc = "idle")

=============================================================================
