---------------------------- MODULE HarnessLink ----------------------------
(***************************************************************************)
(* The broker connection of an agent harness: class BrokerClient of        *)
(* src/opencode/plugins/secretsd.ts, which the omp extension imports, the  *)
(* event loop that resumes the harness's asynchronous functions, and what  *)
(* the harness can observe of the daemon.                                  *)
(*                                                                         *)
(* An asynchronous function is a task; what it awaits is its pc.  Between  *)
(* two awaits a task runs without interruption.  Every command is a HELLO  *)
(* followed by the command itself, each on a connection of its own.        *)
(***************************************************************************)
EXTENDS Naturals, FiniteSets

CONSTANTS
    Tasks,        \* asynchronous functions that may run at the same time
    Sessions,     \* session ids
    None,
    MaxTokens,    \* bound on the tokens minted
    MaxInstances  \* bound on the daemon processes

ASSUME LinkAssumption ==
    /\ None \notin Tasks \cup Sessions
    /\ MaxTokens \in Nat
    /\ MaxInstances \in Nat \ {0}

VARIABLES
    daemon,  \* the daemon: which process it is and the token of each session
    task,    \* the harness's tasks
    wire,    \* the call that each task awaits
    late,    \* commands whose caller gave up before the daemon read them
    ready    \* tasks whose reply the present round of the event loop delivers

linkVars == <<daemon, task, wire, late, ready>>

-----------------------------------------------------------------------------
NoToken == 0
Tokens == 1..MaxTokens

Daemon == [instance : 1..MaxInstances, token : [Sessions -> Tokens \cup {NoToken}]]

(* An undo is the UNREGISTER by which the omp extension takes back a        *)
(* REGISTER that came too late.                                            *)
HelloPcs == {"probe", "register_hello", "request_hello", "unregister_hello", "undo_hello"}
CommandPcs == {"register", "request", "unregister", "undo"}

(* token is the one a request or a teardown was started with, registering  *)
(* the one that ensureRegistered works for.  A task with pc joined awaits  *)
(* the registration that the task owner runs.  by is the extension         *)
(* instance that a tool runs in.  disturbed is history: since the task has *)
(* its token the daemon restarted or dropped that token.                   *)
Task == [kind        : {"none", "shell", "tool", "close", "rekey"},
         pc          : {"idle", "joined"} \cup HelloPcs \cup CommandPcs,
         session     : Sessions \cup {None},
         token       : Tokens \cup {NoToken},
         registering : Tokens \cup {NoToken},
         owner       : Tasks \cup {None},
         by          : Sessions \cup {None},
         retried     : BOOLEAN,
         disturbed   : BOOLEAN]

Idle == [kind |-> "none", pc |-> "idle", session |-> None, token |-> NoToken,
         registering |-> NoToken, owner |-> None, by |-> None, retried |-> FALSE,
         disturbed |-> FALSE]

Replies == {"none", "hello", "ok", "unknown_token", "answered", "failed"}

(* instance is that of a HELLO reply. *)
Call == [phase : {"none", "sent", "replied"}, reply : Replies,
         instance : 0..MaxInstances]

NoCall == [phase |-> "none", reply |-> "none", instance |-> 0]
Sent == [NoCall EXCEPT !.phase = "sent"]

(* A command that changes the daemon: REGISTER, or UNREGISTER with no token. *)
Command == [session : Sessions, token : Tokens \cup {NoToken}]

LinkTypeOK ==
    /\ daemon \in Daemon
    /\ task \in [Tasks -> Task]
    /\ wire \in [Tasks -> Call]
    /\ late \subseteq Command
    /\ ready \subseteq Tasks

LinkInit ==
    /\ daemon = [instance |-> 1, token |-> [s \in Sessions |-> NoToken]]
    /\ task = [t \in Tasks |-> Idle]
    /\ wire = [t \in Tasks |-> NoCall]
    /\ late = {}
    /\ ready = {}

-----------------------------------------------------------------------------
(* The harness's side. *)

(* A task that moves on to a pc which awaits the broker opens a connection *)
(* and writes its line; one that does not has no call.                     *)
Proceed(tasks) ==
    /\ task' = tasks
    /\ wire' = [t \in Tasks |->
                  IF tasks[t].pc = task[t].pc THEN wire[t]
                  ELSE IF tasks[t].pc \in HelloPcs \cup CommandPcs THEN Sent
                  ELSE NoCall]

(* The reply that resumes task t at pc. *)
Resumed(t, pc) ==
    /\ task[t].pc = pc
    /\ t \in ready
    /\ ready' = ready \ {t}

Reply(t) == wire[t].reply

(* issueTokenFile and restoreTokenFile stage the token and rename: a reader *)
(* of the token files finds the whole token or none.                       *)
WriteTokenFile(files, s, token) == [files EXCEPT ![s] = token]

RemoveTokenFile(files, s) == [files EXCEPT ![s] = NoToken]

(* One round of the event loop takes all the replies that have arrived.    *)
Poll ==
    /\ ready = {}
    /\ ready' = {t \in Tasks : wire[t].phase = "replied"}
    /\ ready' # {}
    /\ UNCHANGED <<daemon, task, wire, late>>

LineNeverTimesOut(t) ==
    /\ wire[t].phase = "replied"
    /\ t \notin ready
    /\ wire' = [wire EXCEPT ![t] = [NoCall EXCEPT !.phase = "replied", !.reply = "failed"]]
    /\ UNCHANGED <<daemon, task, late, ready>>

(* The line is rejected: the timer fires, the connection is refused or     *)
(* closed, the reply is not the expected one.  The daemon may still get to *)
(* read a command that was given up.                                       *)
LineFails(t) ==
    /\ wire[t].phase \in {"sent", "replied"}
    /\ t \notin ready
    /\ wire' = [wire EXCEPT ![t] = [NoCall EXCEPT !.phase = "replied", !.reply = "failed"]]
    /\ \/ UNCHANGED late
       \/ /\ wire[t].phase = "sent"
          /\ task[t].pc \in {"register", "unregister", "undo"}
          /\ late' = late \cup {[session |-> task[t].session,
                                 token |-> IF task[t].pc = "register"
                                           THEN task[t].registering ELSE NoToken]}
    /\ UNCHANGED <<daemon, task, ready>>

-----------------------------------------------------------------------------
(* The daemon's side. *)

Disturb(tokens) ==
    task' = [t \in Tasks |-> [task[t] EXCEPT !.disturbed = @ \/ task[t].token \in tokens]]

(* Registry::register displaces the session's previous token. *)
Perform(m) ==
    /\ daemon' = [daemon EXCEPT !.token[m.session] = m.token]
    /\ Disturb({daemon.token[m.session]} \ {m.token, NoToken})

Replied(t, reply) ==
    wire' = [wire EXCEPT ![t] =
               [phase |-> "replied", reply |-> reply,
                instance |-> IF reply = "hello" THEN daemon.instance ELSE 0]]

HandleHello(t) ==
    /\ task[t].pc \in HelloPcs
    /\ Replied(t, "hello")
    /\ UNCHANGED <<daemon, task>>

HandleRegister(t) ==
    /\ task[t].pc = "register"
    /\ Perform([session |-> task[t].session, token |-> task[t].registering])
    /\ Replied(t, "ok")

HandleUnregister(t) ==
    /\ task[t].pc \in {"unregister", "undo"}
    /\ Perform([session |-> task[t].session, token |-> NoToken])
    /\ Replied(t, "ok")

(* REQUEST is granted or refused, unless its token names no registration.  *)
HandleRequest(t) ==
    /\ task[t].pc = "request"
    /\ Replied(t, IF \E s \in Sessions : daemon.token[s] = task[t].token
                  THEN "answered" ELSE "unknown_token")
    /\ UNCHANGED <<daemon, task>>

Handle(t) ==
    /\ wire[t].phase = "sent"
    /\ HandleHello(t) \/ HandleRegister(t) \/ HandleUnregister(t) \/ HandleRequest(t)
    /\ UNCHANGED <<late, ready>>

HandleLate(m) ==
    /\ m \in late
    /\ late' = late \ {m}
    /\ Perform(m)
    /\ UNCHANGED <<wire, ready>>

(* systemd starts the daemon again; what waits in the listening socket is  *)
(* read by the new process.                                                *)
Restart ==
    /\ daemon.instance < MaxInstances
    /\ daemon' = [instance |-> daemon.instance + 1,
                  token |-> [s \in Sessions |-> NoToken]]
    /\ Disturb(Tokens)
    /\ UNCHANGED <<wire, late, ready>>

=============================================================================
