---------------------------- MODULE PluginProofs ----------------------------
(***************************************************************************)
(* The OpenCode plugin, for any number of sessions, concurrent hooks,      *)
(* tokens and daemon processes: its token file is current, nothing it      *)
(* sends ends the registration of a living session, and its one retry      *)
(* heals every restart of the daemon from before the tool call.            *)
(*                                                                         *)
(* A step of the event loop either leaves a task as it is or moves it on;  *)
(* the invariants are shown for the tasks that move, and carried over for  *)
(* the others by TurnKeepsInv and TurnHeals.                               *)
(***************************************************************************)
EXTENDS OpencodePlugin, TLAPS

-----------------------------------------------------------------------------
(* The invariant. *)

RegistrarPcs == {"register_hello", "register"}
EnsuringPcs == {"probe", "joined"} \cup RegistrarPcs
RequestPcs == {"request_hello", "request"}
ClosingPcs == {"unregister_hello", "unregister"}

(* What task t may rely on when it resumes, if it is in state r with the   *)
(* call w, the plugin's tables are st and rg, and the sessions in del were *)
(* deleted: while its session lives, it works for the session's token.     *)
TaskOK(t, r, w, st, rg, del) ==
    /\ r.pc \in {"idle"} \cup EnsuringPcs \cup RequestPcs \cup ClosingPcs
    /\ r.pc # "idle" => r.session \in Sessions
    /\ r.pc \in {"idle", "joined"} => w.phase = "none"
    /\ r.pc = "probe" => ~r.retried
    /\ r.pc \in ClosingPcs => r.session \in del
    /\ r.pc # "idle" /\ r.session \notin del =>
          /\ r.pc \in EnsuringPcs => /\ r.registering = st[r.session]
                                     /\ r.registering # NoToken
          /\ r.pc \in RequestPcs => r.token # NoToken
          /\ r.token \in {NoToken, st[r.session]}
          /\ r.retried => r.token # NoToken
          /\ r.pc \in RegistrarPcs => rg[r.session] = t
          /\ r.pc = "joined" => rg[r.session] = r.owner /\ r.owner # None

(* registrations names the task that runs the registration. *)
Registrar(s) ==
    registrations[s] # None => /\ task[registrations[s]].session = s
                               /\ task[registrations[s]].pc \in RegistrarPcs

CallOK(w) == w.reply = "none" <=> w.phase # "replied"

PluginInv ==
    /\ TypeOK
    /\ \A t \in Tasks : TaskOK(t, task[t], wire[t], states, registrations, deleted)
    /\ \A s \in Sessions \ deleted :
          daemon.token[s] \in {NoToken, states[s]} /\ Registrar(s)
    /\ \A m \in late : m.session \notin deleted =>
                          m.token = states[m.session] /\ m.token # NoToken
    /\ \A t \in ready : wire[t].phase = "replied"
    /\ \A t \in Tasks : CallOK(wire[t])

-----------------------------------------------------------------------------
(* Records. *)

LEMMA RecordTypes ==
    /\ Idle \in Task /\ Idle.pc = "idle"
    /\ NoCall \in Call /\ NoCall.phase = "none" /\ NoCall.reply = "none"
    /\ Sent \in Call /\ Sent.phase = "sent" /\ Sent.reply = "none"
  BY LinkAssumption DEF Idle, Task, NoCall, Sent, Call, Replies, NoToken

(* State p continues state r: for the same session, with the same token. *)
Continues(p, r) ==
    /\ p \in Task
    /\ p.kind = r.kind /\ p.session = r.session /\ p.token = r.token
    /\ p.disturbed = r.disturbed

LEMMA GoesOn ==
    ASSUME NEW r \in Task,
           NEW pc \in {"probe", "register_hello", "register", "request", "unregister"}
    PROVE  LET p == [r EXCEPT !.pc = pc]
           IN  /\ Continues(p, r) /\ p.pc = pc
               /\ p.registering = r.registering /\ p.retried = r.retried
  BY DEF Task, HelloPcs, CommandPcs, Continues

LEMMA JoinsOwner ==
    ASSUME NEW r \in Task, NEW o \in Tasks
    PROVE  LET p == [r EXCEPT !.pc = "joined", !.owner = o]
           IN  /\ Continues(p, r) /\ p.pc = "joined" /\ p.owner = o
               /\ p.registering = r.registering /\ p.retried = r.retried
  BY Zenon DEF Task, Continues

LEMMA WorksFor ==
    ASSUME NEW r \in Task, NEW k \in Tokens \cup {NoToken}
    PROVE  LET p == [r EXCEPT !.registering = k]
           IN  /\ Continues(p, r) /\ p.pc = r.pc
               /\ p.registering = k /\ p.retried = r.retried
  BY DEF Task, Continues

LEMMA Retries ==
    ASSUME NEW r \in Task
    PROVE  LET p == [r EXCEPT !.retried = TRUE]
           IN  /\ Continues(p, r) /\ p.pc = r.pc /\ p.retried
  BY Zenon DEF Task, Continues

(* What follows ensureRegistered. *)
LEMMA EnsuredTask ==
    ASSUME NEW r \in Task, NEW k \in Tokens \cup {NoToken}, NEW p, p = Ensured(r, k)
    PROVE  \/ p = Idle
           \/ /\ p \in Task
              /\ p.pc = "request_hello"
              /\ p.session = r.session
              /\ p.token = IF r.retried THEN r.token ELSE k
              /\ p.retried = r.retried
              /\ p.disturbed = r.disturbed
  <1> DEFINE n == IF r.retried THEN r.token ELSE k
             e == [r EXCEPT !.pc = "request_hello", !.owner = None, !.token = n]
  <1>1. n \in Tokens \cup {NoToken}
    BY DEF Task
  <1>2. p = Idle \/ p = e
    BY DEF Ensured, Task
  <1> HIDE DEF n
  <1>3. /\ e \in Task /\ e.pc = "request_hello" /\ e.session = r.session
        /\ e.token = n /\ e.retried = r.retried /\ e.disturbed = r.disturbed
    BY <1>1, Zenon DEF Task, HelloPcs
  <1> QED
    BY <1>2, <1>3, Zenon DEF n

-----------------------------------------------------------------------------
(* Steps of the event loop. *)

(* Task v is left alone. *)
Kept(v) ==
    /\ task'[v] = task[v] /\ wire'[v] = wire[v]
    /\ v \in ready' <=> v \in ready

(* Task v goes on to its next await, or ends. *)
Moved(v) ==
    /\ v \notin ready'
    /\ wire'[v].phase # "replied" /\ wire'[v].reply = "none"
    /\ TaskOK(v, task'[v], wire'[v], states', registrations', deleted')

LEMMA ProceedMoves ==
    ASSUME TypeOK, NEW f \in [Tasks -> Task], Proceed(f),
           \A t \in Tasks : f[t] = task[t] \/ f[t].pc # task[t].pc
    PROVE  /\ task' = f /\ wire' \in [Tasks -> Call]
           /\ \A t \in Tasks :
                 IF f[t] = task[t] THEN wire'[t] = wire[t]
                 ELSE wire'[t] = IF f[t].pc \in HelloPcs \cup CommandPcs
                                 THEN Sent ELSE NoCall
  <1>1. wire \in [Tasks -> Call] /\ Sent \in Call /\ NoCall \in Call
    BY RecordTypes DEF TypeOK, LinkTypeOK
  <1> QED
    BY <1>1 DEF Proceed

(* Whoever runs or awaits the registration of session s is left with it. *)
RegistrationStays(s) ==
    \/ registrations'[s] = registrations[s]
    \/ registrations[s] = None
    \/ \A v \in Tasks : Kept(v) /\ task[v].session = s =>
                           task[v].pc \notin RegistrarPcs \cup {"joined"}

(* What a step that moves tasks on leaves for the others to rely on. *)
Turn ==
    /\ daemon' = daemon /\ late' = late
    /\ deleted \subseteq deleted'
    /\ \A s \in Sessions \ deleted' :
          /\ states[s] # NoToken => states'[s] = states[s]
          /\ Registrar(s)' /\ RegistrationStays(s)
    /\ \A v \in Tasks : Kept(v) \/ Moved(v)

LEMMA TurnKeepsTask ==
    ASSUME PluginInv, Turn, NEW v \in Tasks, Kept(v)
    PROVE  TaskOK(v, task'[v], wire'[v], states', registrations', deleted')
  <1> DEFINE r == task[v]
  <1>1. /\ r \in Task /\ task'[v] = r /\ wire'[v] = wire[v]
        /\ TaskOK(v, r, wire[v], states, registrations, deleted)
        /\ deleted \subseteq deleted' /\ None \notin Tasks
    BY LinkAssumption DEF PluginInv, TypeOK, LinkTypeOK, Kept, Turn
  <1>2. SUFFICES ASSUME r.pc # "idle", r.session \notin deleted'
                 PROVE  /\ states'[r.session] = states[r.session]
                        /\ r.pc \in RegistrarPcs \cup {"joined"} =>
                              registrations'[r.session] = registrations[r.session]
    BY <1>1 DEF TaskOK, RegistrarPcs
  <1>3. r.session \in Sessions \ deleted' /\ r.session \notin deleted
    BY <1>1, <1>2 DEF TaskOK
  <1>4. states[r.session] # NoToken
    BY <1>1, <1>2, <1>3 DEF TaskOK, EnsuringPcs, RequestPcs, ClosingPcs
  <1>5. r.pc \in RegistrarPcs \cup {"joined"} => registrations[r.session] # None
    BY <1>1, <1>2, <1>3 DEF TaskOK
  <1> QED
    BY <1>3, <1>4, <1>5 DEF Turn, RegistrationStays

LEMMA TurnKeepsInv ==
    ASSUME PluginInv, TypeOK', Turn
    PROVE  PluginInv'
  <1>1. \A v \in Tasks :
           TaskOK(v, task'[v], wire'[v], states', registrations', deleted')
    BY TurnKeepsTask DEF Turn, Moved
  <1>2. \A v \in Tasks : CallOK(wire[v])'
    BY DEF PluginInv, Turn, Kept, Moved, CallOK
  <1>3. \A v \in ready' : wire'[v].phase = "replied"
    BY DEF PluginInv, TypeOK, LinkTypeOK, Turn, Kept, Moved
  <1>4. \A s \in Sessions \ deleted' :
           daemon'.token[s] \in {NoToken, states'[s]} /\ Registrar(s)'
    BY DEF PluginInv, Turn
  <1>5. \A m \in late' : m.session \notin deleted' =>
                              m.token = states'[m.session] /\ m.token # NoToken
    BY DEF PluginInv, Turn, TypeOK, LinkTypeOK, Command
  <1> QED
    BY <1>1, <1>2, <1>3, <1>4, <1>5 DEF PluginInv

-----------------------------------------------------------------------------
(* The retry. *)

(* The daemon has lost a registration that it has confirmed to task u. *)
Stale(u) ==
    /\ task[u].pc = "register" /\ wire[u].reply = "ok"
    /\ daemon.token[task[u].session] # task[u].registering

(* Task t works with a token that it has had since before any restart. *)
Undisturbed(t) ==
    /\ task[t].pc # "idle" /\ task[t].session \notin deleted
    /\ task[t].token # NoToken /\ ~task[t].disturbed

(* A stale confirmation misleads nobody who has the token: they no longer  *)
(* wait for it, and it reaches the plugin before they hear of the request. *)
HealOK(t) ==
    Undisturbed(t) =>
      /\ task[t].retried /\ task[t].pc \in RequestPcs =>
            daemon.token[task[t].session] = task[t].token
      /\ task[t].retried /\ task[t].pc = "request" => wire[t].reply # "unknown_token"
      /\ \A u \in Tasks : Stale(u) /\ task[u].session = task[t].session =>
            \/ task[t].pc = "request_hello" /\ (t \in ready => u \in ready)
            \/ task[t].pc = "request" /\ u \in ready /\ t \notin ready

HealInv == \A t \in Tasks : HealOK(t)

(* How a task with a token that it has had before goes on. *)
Advances(v) ==
    Undisturbed(v)' =>
      \/ /\ task'[v].pc = "request_hello"
         /\ task'[v].retried => daemon.token[task'[v].session] = task'[v].token
      \/ /\ Undisturbed(v)
         /\ task'[v].session = task[v].session /\ task'[v].token = task[v].token
         /\ \/ /\ task'[v].pc = "request" /\ task[v].pc = "request_hello" /\ v \in ready
               /\ task'[v].retried = task[v].retried
            \/ /\ task'[v].pc \notin RequestPcs
               /\ task[v].pc \in RequestPcs => task[v].pc = "request" /\ v \in ready

LEMMA TurnHeals ==
    ASSUME PluginInv, HealInv, Turn, \A v \in Tasks : Kept(v) \/ Advances(v)
    PROVE  HealInv'
  <1> SUFFICES ASSUME NEW t \in Tasks, Undisturbed(t)' PROVE HealOK(t)'
    BY DEF HealInv, HealOK
  <1>1. ASSUME NEW u \in Tasks, Stale(u)' PROVE Kept(u) /\ Stale(u)
    <2>1. wire'[u].reply # "none" /\ daemon' = daemon
      BY <1>1 DEF Stale, Turn
    <2>2. Kept(u)
      BY <2>1 DEF Turn, Moved
    <2> QED
      BY <1>1, <2>1, <2>2 DEF Kept, Stale
  <1>2. HealOK(t) /\ daemon' = daemon /\ deleted \subseteq deleted'
    BY DEF HealInv, Turn
  <1>3. CASE Kept(t)
    <2>1. Undisturbed(t)
      BY <1>2, <1>3 DEF Undisturbed, Kept
    <2> QED
      BY <1>1, <1>2, <1>3, <2>1 DEF HealOK, Kept
  <1>4. CASE ~Kept(t)
    <2>1. Advances(t) /\ t \notin ready' /\ wire'[t].reply = "none"
      BY <1>4 DEF Turn, Moved
    <2>2. CASE /\ task'[t].pc = "request_hello"
               /\ task'[t].retried => daemon.token[task'[t].session] = task'[t].token
      BY <1>2, <2>1, <2>2 DEF HealOK, RequestPcs
    <2>3. CASE /\ Undisturbed(t)
               /\ task'[t].session = task[t].session /\ task'[t].token = task[t].token
               /\ task'[t].pc = "request" /\ task[t].pc = "request_hello" /\ t \in ready
               /\ task'[t].retried = task[t].retried
      <3>1. ASSUME NEW u \in Tasks, Stale(u)', task'[u].session = task'[t].session
            PROVE  u \in ready'
        <4>1. Kept(u) /\ Stale(u) /\ task[u].session = task[t].session
          BY <1>1, <2>3, <3>1 DEF Kept
        <4>2. u \in ready
          BY <1>2, <2>3, <4>1 DEF HealOK
        <4> QED
          BY <4>1, <4>2 DEF Kept
      <3> QED
        BY <1>2, <2>1, <2>3, <3>1 DEF HealOK, RequestPcs
    <2>4. CASE /\ Undisturbed(t)
               /\ task'[t].session = task[t].session /\ task'[t].token = task[t].token
               /\ task'[t].pc \notin RequestPcs
               /\ task[t].pc \in RequestPcs => task[t].pc = "request" /\ t \in ready
      <3>1. \A u \in Tasks : ~(Stale(u)' /\ task'[u].session = task'[t].session)
        <4> SUFFICES ASSUME NEW u \in Tasks, Stale(u)', task'[u].session = task'[t].session
                     PROVE  FALSE
          OBVIOUS
        <4>1. Kept(u) /\ Stale(u) /\ task[u].session = task[t].session
          BY <1>1, <2>4 DEF Kept
        <4> QED
          BY <1>2, <2>4, <4>1 DEF HealOK, RequestPcs
      <3> QED
        BY <2>4, <3>1 DEF HealOK, RequestPcs
    <2> QED
      BY <2>1, <2>2, <2>3, <2>4 DEF Advances
  <1> QED
    BY <1>3, <1>4

-----------------------------------------------------------------------------
(* The steps of one task. *)

(* Task t goes on as p; the others are left alone. *)
OneMoves(t, p) ==
    /\ task' \in [Tasks -> Task] /\ wire' \in [Tasks -> Call] /\ ready' \subseteq Tasks
    /\ task'[t] = p /\ t \notin ready'
    /\ wire'[t].phase # "replied" /\ wire'[t].reply = "none"
    /\ p.pc \in {"idle", "joined"} => wire'[t].phase = "none"
    /\ \A v \in Tasks \ {t} : Kept(v)

LEMMA ProceedOne ==
    ASSUME PluginInv, NEW t \in Tasks, NEW p \in Task, p.pc # task[t].pc,
           Proceed([task EXCEPT ![t] = p]), ready' = ready \ {t}
    PROVE  OneMoves(t, p)
  <1> DEFINE f == [task EXCEPT ![t] = p]
  <1>1. /\ f \in [Tasks -> Task] /\ f[t] = p /\ \A v \in Tasks \ {t} : f[v] = task[v]
        /\ ready \subseteq Tasks /\ TypeOK
    BY DEF PluginInv, TypeOK, LinkTypeOK
  <1>2. Proceed(f)
    OBVIOUS
  <1> HIDE DEF f
  <1>3. /\ task' = f /\ wire' \in [Tasks -> Call]
        /\ \A v \in Tasks : IF f[v] = task[v] THEN wire'[v] = wire[v]
                            ELSE wire'[v] = IF f[v].pc \in HelloPcs \cup CommandPcs
                                            THEN Sent ELSE NoCall
    BY <1>1, <1>2, ProceedMoves
  <1>4. wire'[t] = IF p.pc \in HelloPcs \cup CommandPcs THEN Sent ELSE NoCall
    BY <1>1, <1>3
  <1> QED
    BY <1>1, <1>3, <1>4, RecordTypes DEF OneMoves, Kept, HelloPcs, CommandPcs

(* The daemon is not involved, and living sessions keep their tokens. *)
Quiet ==
    /\ daemon' = daemon /\ late' = late /\ deleted \subseteq deleted'
    /\ \A s \in Sessions \ deleted' : states[s] # NoToken => states'[s] = states[s]

LEMMA OneTurn ==
    ASSUME PluginInv, NEW t \in Tasks, NEW p, OneMoves(t, p), Quiet,
           TaskOK(t, p, wire'[t], states', registrations', deleted'),
           \/ /\ \A x \in Sessions \ deleted' : registrations'[x] = registrations[x]
              /\ task[t].pc \notin RegistrarPcs
           \/ /\ registrations' = registrations
              /\ p.pc \in RegistrarPcs /\ p.session = task[t].session
           \/ /\ p.session \in Sessions /\ p.pc \in RegistrarPcs
              /\ registrations[p.session] = None
              /\ registrations' = [registrations EXCEPT ![p.session] = t]
              /\ task[t].pc \notin RegistrarPcs
    PROVE  Turn
  <1>1. Moved(t) /\ \A v \in Tasks : Kept(v) \/ Moved(v)
    BY DEF OneMoves, Moved
  <1>2. /\ registrations \in [Sessions -> Tasks \cup {None}]
        /\ \A s \in Sessions \ deleted' : Registrar(s)
    BY DEF PluginInv, TypeOK, Quiet
  <1>3. ASSUME NEW s \in Sessions \ deleted' PROVE Registrar(s)' /\ RegistrationStays(s)
    <2>1. CASE registrations'[s] # registrations[s]
      BY <1>2, <2>1 DEF Registrar, RegistrationStays, OneMoves
    <2>2. CASE registrations'[s] = registrations[s]
      <3>1. RegistrationStays(s)
        BY <2>2 DEF RegistrationStays
      <3>2. CASE registrations[s] = None
        BY <2>2, <3>1, <3>2 DEF Registrar
      <3>3. CASE registrations[s] \in Tasks \ {t}
        BY <1>2, <1>3, <2>2, <3>1, <3>3 DEF Registrar, OneMoves, Kept
      <3>4. CASE registrations[s] = t
        <4>1. task[t].session = s /\ task[t].pc \in RegistrarPcs
          BY <1>2, <1>3, <3>4, LinkAssumption DEF Registrar
        <4>2. p.session = s /\ p.pc \in RegistrarPcs
          BY <1>3, <4>1
        <4> QED
          BY <2>2, <3>1, <3>4, <4>2 DEF Registrar, OneMoves
      <3> QED
        BY <1>2, <1>3, <3>2, <3>3, <3>4
    <2> QED
      BY <2>1, <2>2
  <1> QED
    BY <1>1, <1>3 DEF Turn, Quiet

(* A step of the event loop that keeps both invariants. *)
Goes ==
    /\ Turn
    /\ \A v \in Tasks : Kept(v) \/ Advances(v)
    /\ task' \in [Tasks -> Task] /\ wire' \in [Tasks -> Call] /\ ready' \subseteq Tasks
    /\ registrations' \in [Sessions -> Tasks \cup {None}]

LEMMA OneGoes ==
    ASSUME NEW t \in Tasks, NEW p, OneMoves(t, p), Turn, Advances(t),
           registrations' \in [Sessions -> Tasks \cup {None}]
    PROVE  Goes
  BY DEF Goes, OneMoves

LEMMA StateEnsured ==
    ASSUME TypeOK, NEW s \in Sessions, EnsureState(s)
    PROVE  /\ states' \in [Sessions -> Tokens \cup {NoToken}]
           /\ file' \in [Sessions -> Tokens \cup {NoToken}]
           /\ minted' \in 0..MaxTokens
           /\ states'[s] \in Tokens /\ states'[s] # NoToken
           /\ \A x \in Sessions : states[x] # NoToken => states'[x] = states[x]
           /\ TokenFileIsCurrent => TokenFileIsCurrent'
  <1>1. /\ minted \in Nat /\ MaxTokens \in Nat /\ minted \in 0..MaxTokens
        /\ states \in [Sessions -> Tokens \cup {NoToken}]
        /\ file \in [Sessions -> Tokens \cup {NoToken}]
    BY LinkAssumption DEF TypeOK
  <1>2. minted' \in 0..MaxTokens /\ (states[s] = NoToken => minted' \in Tokens)
    BY <1>1 DEF EnsureState, Tokens
  <1>3. /\ states' \in [Sessions -> Tokens \cup {NoToken}]
        /\ states'[s] = IF states[s] = NoToken THEN minted' ELSE states[s]
        /\ \A x \in Sessions \ {s} : states'[x] = states[x]
    BY <1>1, <1>2 DEF EnsureState
  <1>4. states'[s] \in Tokens /\ states'[s] # NoToken
    BY <1>1, <1>2, <1>3 DEF Tokens, NoToken
  <1>5. /\ file' \in [Sessions -> Tokens \cup {NoToken}]
        /\ \A x \in Sessions \ {s} : file'[x] = file[x]
        /\ file'[s] = states'[s] \/ (file'[s] = file[s] /\ states'[s] = states[s])
    <2>1. CASE file[s] = NoToken \/ states[s] = NoToken
      BY <1>1, <1>4, <2>1 DEF EnsureState, WriteTokenFile
    <2>2. CASE ~(file[s] = NoToken \/ states[s] = NoToken)
      BY <1>1, <1>3, <2>2 DEF EnsureState
    <2> QED
      BY <2>1, <2>2
  <1>6. TokenFileIsCurrent => TokenFileIsCurrent'
    BY <1>3, <1>5 DEF TokenFileIsCurrent
  <1> QED
    BY <1>2, <1>3, <1>4, <1>5, <1>6

(* What task t carries over into state r, if r has a token. *)
Carried(t, r) ==
    r.token # NoToken /\ ~r.disturbed /\ r.session \notin deleted =>
      /\ Undisturbed(t)
      /\ r.session = task[t].session /\ r.token = task[t].token
      /\ task[t].pc \in RequestPcs => task[t].pc = "request" /\ t \in ready

LEMMA JoinGoes ==
    ASSUME PluginInv, NEW t \in Tasks, NEW r \in Task, RegisterOrJoin(t, r),
           ready' = ready \ {t}, Quiet, deleted' = deleted, Carried(t, r),
           task[t].pc \in {"idle", "probe", "request"}, r.session \in Sessions,
           r.session \notin deleted => /\ r.registering = states'[r.session]
                                       /\ r.registering # NoToken
                                       /\ r.token \in {NoToken, states'[r.session]}
                                       /\ r.retried => r.token # NoToken
    PROVE  Goes
  <1> DEFINE s == r.session
  <1>1. registrations \in [Sessions -> Tasks \cup {None}] /\ s \in Sessions
    BY DEF PluginInv, TypeOK
  <1>2. CASE registrations[s] # None
    <2>1. PICK p : p = [r EXCEPT !.pc = "joined", !.owner = registrations[s]]
      OBVIOUS
    <2>2. /\ Continues(p, r) /\ p.pc = "joined" /\ p.owner = registrations[s]
          /\ p.registering = r.registering /\ p.retried = r.retried
      BY <1>1, <1>2, <2>1, JoinsOwner, Zenon
    <2>3. OneMoves(t, p)
      BY <1>2, <2>1, <2>2, ProceedOne, Zenon DEF RegisterOrJoin, Continues
    <2>4. registrations' = registrations
      BY <1>2 DEF RegisterOrJoin
    <2>5. TaskOK(t, p, wire'[t], states', registrations', deleted')
      BY <1>1, <1>2, <2>2, <2>3, <2>4
         DEF TaskOK, Continues, OneMoves, EnsuringPcs, RegistrarPcs, RequestPcs, ClosingPcs
    <2>6. Turn
      BY <2>3, <2>4, <2>5, OneTurn, Zenon DEF RegistrarPcs
    <2>7. Advances(t)
      BY <1>1, <2>2, <2>3, Zenon
         DEF Advances, Carried, Undisturbed, OneMoves, Continues, RequestPcs
    <2> QED
      BY <1>1, <2>3, <2>4, <2>6, <2>7, OneGoes
  <1>3. CASE registrations[s] = None
    <2>1. PICK p : p = [r EXCEPT !.pc = "register_hello"]
      BY Zenon
    <2>2. /\ Continues(p, r) /\ p.pc = "register_hello"
          /\ p.registering = r.registering /\ p.retried = r.retried
      BY <2>1, GoesOn, Zenon
    <2>3. OneMoves(t, p)
      BY <1>3, <2>1, <2>2, ProceedOne, Zenon DEF RegisterOrJoin, Continues
    <2>4. /\ registrations' = [registrations EXCEPT ![p.session] = t]
          /\ p.session = s /\ registrations'[s] = t
          /\ registrations' \in [Sessions -> Tasks \cup {None}]
      BY <1>1, <1>3, <2>2, Zenon DEF RegisterOrJoin, Continues
    <2>5. TaskOK(t, p, wire'[t], states', registrations', deleted')
      BY <1>1, <2>2, <2>3, <2>4
         DEF TaskOK, Continues, OneMoves, EnsuringPcs, RegistrarPcs, RequestPcs, ClosingPcs
    <2>6. Turn
      BY <1>3, <2>2, <2>3, <2>4, <2>5, OneTurn, Zenon DEF RegistrarPcs
    <2>7. Advances(t)
      BY <1>1, <2>2, <2>3
         DEF Advances, Carried, Undisturbed, OneMoves, Continues, RequestPcs
    <2> QED
      BY <2>3, <2>4, <2>6, <2>7, OneGoes
  <1> QED
    BY <1>2, <1>3

(* The rest of the plugin's memory has its type. *)
MemoryOK ==
    /\ states \in [Sessions -> Tokens \cup {NoToken}]
    /\ file \in [Sessions -> Tokens \cup {NoToken}]
    /\ registered \subseteq Sessions
    /\ brokerInstance \in 0..MaxInstances
    /\ minted \in 0..MaxTokens
    /\ aborted \in BOOLEAN
    /\ deleted \subseteq Sessions

LEMMA GoesKeeps ==
    ASSUME PluginInv, HealInv, Goes, MemoryOK'
    PROVE  PluginInv' /\ HealInv'
  <1>1. TypeOK'
    BY DEF PluginInv, TypeOK, LinkTypeOK, Goes, MemoryOK, Turn
  <1> QED
    BY <1>1, TurnKeepsInv, TurnHeals, Zenon DEF Goes

(* What task t knows when it resumes. *)
LEMMA TaskFacts ==
    ASSUME PluginInv, NEW t \in Tasks
    PROVE  /\ task[t] \in Task /\ wire[t] \in Call
           /\ TaskOK(t, task[t], wire[t], states, registrations, deleted)
           /\ task[t].pc = "idle" => t \notin ready
           /\ MemoryOK /\ TypeOK
           /\ registrations \in [Sessions -> Tasks \cup {None}]
  BY ZenonT(30) DEF PluginInv, TypeOK, LinkTypeOK, TaskOK, MemoryOK

LEMMA InstanceSeen ==
    ASSUME PluginInv, NEW t \in Tasks, OnInstance(wire[t].instance)
    PROVE  brokerInstance' \in 0..MaxInstances /\ registered' \subseteq Sessions
  BY TaskFacts, Zenon DEF OnInstance, MemoryOK, Call

(* The state in which a hook awaits ensureRegistered. *)
StartedFrom(i, kind, s) == [i EXCEPT !.kind = kind, !.session = s]
Started(kind, s) == StartedFrom(Idle, kind, s)
WorkingFor(r, k) == [r EXCEPT !.registering = k]

LEMMA StartsFor ==
    ASSUME NEW i \in Task, NEW kind \in {"shell", "tool"}, NEW s \in Sessions
    PROVE  /\ StartedFrom(i, kind, s) \in Task
           /\ StartedFrom(i, kind, s).session = s
           /\ StartedFrom(i, kind, s).token = i.token
           /\ StartedFrom(i, kind, s).retried = i.retried
  BY ZenonT(30) DEF Task, StartedFrom

LEMMA HookStarts ==
    ASSUME NEW kind \in {"shell", "tool"}, NEW s \in Sessions,
           NEW k \in Tokens \cup {NoToken}, NEW q, q = WorkingFor(Started(kind, s), k)
    PROVE  /\ Started(kind, s).session = s
           /\ q \in Task /\ q.session = s /\ q.token = NoToken
           /\ q.registering = k /\ ~q.retried
  <1>0. Idle \in Task /\ Idle.token = NoToken /\ Idle.retried = FALSE
    BY RecordTypes DEF Idle
  <1> DEFINE r == Started(kind, s)
  <1>1. r \in Task /\ r.session = s /\ r.token = NoToken /\ r.retried = FALSE
    BY <1>0, StartsFor DEF Started
  <1> HIDE DEF r
  <1>2. Continues(q, r) /\ q.registering = k /\ q.retried = r.retried
    BY <1>1, WorksFor DEF WorkingFor, r
  <1> QED
    BY <1>1, <1>2, Zenon DEF Continues, r

LEMMA HookStep ==
    ASSUME PluginInv, NEW t \in Tasks, NEW kind \in {"shell", "tool"},
           NEW s \in Sessions, Hook(t, kind, s)
    PROVE  Goes /\ MemoryOK' /\ (TokenFileIsCurrent => TokenFileIsCurrent')
  <1>1. /\ states' \in [Sessions -> Tokens \cup {NoToken}]
        /\ file' \in [Sessions -> Tokens \cup {NoToken}]
        /\ minted' \in 0..MaxTokens
        /\ states'[s] \in Tokens /\ states'[s] # NoToken
        /\ \A x \in Sessions : states[x] # NoToken => states'[x] = states[x]
        /\ TokenFileIsCurrent => TokenFileIsCurrent'
    BY TaskFacts, StateEnsured DEF Hook
  <1>2. MemoryOK'
    BY <1>1, TaskFacts DEF MemoryOK, Hook
  <1>3. Quiet /\ ready' = ready \ {t} /\ task[t].pc = "idle" /\ deleted' = deleted
    BY <1>1, TaskFacts DEF Quiet, Hook
  <1>4. PICK k, q : /\ k = states'[s] /\ k \in Tokens \cup {NoToken}
                    /\ q = WorkingFor(Started(kind, s), k)
    BY <1>1, Zenon
  <1>5. /\ q \in Task /\ q.session = s /\ q.token = NoToken
        /\ q.registering = states'[s] /\ ~q.retried
        /\ IF s \in registered
           THEN /\ Proceed([task EXCEPT ![t] = [q EXCEPT !.pc = "probe"]])
                /\ registrations' = registrations
           ELSE RegisterOrJoin(t, q)
    <2>1. /\ Started(kind, s).session = s
          /\ q \in Task /\ q.session = s /\ q.token = NoToken
          /\ q.registering = k /\ ~q.retried
      BY <1>4, HookStarts
    <2>2. EnsureRegistered(t, Started(kind, s), registered)
      BY DEF Hook, Started, StartedFrom
    <2> QED
      BY <1>4, <2>1, <2>2, Zenon DEF EnsureRegistered, WorkingFor
  <1>6. CASE s \notin registered
    <2>1. RegisterOrJoin(t, q)
      BY <1>5, <1>6
    <2>2. Carried(t, q)
      BY <1>5, Zenon DEF Carried
    <2> QED
      BY <1>1, <1>2, <1>3, <1>5, <2>1, <2>2, JoinGoes
  <1>7. CASE s \in registered
    <2>1. PICK p : p = [q EXCEPT !.pc = "probe"]
      BY Zenon
    <2>2. /\ Continues(p, q) /\ p.pc = "probe" /\ p.registering = states'[s]
          /\ ~p.retried
      BY <1>5, <2>1, GoesOn, ZenonT(30)
    <2>3. Proceed([task EXCEPT ![t] = p]) /\ registrations' = registrations
      BY <1>5, <1>7, <2>1, Zenon
    <2>4. OneMoves(t, p)
      BY <1>3, <2>2, <2>3, ProceedOne DEF Continues
    <2>5. TaskOK(t, p, wire'[t], states', registrations', deleted')
      BY <1>1, <1>5, <2>2, <2>4, Zenon
         DEF TaskOK, Continues, OneMoves, EnsuringPcs, RegistrarPcs, RequestPcs, ClosingPcs
    <2>6. Turn
      BY <1>3, <2>3, <2>4, <2>5, OneTurn DEF RegistrarPcs
    <2>7. Advances(t)
      BY <1>5, <2>2, <2>4, Zenon DEF Advances, Undisturbed, OneMoves, Continues
    <2> QED
      BY <1>1, <1>2, <2>3, <2>4, <2>6, <2>7, OneGoes, TaskFacts
  <1> QED
    BY <1>6, <1>7

LEMMA IdleGoes ==
    ASSUME PluginInv, NEW t \in Tasks, Proceed([task EXCEPT ![t] = Idle]),
           ready' = ready \ {t}, Quiet, task[t].pc \notin {"idle"} \cup RegistrarPcs,
           registrations' \in [Sessions -> Tasks \cup {None}],
           \A x \in Sessions \ deleted' : registrations'[x] = registrations[x]
    PROVE  Goes
  <1>1. OneMoves(t, Idle)
    BY RecordTypes, ProceedOne, Zenon
  <1>2. TaskOK(t, Idle, wire'[t], states', registrations', deleted')
    BY <1>1, RecordTypes, Zenon
       DEF TaskOK, OneMoves, EnsuringPcs, RegistrarPcs, RequestPcs, ClosingPcs
  <1>3. Turn
    BY <1>1, <1>2, OneTurn, Zenon
  <1>4. Advances(t)
    BY <1>1, RecordTypes DEF Advances, Undisturbed, OneMoves
  <1> QED
    BY <1>1, <1>3, <1>4, OneGoes, TaskFacts, Zenon

LEMMA ProbeStep ==
    ASSUME PluginInv, NEW t \in Tasks, ProbeReturns(t)
    PROVE  Goes /\ MemoryOK' /\ UNCHANGED <<states, file>>
  <1>1. /\ Quiet /\ ready' = ready \ {t} /\ task[t].pc = "probe"
        /\ deleted' = deleted /\ UNCHANGED <<states, file, minted, aborted>>
    BY DEF Quiet, ProbeReturns, Resumed
  <1>2. MemoryOK'
    BY <1>1, TaskFacts, InstanceSeen DEF MemoryOK, ProbeReturns
  <1>3. PICK r : r = task[t]
    OBVIOUS
  <1>4. /\ r \in Task /\ r.pc = "probe" /\ r.session \in Sessions /\ ~r.retried
        /\ r.registering \in Tokens \cup {NoToken}
        /\ r.session \notin deleted => /\ r.registering = states[r.session]
                                       /\ r.registering # NoToken
                                       /\ r.token \in {NoToken, states[r.session]}
    BY <1>1, <1>3, TaskFacts, Zenon DEF TaskOK, EnsuringPcs, Task
  <1>5. CASE r.session \in registered'
    <2>1. PICK p : p = Ensured(r, r.registering)
      OBVIOUS
    <2>2. Proceed([task EXCEPT ![t] = p]) /\ registrations' = registrations
      BY <1>3, <1>5, <2>1, TaskFacts DEF ProbeReturns, TypeOK, LinkTypeOK
    <2>3. CASE p = Idle
      BY <1>1, <1>2, <2>2, <2>3, IdleGoes, TaskFacts DEF RegistrarPcs
    <2>4. CASE p # Idle
      <3>1. /\ p \in Task /\ p.pc = "request_hello" /\ p.session = r.session
            /\ p.token = r.registering /\ ~p.retried
        BY <1>4, <2>1, <2>4, EnsuredTask
      <3>2. OneMoves(t, p)
        BY <1>1, <2>2, <3>1, ProceedOne, Zenon
      <3>3. TaskOK(t, p, wire'[t], states', registrations', deleted')
        BY <1>1, <1>4, <3>1, <3>2
           DEF TaskOK, OneMoves, EnsuringPcs, RegistrarPcs, RequestPcs, ClosingPcs
      <3>4. Turn
        BY <1>1, <2>2, <3>2, <3>3, OneTurn, Zenon DEF RegistrarPcs
      <3>5. Advances(t)
        BY <3>1, <3>2 DEF Advances, OneMoves
      <3> QED
        BY <1>1, <1>2, <2>2, <3>2, <3>4, <3>5, OneGoes, TaskFacts, Zenon
    <2> QED
      BY <2>3, <2>4
  <1>6. CASE r.session \notin registered'
    <2>1. RegisterOrJoin(t, r)
      BY <1>3, <1>6, Zenon DEF ProbeReturns
    <2>2. Carried(t, r)
      BY <1>3, <1>4, Zenon DEF Carried, Undisturbed, RequestPcs
    <2>3. Goes
      BY <1>1, <1>4, <2>1, <2>2, JoinGoes
    <2> QED
      BY <1>1, <1>2, <2>3
  <1> QED
    BY <1>5, <1>6

LEMMA RequestHelloStep ==
    ASSUME PluginInv, NEW t \in Tasks, RequestHelloReturns(t)
    PROVE  Goes /\ MemoryOK' /\ UNCHANGED <<states, file>>
  <1>1. /\ Quiet /\ ready' = ready \ {t} /\ task[t].pc = "request_hello" /\ t \in ready
        /\ deleted' = deleted /\ UNCHANGED <<states, file, minted, aborted, registrations>>
    BY DEF Quiet, RequestHelloReturns, Resumed
  <1>2. MemoryOK'
    BY <1>1, TaskFacts, InstanceSeen DEF MemoryOK, RequestHelloReturns
  <1>3. CASE Reply(t) # "hello"
    BY <1>1, <1>2, <1>3, IdleGoes, TaskFacts DEF RequestHelloReturns, RegistrarPcs
  <1>4. CASE Reply(t) = "hello"
    <2>1. PICK p : p = [task[t] EXCEPT !.pc = "request"]
      BY Zenon
    <2>2. Continues(p, task[t]) /\ p.pc = "request" /\ p.retried = task[t].retried
      BY <2>1, TaskFacts, GoesOn, Zenon
    <2>3. Proceed([task EXCEPT ![t] = p])
      BY <1>4, <2>1, TaskFacts DEF RequestHelloReturns, TypeOK, LinkTypeOK
    <2>4. OneMoves(t, p)
      BY <1>1, <2>2, <2>3, ProceedOne, Zenon DEF Continues
    <2>5. TaskOK(t, p, wire'[t], states', registrations', deleted')
      BY <1>1, <2>2, <2>4, TaskFacts, SMTT(30)
         DEF TaskOK, Continues, OneMoves, EnsuringPcs, RegistrarPcs, RequestPcs, ClosingPcs
    <2>6. Turn
      BY <1>1, <2>4, <2>5, OneTurn, Zenon DEF RegistrarPcs
    <2>7. Advances(t)
      BY <1>1, <2>2, <2>4, Zenon DEF Advances, Undisturbed, OneMoves, Continues
    <2> QED
      BY <1>1, <1>2, <2>4, <2>6, <2>7, OneGoes, TaskFacts, Zenon
  <1> QED
    BY <1>3, <1>4

-----------------------------------------------------------------------------
(* The end of a registration. *)

(* Task u awaits the registration that task t runs, or runs it. *)
Settled(t, u) == u = t \/ (task[u].pc = "joined" /\ task[u].owner = t)

(* A registration and those who await it are for one session. *)
LEMMA OneSession ==
    ASSUME PluginInv, NEW t \in Tasks, task[t].pc \in RegistrarPcs,
           NEW u \in Tasks, Settled(t, u), task[u].session \notin deleted
    PROVE  task[u].session = task[t].session
  <1>1. CASE u # t
    <2>1. /\ task[u].session \in Sessions \ deleted
          /\ registrations[task[u].session] = t
      BY <1>1, TaskFacts DEF Settled, TaskOK
    <2> QED
      BY <2>1, LinkAssumption, ZenonT(30) DEF PluginInv, Registrar
  <1> QED
    BY <1>1

LEMMA SettledTask ==
    ASSUME PluginInv, NEW t \in Tasks, task[t].pc \in RegistrarPcs, NEW ok \in BOOLEAN,
           NEW u \in Tasks, Settled(t, u), NEW p,
           p = IF ok THEN Ensured(task[u], task[t].registering) ELSE Idle
    PROVE  /\ p \in Task /\ p.pc \in {"idle", "request_hello"} /\ p.pc # task[u].pc
           /\ p.pc # "idle" =>
                 /\ ok /\ p.session = task[u].session /\ p.retried = task[u].retried
                 /\ p.token = IF p.retried THEN task[u].token ELSE task[t].registering
                 /\ p.disturbed = task[u].disturbed
  <1>1. task[u] \in Task /\ task[t].registering \in Tokens \cup {NoToken}
    BY TaskFacts, ZenonT(30) DEF Task
  <1>2. task[u].pc \in {"joined", "register_hello", "register"}
    BY DEF Settled, RegistrarPcs
  <1>3. CASE ~ok
    BY <1>2, <1>3, RecordTypes
  <1>4. CASE ok
    <2>1. p = Ensured(task[u], task[t].registering)
      BY <1>4, Zenon
    <2>2. \/ p = Idle
          \/ /\ p \in Task /\ p.pc = "request_hello" /\ p.session = task[u].session
             /\ p.token = IF task[u].retried THEN task[u].token ELSE task[t].registering
             /\ p.retried = task[u].retried /\ p.disturbed = task[u].disturbed
      BY <1>1, <2>1, EnsuredTask
    <2> QED
      BY <1>2, <1>4, <2>2, RecordTypes, Zenon
  <1> QED
    BY <1>3, <1>4, ZenonT(30)

(* The request that follows is for the session's token. *)
LEMMA SettledOK ==
    ASSUME PluginInv, NEW t \in Tasks, task[t].pc \in RegistrarPcs, NEW u \in Tasks,
           Settled(t, u), task[u].session \notin deleted
    PROVE  /\ task[u].session \in Sessions
           /\ task[t].registering # NoToken
           /\ task[t].registering = states[task[u].session]
           /\ task[u].token \in {NoToken, states[task[u].session]}
           /\ task[u].retried => task[u].token # NoToken
           /\ task[u].pc # "idle" /\ task[u].pc \notin RequestPcs
           /\ registrations[task[u].session] = t
  <1>1. task[u].session = task[t].session
    BY OneSession
  <1>2. task[u].pc \in {"joined"} \cup RegistrarPcs
    BY DEF Settled
  <1> QED
    BY <1>1, <1>2, TaskFacts, Zenon
       DEF TaskOK, EnsuringPcs, RegistrarPcs, RequestPcs, Settled

LEMMA SettleGoes ==
    ASSUME PluginInv, HealInv, NEW t \in Tasks, NEW ok \in BOOLEAN, Settle(t, ok),
           ready' = ready \ {t}, Quiet, deleted' = deleted, states' = states,
           task[t].pc \in RegistrarPcs,
           ok => task[t].pc = "register" /\ wire[t].reply = "ok"
    PROVE  Goes
  <1> DEFINE s == task[t].session
  <1>0. /\ TypeOK /\ deleted' = deleted /\ daemon' = daemon /\ late' = late
        /\ s \in Sessions /\ task \in [Tasks -> Task] /\ ready \subseteq Tasks
        /\ registrations \in [Sessions -> Tasks \cup {None}]
    BY TaskFacts, ZenonT(30) DEF TypeOK, LinkTypeOK, Quiet, TaskOK, RegistrarPcs
  <1>1. PICK f : f = [u \in Tasks |->
                        IF Settled(t, u)
                        THEN IF ok THEN Ensured(task[u], task[t].registering) ELSE Idle
                        ELSE task[u]]
    BY ZenonT(30)
  <1>2. Proceed(f) /\ registrations' = [registrations EXCEPT ![s] = None]
    BY <1>1, Zenon DEF Settle, Settled
  <1>3. ASSUME NEW u \in Tasks, Settled(t, u)
        PROVE  /\ f[u] \in Task /\ f[u].pc \in {"idle", "request_hello"}
               /\ f[u].pc # task[u].pc
               /\ f[u].pc # "idle" =>
                    /\ ok /\ f[u].session = task[u].session /\ f[u].retried = task[u].retried
                    /\ f[u].token = IF f[u].retried THEN task[u].token
                                    ELSE task[t].registering
                    /\ f[u].disturbed = task[u].disturbed
    <2>1. f[u] = IF ok THEN Ensured(task[u], task[t].registering) ELSE Idle
      BY <1>1, <1>3
    <2> QED
      BY <1>3, <2>1, SettledTask, SMTT(30)
  <1>4. /\ f \in [Tasks -> Task]
        /\ \A u \in Tasks : ~Settled(t, u) => f[u] = task[u]
    <2>1. \A u \in Tasks : ~Settled(t, u) => f[u] = task[u]
      BY <1>1
    <2>2. \A u \in Tasks : f[u] \in Task
      BY <1>0, <1>3, <2>1, ZenonT(30)
    <2> QED
      BY <1>1, <2>1, <2>2
  <1>5. /\ task' = f /\ wire' \in [Tasks -> Call]
        /\ \A v \in Tasks : IF f[v] = task[v] THEN wire'[v] = wire[v]
                            ELSE wire'[v] = IF f[v].pc \in HelloPcs \cup CommandPcs
                                            THEN Sent ELSE NoCall
    <2>1. \A v \in Tasks : f[v] = task[v] \/ f[v].pc # task[v].pc
      BY <1>3, <1>4, ZenonT(30)
    <2> QED
      BY <1>0, <1>2, <1>4, <2>1, ProceedMoves, ZenonT(30)
  <1>6. ASSUME NEW u \in Tasks, ~Settled(t, u) PROVE Kept(u)
    BY <1>4, <1>5, <1>6 DEF Kept, Settled
  <1>7. ASSUME NEW u \in Tasks, Settled(t, u) PROVE Moved(u) /\ Advances(u) /\ ~Kept(u)
    <2>1. /\ u \notin ready' /\ wire'[u].phase # "replied" /\ wire'[u].reply = "none"
          /\ f[u].pc = "idle" => wire'[u].phase = "none"
      <3>1. u # t => u \notin ready
        BY <1>7, TaskFacts, ZenonT(30) DEF Settled, TaskOK, PluginInv
      <3>2. wire'[u] = IF f[u].pc \in HelloPcs \cup CommandPcs THEN Sent ELSE NoCall
        BY <1>3, <1>5, <1>7, ZenonT(30)
      <3> QED
        BY <3>1, <3>2, RecordTypes, ZenonT(30) DEF HelloPcs, CommandPcs
    <2>2. TaskOK(u, f[u], wire'[u], states', registrations', deleted')
      BY <1>0, <1>3, <1>7, <2>1, SettledOK, TaskFacts, SMTT(30)
         DEF TaskOK, EnsuringPcs, RegistrarPcs, RequestPcs, ClosingPcs, Settled
    <2>3. Advances(u)
      <3> SUFFICES ASSUME Undisturbed(u)'
                   PROVE  /\ task'[u].pc = "request_hello"
                          /\ task'[u].retried =>
                                daemon.token[task'[u].session] = task'[u].token
        BY ZenonT(30) DEF Advances
      <3>1. /\ task'[u] = f[u] /\ f[u].pc # "idle" /\ f[u].session \notin deleted
            /\ f[u].token # NoToken /\ ~f[u].disturbed
        BY <1>0, <1>5, ZenonT(30) DEF Undisturbed
      <3>2. SUFFICES ASSUME f[u].retried
                     PROVE  daemon.token[f[u].session] = f[u].token
        BY <1>3, <1>7, <3>1, ZenonT(30)
      <3>3. /\ Undisturbed(u) /\ task[u].pc \notin RequestPcs
            /\ f[u].token = task[t].registering /\ f[u].session = task[t].session
            /\ task[t].pc = "register" /\ wire[t].reply = "ok"
        BY <1>3, <1>7, <3>1, <3>2, SettledOK, OneSession, SMTT(30) DEF Undisturbed
      <3>4. ~Stale(t)
        BY <1>3, <1>7, <3>1, <3>3, SMTT(30) DEF HealInv, HealOK, RequestPcs
      <3> QED
        BY <3>3, <3>4, Zenon DEF Stale
    <2> QED
      BY <1>3, <1>5, <1>7, <2>1, <2>2, <2>3, ZenonT(30) DEF Moved, Kept
  <1>8. ASSUME NEW x \in Sessions \ deleted PROVE Registrar(x)' /\ RegistrationStays(x)
    <2>1. CASE x = s
      <3>1. registrations[s] = t /\ registrations'[s] = None
        BY <1>0, <1>2, <1>8, <2>1, TaskFacts, ZenonT(30) DEF TaskOK, RegistrarPcs
      <3>2. ASSUME NEW v \in Tasks, Kept(v), task[v].session = s,
                   task[v].pc \in RegistrarPcs \cup {"joined"}
            PROVE  FALSE
        <4>1. Settled(t, v)
          BY <1>8, <2>1, <3>1, <3>2, TaskFacts, ZenonT(30) DEF TaskOK, Settled, RegistrarPcs
        <4> QED
          BY <1>7, <3>2, <4>1, ZenonT(30)
      <3> QED
        BY <2>1, <3>1, <3>2, ZenonT(30) DEF Registrar, RegistrationStays
    <2>2. CASE x # s
      <3>1. registrations'[x] = registrations[x] /\ Registrar(x)
        BY <1>0, <1>2, <1>8, <2>2, ZenonT(30) DEF PluginInv
      <3>2. ASSUME NEW w \in Tasks, registrations[x] = w
            PROVE  task'[w].session = x /\ task'[w].pc \in RegistrarPcs
        <4>1. task[w].session = x /\ task[w].pc \in RegistrarPcs
          BY <3>1, <3>2, LinkAssumption DEF Registrar
        <4>2. ~Settled(t, w)
          BY <2>2, <4>1 DEF Settled, RegistrarPcs
        <4> QED
          BY <4>1, <4>2, <1>6, ZenonT(30) DEF Kept
      <3> QED
        BY <1>0, <1>8, <3>1, <3>2, ZenonT(30) DEF Registrar, RegistrationStays
    <2> QED
      BY <2>1, <2>2
  <1>9. Turn
    BY <1>0, <1>6, <1>7, <1>8, ZenonT(30) DEF Turn
  <1> QED
    BY <1>0, <1>2, <1>4, <1>5, <1>6, <1>7, <1>9, ZenonT(30) DEF Goes

LEMMA RegisterHelloStep ==
    ASSUME PluginInv, HealInv, NEW t \in Tasks, RegisterHelloReturns(t)
    PROVE  Goes /\ MemoryOK' /\ UNCHANGED <<states, file>>
  <1>1. /\ Quiet /\ ready' = ready \ {t} /\ task[t].pc = "register_hello"
        /\ deleted' = deleted /\ UNCHANGED <<states, file, minted, aborted>>
    BY DEF Quiet, RegisterHelloReturns, Resumed
  <1>2. MemoryOK'
    BY <1>1, TaskFacts, InstanceSeen, Zenon DEF MemoryOK, RegisterHelloReturns
  <1>3. CASE Reply(t) # "hello"
    <2>1. Settle(t, FALSE)
      BY <1>3, Zenon DEF RegisterHelloReturns
    <2> QED
      BY <1>1, <1>2, <2>1, SettleGoes, Zenon DEF RegistrarPcs
  <1>4. CASE Reply(t) = "hello"
    <2>1. PICK p : p = [task[t] EXCEPT !.pc = "register"]
      BY Zenon
    <2>2. /\ Continues(p, task[t]) /\ p.pc = "register" /\ p.retried = task[t].retried
          /\ p.registering = task[t].registering
      BY <2>1, TaskFacts, GoesOn, Zenon
    <2>3. Proceed([task EXCEPT ![t] = p]) /\ registrations' = registrations
      BY <1>4, <2>1, TaskFacts DEF RegisterHelloReturns, TypeOK, LinkTypeOK
    <2>4. OneMoves(t, p)
      BY <1>1, <2>2, <2>3, ProceedOne, Zenon DEF Continues
    <2>5. TaskOK(t, p, wire'[t], states', registrations', deleted')
      BY <1>1, <2>2, <2>3, <2>4, TaskFacts, SMTT(30)
         DEF TaskOK, Continues, OneMoves, EnsuringPcs, RegistrarPcs, RequestPcs, ClosingPcs
    <2>6. Turn
      BY <1>1, <2>2, <2>3, <2>4, <2>5, OneTurn, Zenon DEF RegistrarPcs, Continues
    <2>7. Advances(t)
      BY <1>1, <2>2, <2>4, ZenonT(30)
         DEF Advances, Undisturbed, OneMoves, Continues, RequestPcs
    <2> QED
      BY <1>1, <1>2, <2>3, <2>4, <2>6, <2>7, OneGoes, TaskFacts
  <1> QED
    BY <1>3, <1>4

LEMMA RegisterStep ==
    ASSUME PluginInv, HealInv, NEW t \in Tasks, RegisterReturns(t)
    PROVE  Goes /\ MemoryOK' /\ UNCHANGED <<states, file>>
  <1>1. /\ Quiet /\ ready' = ready \ {t} /\ task[t].pc = "register"
        /\ deleted' = deleted /\ UNCHANGED <<states, file, minted, aborted>>
    BY ZenonT(30) DEF Quiet, RegisterReturns, Resumed
  <1>2. MemoryOK'
    BY <1>1, TaskFacts, SMTT(30) DEF MemoryOK, RegisterReturns, TaskOK
  <1>3. PICK ok \in BOOLEAN : ok = (Reply(t) = "ok")
    BY Zenon
  <1>4. Settle(t, ok) /\ (ok => wire[t].reply = "ok")
    BY <1>3, Zenon DEF RegisterReturns, Reply
  <1> QED
    BY <1>1, <1>2, <1>4, SettleGoes, ZenonT(30) DEF RegistrarPcs

LEMMA RequestStep ==
    ASSUME PluginInv, NEW t \in Tasks, RequestReturns(t)
    PROVE  Goes /\ MemoryOK' /\ (TokenFileIsCurrent => TokenFileIsCurrent')
  <1>1. /\ ready' = ready \ {t} /\ task[t].pc = "request" /\ t \in ready
        /\ daemon' = daemon /\ late' = late /\ deleted' = deleted
        /\ UNCHANGED <<brokerInstance, aborted>>
    BY DEF RequestReturns, Resumed
  <1>2. CASE /\ Proceed([task EXCEPT ![t] = Idle])
             /\ UNCHANGED <<registrations, states, file, minted>>
    <2>1. Quiet
      BY <1>1, <1>2 DEF Quiet
    <2>2. registered' \subseteq Sessions
      BY TaskFacts DEF RequestReturns, MemoryOK
    <2> QED
      BY <1>1, <1>2, <2>1, <2>2, TaskFacts, IdleGoes, Zenon
         DEF MemoryOK, RegistrarPcs, TokenFileIsCurrent
  <1>3. CASE /\ ~task[t].retried
             /\ registered' = registered \ {task[t].session}
             /\ EnsureState(task[t].session)
             /\ EnsureRegistered(t, [task[t] EXCEPT !.retried = TRUE], registered')
    <2> DEFINE s == task[t].session
    <2>1. s \in Sessions
      BY <1>1, TaskFacts, Zenon DEF TaskOK
    <2>2. /\ states' \in [Sessions -> Tokens \cup {NoToken}]
          /\ file' \in [Sessions -> Tokens \cup {NoToken}]
          /\ minted' \in 0..MaxTokens
          /\ states'[s] \in Tokens \cup {NoToken} /\ states'[s] # NoToken
          /\ \A x \in Sessions : states[x] # NoToken => states'[x] = states[x]
          /\ TokenFileIsCurrent => TokenFileIsCurrent'
      BY <1>3, <2>1, TaskFacts, StateEnsured
    <2>3. Quiet /\ MemoryOK'
      BY <1>1, <1>3, <2>2, TaskFacts DEF Quiet, MemoryOK
    <2>4. PICK r, q : /\ r = [task[t] EXCEPT !.retried = TRUE]
                      /\ q = [r EXCEPT !.registering = states'[r.session]]
      BY Zenon
    <2>5. Continues(r, task[t])
      BY <2>4, TaskFacts, Retries
    <2>6. r \in Task /\ r.session = s /\ q = [r EXCEPT !.registering = states'[s]]
      BY <2>4, <2>5 DEF Continues
    <2>7. Continues(q, r) /\ q.registering = states'[s]
      BY <2>2, <2>6, WorksFor, Zenon
    <2>8. /\ q \in Task /\ q.session = s /\ q.token = task[t].token
          /\ q.disturbed = task[t].disturbed
      BY <2>5, <2>7 DEF Continues
    <2>9. RegisterOrJoin(t, q)
      BY <1>3, <2>4, <2>6 DEF EnsureRegistered
    <2>10. Carried(t, q)
      BY <1>1, <2>8, ZenonT(30) DEF Carried, Undisturbed
    <2>11. s \notin deleted => q.token # NoToken /\ q.token = states'[s]
      BY <1>1, <2>1, <2>2, <2>8, TaskFacts, Zenon DEF TaskOK, RequestPcs
    <2>12. Goes
      BY <1>1, <2>1, <2>2, <2>3, <2>7, <2>8, <2>9, <2>10, <2>11, JoinGoes, Zenon
    <2> QED
      BY <2>2, <2>3, <2>12, ZenonT(30)
  <1> QED
    BY <1>2, <1>3 DEF RequestReturns

-----------------------------------------------------------------------------
(* The end of a session. *)

ClosingFrom(i, s) == [i EXCEPT !.kind = "close", !.session = s, !.pc = "unregister_hello"]

LEMMA ClosesFor ==
    ASSUME NEW i \in Task, NEW s \in Sessions
    PROVE  /\ ClosingFrom(i, s) \in Task
           /\ ClosingFrom(i, s).pc = "unregister_hello"
           /\ ClosingFrom(i, s).session = s
  BY ZenonT(30) DEF Task, ClosingFrom, HelloPcs

(* A closing task works for a session that is deleted. *)
LEMMA CloseGoes ==
    ASSUME PluginInv, NEW t \in Tasks, NEW p \in Task, OneMoves(t, p), Quiet,
           p.pc \in ClosingPcs, p.session \in deleted' \cap Sessions,
           task[t].pc \notin RegistrarPcs, registrations' = registrations
    PROVE  Goes
  <1>1. TaskOK(t, p, wire'[t], states', registrations', deleted')
    BY ZenonT(30) DEF TaskOK, OneMoves, EnsuringPcs, RegistrarPcs, RequestPcs, ClosingPcs
  <1>2. Turn
    BY <1>1, OneTurn, ZenonT(30)
  <1>3. Advances(t)
    BY Zenon DEF Advances, Undisturbed, OneMoves
  <1> QED
    BY <1>2, <1>3, OneGoes, TaskFacts, Zenon

LEMMA DeletedStep ==
    ASSUME PluginInv, NEW t \in Tasks, NEW s \in Sessions, SessionDeleted(t, s)
    PROVE  Goes /\ MemoryOK' /\ UNCHANGED <<states, file>>
  <1>1. /\ UNCHANGED <<states, file, registered, registrations, brokerInstance, minted, aborted>>
        /\ ready' = ready /\ t \notin ready /\ task[t].pc = "idle"
        /\ deleted' = deleted \cup {s} /\ daemon' = daemon /\ late' = late
    BY TaskFacts DEF SessionDeleted, memory
  <1>2. MemoryOK' /\ Quiet
    BY <1>1, TaskFacts, ZenonT(30) DEF MemoryOK, Quiet
  <1>3. CASE states[s] = NoToken
    <2>1. Proceed([task EXCEPT ![t] = Idle])
      BY <1>3 DEF SessionDeleted
    <2>2. /\ task' \in [Tasks -> Task] /\ task'[t] = Idle /\ wire' \in [Tasks -> Call]
          /\ \A v \in Tasks : wire'[v] = wire[v] /\ (v # t => task'[v] = task[v])
      BY <1>1, <2>1, RecordTypes, TaskFacts, Zenon DEF Proceed, TypeOK, LinkTypeOK
    <2>3. OneMoves(t, Idle)
      BY <1>1, <2>2, RecordTypes, TaskFacts, ZenonT(30)
         DEF OneMoves, Kept, TaskOK, PluginInv, CallOK, TypeOK, LinkTypeOK
    <2>4. TaskOK(t, Idle, wire'[t], states', registrations', deleted')
      BY <2>3, RecordTypes, ZenonT(30)
         DEF TaskOK, OneMoves, EnsuringPcs, RegistrarPcs, RequestPcs, ClosingPcs
    <2>5. Turn
      BY <1>1, <1>2, <2>3, <2>4, OneTurn, ZenonT(30) DEF RegistrarPcs
    <2>6. Advances(t)
      BY <2>3, RecordTypes, ZenonT(30) DEF Advances, Undisturbed, OneMoves
    <2> QED
      BY <1>1, <1>2, <2>3, <2>5, <2>6, OneGoes, TaskFacts, ZenonT(30)
  <1>4. CASE states[s] # NoToken
    <2>1. PICK p : p = ClosingFrom(Idle, s)
      OBVIOUS
    <2>2. p \in Task /\ p.pc = "unregister_hello" /\ p.session = s
      BY <2>1, RecordTypes, ClosesFor
    <2>3. Proceed([task EXCEPT ![t] = p])
      BY <1>4, <2>1 DEF SessionDeleted, ClosingFrom
    <2>4. OneMoves(t, p)
      BY <1>1, <2>2, <2>3, ProceedOne
    <2> QED
      BY <1>1, <1>2, <2>2, <2>4, CloseGoes, Zenon DEF ClosingPcs, RegistrarPcs
  <1> QED
    BY <1>3, <1>4

(* What removeState leaves to the living sessions. *)
LEMMA StateRemoved ==
    ASSUME PluginInv, NEW s \in deleted, RemoveState(s)
    PROVE  /\ states' \in [Sessions -> Tokens \cup {NoToken}]
           /\ file' \in [Sessions -> Tokens \cup {NoToken}]
           /\ registered' \subseteq Sessions
           /\ registrations' \in [Sessions -> Tasks \cup {None}]
           /\ \A x \in Sessions \ deleted :
                 states'[x] = states[x] /\ registrations'[x] = registrations[x]
           /\ TokenFileIsCurrent => TokenFileIsCurrent'
  <1>1. /\ s \in Sessions /\ registered \subseteq Sessions
        /\ states \in [Sessions -> Tokens \cup {NoToken}]
        /\ file \in [Sessions -> Tokens \cup {NoToken}]
        /\ registrations \in [Sessions -> Tasks \cup {None}]
    BY ZenonT(30) DEF PluginInv, TypeOK
  <1>2. TokenFileIsCurrent => TokenFileIsCurrent'
    BY <1>1 DEF RemoveState, RemoveTokenFile, TokenFileIsCurrent
  <1> QED
    BY <1>1, <1>2, ZenonT(30) DEF RemoveState, RemoveTokenFile

LEMMA UnregisterStep ==
    ASSUME PluginInv, NEW t \in Tasks, UnregisterHelloReturns(t) \/ UnregisterReturns(t)
    PROVE  Goes /\ MemoryOK' /\ (TokenFileIsCurrent => TokenFileIsCurrent')
  <1>1. /\ ready' = ready \ {t} /\ task[t].pc \in ClosingPcs
        /\ daemon' = daemon /\ late' = late /\ deleted' = deleted
        /\ UNCHANGED <<minted, aborted>>
    BY DEF UnregisterHelloReturns, UnregisterReturns, Resumed, ClosingPcs
  <1>2. task[t].session \in deleted \cap Sessions /\ task[t] \in Task
    BY <1>1, TaskFacts, ZenonT(30) DEF TaskOK, ClosingPcs
  <1>3. CASE RemoveState(task[t].session) /\ Proceed([task EXCEPT ![t] = Idle])
    <2>1. /\ states' \in [Sessions -> Tokens \cup {NoToken}]
          /\ file' \in [Sessions -> Tokens \cup {NoToken}]
          /\ registered' \subseteq Sessions
          /\ registrations' \in [Sessions -> Tasks \cup {None}]
          /\ \A x \in Sessions \ deleted :
                states'[x] = states[x] /\ registrations'[x] = registrations[x]
          /\ TokenFileIsCurrent => TokenFileIsCurrent'
      BY <1>2, <1>3, StateRemoved, ZenonT(30)
    <2>2. brokerInstance' \in 0..MaxInstances
      BY TaskFacts, InstanceSeen DEF UnregisterHelloReturns, UnregisterReturns, MemoryOK
    <2>3. MemoryOK' /\ Quiet
      BY <1>1, <2>1, <2>2, TaskFacts, ZenonT(30) DEF MemoryOK, Quiet
    <2> QED
      BY <1>1, <1>3, <2>1, <2>3, IdleGoes, Zenon DEF ClosingPcs, RegistrarPcs
  <1>4. CASE /\ task[t].pc = "unregister_hello" /\ OnInstance(wire[t].instance)
             /\ Proceed([task EXCEPT ![t].pc = "unregister"])
             /\ UNCHANGED <<states, file, registrations>>
    <2>1. MemoryOK' /\ Quiet
      BY <1>1, <1>4, TaskFacts, InstanceSeen DEF MemoryOK, Quiet
    <2>2. PICK p : p = [task[t] EXCEPT !.pc = "unregister"]
      BY Zenon
    <2>3. Continues(p, task[t]) /\ p.pc = "unregister"
      BY <1>2, <2>2, GoesOn, Zenon
    <2>4. Proceed([task EXCEPT ![t] = p])
      BY <1>4, <2>2, TaskFacts DEF TypeOK, LinkTypeOK
    <2>5. OneMoves(t, p)
      BY <1>1, <1>4, <2>3, <2>4, ProceedOne, ZenonT(30) DEF Continues
    <2>6. Goes
      BY <1>1, <1>2, <1>4, <2>1, <2>3, <2>5, CloseGoes
         DEF Continues, ClosingPcs, RegistrarPcs
    <2> QED
      BY <1>4, <2>1, <2>6 DEF TokenFileIsCurrent
  <1> QED
    BY <1>3, <1>4 DEF UnregisterHelloReturns, UnregisterReturns, Resumed

LEMMA DisposeStep ==
    ASSUME PluginInv, Dispose
    PROVE  Goes /\ MemoryOK' /\ UNCHANGED <<states, file>>
  <1>1. /\ aborted' = TRUE /\ deleted' = Sessions /\ daemon' = daemon /\ late' = late
        /\ ready' = {t \in ready : task'[t] = task[t]}
        /\ UNCHANGED <<states, file, registered, registrations, brokerInstance, minted>>
    BY ZenonT(30) DEF Dispose
  <1>2. /\ task \in [Tasks -> Task] /\ ready \subseteq Tasks /\ deleted \subseteq Sessions
        /\ TypeOK /\ registrations \in [Sessions -> Tasks \cup {None}]
    BY ZenonT(30) DEF PluginInv, TypeOK, LinkTypeOK
  <1>3. MemoryOK'
    BY <1>1, <1>2, ZenonT(30) DEF MemoryOK, TypeOK
  <1> DEFINE known == {s \in Sessions : states[s] # NoToken}
             idle == {t \in Tasks : task[t].pc = "idle"}
  <1>4. PICK closer \in [known -> idle] :
           Proceed([t \in Tasks |->
                  IF \E s \in known : closer[s] = t
                  THEN [Idle EXCEPT !.kind = "close", !.pc = "unregister_hello",
                                    !.session = CHOOSE s \in known : closer[s] = t]
                  ELSE IF task[t].pc \in {"request_hello", "request"} THEN Idle
                  ELSE task[t]])
    BY ZenonT(30) DEF Dispose
  <1>5. PICK f : f = [t \in Tasks |->
                  IF \E s \in known : closer[s] = t
                  THEN [Idle EXCEPT !.kind = "close", !.pc = "unregister_hello",
                                    !.session = CHOOSE s \in known : closer[s] = t]
                  ELSE IF task[t].pc \in {"request_hello", "request"} THEN Idle
                  ELSE task[t]]
    BY ZenonT(30)
  <1>6. ASSUME NEW t \in Tasks
        PROVE  \/ f[t] = task[t]
               \/ f[t] = Idle /\ task[t].pc \in RequestPcs
               \/ /\ f[t] \in Task /\ f[t].pc = "unregister_hello"
                  /\ f[t].session \in Sessions /\ task[t].pc = "idle"
    <2>1. CASE \E s \in known : closer[s] = t
      <3>1. PICK x : x = CHOOSE s \in known : closer[s] = t
        OBVIOUS
      <3>2. x \in known /\ closer[x] = t
        BY <2>1, <3>1
      <3>3. f[t] = [Idle EXCEPT !.kind = "close", !.pc = "unregister_hello", !.session = x]
        BY <1>5, <2>1, <3>1, ZenonT(30)
      <3>4. /\ f[t] \in Task /\ f[t].pc = "unregister_hello" /\ f[t].session = x
        <4>1. f[t] = ClosingFrom(Idle, x)
          BY <3>3, ZenonT(30) DEF ClosingFrom, Idle
        <4> QED
          BY <3>2, <4>1, ClosesFor, RecordTypes, ZenonT(30)
      <3> QED
        BY <1>4, <3>2, <3>4, ZenonT(30)
    <2>2. CASE ~\E s \in known : closer[s] = t
      BY <1>5, <2>2, ZenonT(30) DEF RequestPcs
    <2> QED
      BY <2>1, <2>2, ZenonT(30)
  <1>7. Proceed(f)
    BY <1>4, <1>5, ZenonT(30)
  <1> HIDE DEF known, idle
  <1>8. /\ f \in [Tasks -> Task]
        /\ \A t \in Tasks : f[t] = task[t] \/ f[t].pc # task[t].pc
    <2>1. \A t \in Tasks : f[t] \in Task /\ (f[t] = task[t] \/ f[t].pc # task[t].pc)
      BY <1>2, <1>6, RecordTypes, ZenonT(30) DEF RequestPcs
    <2> QED
      BY <1>5, <2>1, ZenonT(30)
  <1>9. /\ task' = f /\ wire' \in [Tasks -> Call]
        /\ \A v \in Tasks : IF f[v] = task[v] THEN wire'[v] = wire[v]
                            ELSE wire'[v] = IF f[v].pc \in HelloPcs \cup CommandPcs
                                            THEN Sent ELSE NoCall
    BY <1>2, <1>7, <1>8, ProceedMoves, Zenon
  <1>10. ASSUME NEW v \in Tasks PROVE (Kept(v) \/ Moved(v)) /\ (Kept(v) \/ Advances(v))
    <2>1. CASE f[v] = task[v]
      BY <1>1, <1>2, <1>9, <2>1, Zenon DEF Kept
    <2>2. CASE f[v] # task[v]
      <3>1. /\ v \notin ready' /\ wire'[v].phase # "replied" /\ wire'[v].reply = "none"
            /\ f[v].pc = "idle" => wire'[v].phase = "none"
        BY <1>1, <1>9, <2>2, RecordTypes, ZenonT(30) DEF HelloPcs, CommandPcs
      <3>2. TaskOK(v, f[v], wire'[v], states', registrations', deleted')
        BY <1>1, <1>6, <2>2, <3>1, RecordTypes, Zenon
           DEF TaskOK, EnsuringPcs, RegistrarPcs, RequestPcs, ClosingPcs
      <3>3. f[v].pc = "idle" \/ f[v].session \in deleted'
        BY <1>1, <1>6, <2>2, RecordTypes, Zenon
      <3> QED
        BY <1>9, <3>1, <3>2, <3>3, ZenonT(30) DEF Moved, Advances, Undisturbed
    <2> QED
      BY <2>1, <2>2, ZenonT(30)
  <1> QED
    BY <1>1, <1>2, <1>3, <1>8, <1>9, <1>10, ZenonT(30) DEF Goes, Turn

LEMMA VanishStep ==
    ASSUME PluginInv, NEW s \in Sessions, FileVanishes(s)
    PROVE  Goes /\ MemoryOK' /\ (TokenFileIsCurrent => TokenFileIsCurrent')
  <1>1. /\ UNCHANGED <<daemon, task, wire, late, ready, states, registered, registrations,
                       brokerInstance, minted, aborted, deleted>>
        /\ file' = [file EXCEPT ![s] = NoToken]
    BY DEF FileVanishes, linkVars
  <1>2. MemoryOK' /\ (TokenFileIsCurrent => TokenFileIsCurrent')
    BY <1>1, ZenonT(30) DEF MemoryOK, TokenFileIsCurrent, PluginInv, TypeOK
  <1>3. \A x \in Sessions \ deleted : Registrar(x)
    BY ZenonT(30) DEF PluginInv
  <1> QED
    BY <1>1, <1>2, <1>3, Zenon
       DEF Goes, Turn, Kept, Registrar, RegistrationStays, PluginInv, TypeOK, LinkTypeOK

(* Every step of the plugin itself. *)
LEMMA PluginStep ==
    ASSUME PluginInv, HealInv, Plugin
    PROVE  /\ PluginInv' /\ HealInv' /\ daemon' = daemon
           /\ TokenFileIsCurrent => TokenFileIsCurrent'
  <1>1. SUFFICES Goes /\ MemoryOK' /\ (TokenFileIsCurrent => TokenFileIsCurrent')
    BY GoesKeeps, ZenonT(30) DEF Goes, Turn
  <1>2. UNCHANGED <<states, file>> => (TokenFileIsCurrent => TokenFileIsCurrent')
    BY DEF TokenFileIsCurrent
  <1>3. ASSUME NEW t \in Tasks, Resume(t)
        PROVE  Goes /\ MemoryOK' /\ (TokenFileIsCurrent => TokenFileIsCurrent')
    BY <1>2, <1>3, ProbeStep, RegisterHelloStep, RegisterStep, RequestHelloStep,
       RequestStep, UnregisterStep, Zenon DEF Resume
  <1>4. ASSUME NEW t \in Tasks, NEW s \in Sessions,
               Hook(t, "shell", s) \/ Hook(t, "tool", s) \/ SessionDeleted(t, s)
        PROVE  Goes /\ MemoryOK' /\ (TokenFileIsCurrent => TokenFileIsCurrent')
    BY <1>2, <1>4, HookStep, DeletedStep
  <1> QED
    BY <1>2, <1>3, <1>4, DisposeStep, VanishStep DEF Plugin

-----------------------------------------------------------------------------
(* The steps of the daemon and of the event loop. *)

SameMemory == UNCHANGED <<memory, deleted>>

LEMMA MemoryKept ==
    ASSUME SameMemory
    PROVE  UNCHANGED <<states, file, registered, registrations, brokerInstance, minted,
                       aborted, deleted>>
  BY DEF SameMemory, memory

(* The tasks go on where they are: only their history may change. *)
TasksStay ==
    /\ task' \in [Tasks -> Task]
    /\ \A v \in Tasks :
          /\ task'[v].pc = task[v].pc /\ task'[v].session = task[v].session
          /\ task'[v].token = task[v].token /\ task'[v].registering = task[v].registering
          /\ task'[v].owner = task[v].owner /\ task'[v].retried = task[v].retried
          /\ task[v].disturbed => task'[v].disturbed

Marked(r, d) == [r EXCEPT !.disturbed = d]

LEMMA MarkedTask ==
    ASSUME NEW r \in Task, NEW d \in BOOLEAN
    PROVE  /\ Marked(r, d) \in Task
           /\ Marked(r, d).pc = r.pc /\ Marked(r, d).session = r.session
           /\ Marked(r, d).token = r.token /\ Marked(r, d).registering = r.registering
           /\ Marked(r, d).owner = r.owner /\ Marked(r, d).retried = r.retried
           /\ Marked(r, d).disturbed = d
  BY DEF Task, Marked

LEMMA DisturbStays ==
    ASSUME PluginInv, NEW T, Disturb(T)
    PROVE  /\ TasksStay
           /\ \A v \in Tasks : task[v].token \in T => task'[v].disturbed
  <1>1. task \in [Tasks -> Task]
    BY Zenon DEF PluginInv, TypeOK, LinkTypeOK
  <1>2. ASSUME NEW v \in Tasks
        PROVE  /\ task'[v] \in Task
               /\ task'[v].pc = task[v].pc /\ task'[v].session = task[v].session
               /\ task'[v].token = task[v].token /\ task'[v].registering = task[v].registering
               /\ task'[v].owner = task[v].owner /\ task'[v].retried = task[v].retried
               /\ task[v].disturbed \/ task[v].token \in T => task'[v].disturbed
    <2>1. PICK d \in BOOLEAN : d = (task[v].disturbed \/ task[v].token \in T)
      BY ZenonT(30)
    <2>2. task'[v] = Marked(task[v], d)
      BY <1>1, <2>1 DEF Disturb, Task, Marked
    <2>3. task[v] \in Task
      BY <1>1
    <2>4. /\ task'[v] \in Task /\ task'[v].disturbed = d
          /\ task'[v].pc = task[v].pc /\ task'[v].session = task[v].session
          /\ task'[v].token = task[v].token /\ task'[v].registering = task[v].registering
          /\ task'[v].owner = task[v].owner /\ task'[v].retried = task[v].retried
      <3> DEFINE p == Marked(task[v], d)
      <3>1. /\ p \in Task /\ p.disturbed = d
            /\ p.pc = task[v].pc /\ p.session = task[v].session
            /\ p.token = task[v].token /\ p.registering = task[v].registering
            /\ p.owner = task[v].owner /\ p.retried = task[v].retried
        BY <2>1, <2>3, MarkedTask, Zenon
      <3> HIDE DEF p
      <3>2. task'[v] = p
        BY <2>2 DEF p
      <3> QED
        BY <3>1, <3>2, Zenon
    <2> QED
      BY <2>1, <2>4, Zenon
  <1>3. task' \in [Tasks -> Task]
    BY <1>2 DEF Disturb
  <1> QED
    BY <1>2, <1>3, ZenonT(30) DEF TasksStay

(* What such a step must leave for the plugin's invariant: calls that are  *)
(* answered or not, a daemon and late commands that know only the tokens   *)
(* of living sessions.                                                     *)
LEMMA StayKeepsInv ==
    ASSUME PluginInv, SameMemory, TasksStay,
           daemon' \in Daemon, late' \subseteq Command, wire' \in [Tasks -> Call],
           ready' \subseteq Tasks,
           \A v \in Tasks : /\ CallOK(wire[v])'
                            /\ wire[v].phase = "none" => wire'[v].phase = "none",
           \A v \in ready' : wire'[v].phase = "replied",
           \A s \in Sessions \ deleted : daemon'.token[s] \in {NoToken, states[s]},
           \A m \in late' : m.session \notin deleted =>
                               m.token = states[m.session] /\ m.token # NoToken
    PROVE  PluginInv'
  <1>1. UNCHANGED <<states, file, registered, registrations, brokerInstance, minted,
                    aborted, deleted>>
    BY MemoryKept, ZenonT(30)
  <1>2. TypeOK'
    BY <1>1, ZenonT(30) DEF PluginInv, TypeOK, LinkTypeOK, TasksStay
  <1>3. ASSUME NEW v \in Tasks
        PROVE  TaskOK(v, task'[v], wire'[v], states', registrations', deleted')
    <2>1. TaskOK(v, task[v], wire[v], states, registrations, deleted)
      BY ZenonT(30) DEF PluginInv
    <2> QED
      BY <1>1, <2>1, ZenonT(30) DEF TaskOK, TasksStay
  <1>4. \A s \in Sessions \ deleted' : Registrar(s)'
    BY <1>1, LinkAssumption, SMTT(30) DEF PluginInv, TypeOK, Registrar, TasksStay
  <1> QED
    BY <1>1, <1>2, <1>3, <1>4, Zenon DEF PluginInv

LEMMA StayUndisturbed ==
    ASSUME SameMemory, TasksStay, NEW t \in Tasks, Undisturbed(t)'
    PROVE  Undisturbed(t)
  BY MemoryKept, Zenon DEF TasksStay, Undisturbed

LEMMA StayHeals ==
    ASSUME PluginInv, HealInv, SameMemory, TasksStay, ready' = ready,
           \A t \in Tasks : Undisturbed(t)' =>
              /\ daemon.token[task[t].session] = task[t].token =>
                    /\ daemon'.token[task[t].session] = task[t].token
                    /\ task[t].pc = "request" =>
                          \/ wire'[t].reply = wire[t].reply
                          \/ wire'[t].reply # "unknown_token"
              /\ \A u \in Tasks : Stale(u)' /\ task[u].session = task[t].session => Stale(u)
    PROVE  HealInv'
  <1> SUFFICES ASSUME NEW t \in Tasks, Undisturbed(t)' PROVE HealOK(t)'
    BY ZenonT(30) DEF HealInv, HealOK
  <1>1. Undisturbed(t) /\ HealOK(t)
    BY StayUndisturbed, ZenonT(30) DEF HealInv
  <1>2. \A u \in Tasks : Stale(u)' /\ task'[u].session = task'[t].session =>
           \/ task'[t].pc = "request_hello" /\ (t \in ready' => u \in ready')
           \/ task'[t].pc = "request" /\ u \in ready' /\ t \notin ready'
    <2>1. ASSUME NEW u \in Tasks, Stale(u)', task'[u].session = task'[t].session
          PROVE  Stale(u) /\ task[u].session = task[t].session
      BY <2>1, ZenonT(30) DEF TasksStay
    <2>2. task'[t].pc = task[t].pc
      BY ZenonT(30) DEF TasksStay
    <2> QED
      BY <1>1, <2>1, <2>2, ZenonT(30) DEF HealOK
  <1>3. task'[t].retried /\ task'[t].pc \in RequestPcs =>
           daemon'.token[task'[t].session] = task'[t].token
    BY <1>1, ZenonT(30) DEF HealOK, TasksStay
  <1>4. task'[t].retried /\ task'[t].pc = "request" => wire'[t].reply # "unknown_token"
    BY <1>1, ZenonT(30) DEF HealOK, TasksStay, RequestPcs
  <1> QED
    BY <1>2, <1>3, <1>4, ZenonT(30) DEF HealOK

LEMMA Unmoved == ASSUME PluginInv, task' = task PROVE TasksStay
  BY ZenonT(30) DEF PluginInv, TypeOK, LinkTypeOK, TasksStay

LEMMA PollStep ==
    ASSUME PluginInv, HealInv, Poll, SameMemory
    PROVE  PluginInv' /\ HealInv' /\ daemon' = daemon
  <1>1. /\ daemon' = daemon /\ task' = task /\ wire' = wire /\ late' = late
        /\ ready = {} /\ ready' = {t \in Tasks : wire[t].phase = "replied"}
        /\ TasksStay
    BY Unmoved DEF Poll
  <1>2. /\ deleted' = deleted /\ wire \in [Tasks -> Call]
    BY MemoryKept, ZenonT(30) DEF PluginInv, TypeOK, LinkTypeOK
  <1>3. PluginInv'
    BY <1>1, <1>2, StayKeepsInv, ZenonT(30) DEF PluginInv, TypeOK, LinkTypeOK, CallOK
  <1>4. ASSUME NEW u \in Tasks, Stale(u)' PROVE Stale(u) /\ u \in ready'
    BY <1>1, <1>4, ZenonT(30) DEF Stale, PluginInv, CallOK
  <1>5. ASSUME NEW t \in Tasks, Undisturbed(t)' PROVE HealOK(t)'
    BY <1>1, <1>2, <1>4, <1>5, Zenon DEF HealInv, HealOK, Undisturbed
  <1> QED
    BY <1>1, <1>3, <1>5, ZenonT(30) DEF HealInv, HealOK

FailedFrom(w) == [w EXCEPT !.phase = "replied", !.reply = "failed"]

LEMMA FailedCall ==
    ASSUME NEW w \in Call
    PROVE  /\ FailedFrom(w) \in Call
           /\ FailedFrom(w).phase = "replied" /\ FailedFrom(w).reply = "failed"
  BY Zenon DEF Call, Replies, FailedFrom

LEMMA FailStep ==
    ASSUME PluginInv, HealInv, NEW t \in Tasks, LineFails(t), SameMemory
    PROVE  PluginInv' /\ HealInv' /\ daemon' = daemon
  <1>1. /\ daemon' = daemon /\ task' = task /\ ready' = ready /\ TasksStay
        /\ wire[t].phase \in {"sent", "replied"} /\ t \notin ready
    BY Unmoved DEF LineFails
  <1>2. PICK w : w = FailedFrom(NoCall)
    OBVIOUS
  <1>3. w \in Call /\ w.phase = "replied" /\ w.reply = "failed"
    BY <1>2, RecordTypes, FailedCall
  <1>4. /\ wire' \in [Tasks -> Call] /\ wire'[t] = w
        /\ \A v \in Tasks \ {t} : wire'[v] = wire[v]
    BY <1>2, <1>3 DEF LineFails, PluginInv, TypeOK, LinkTypeOK, FailedFrom
  <1>5. ASSUME NEW m \in late' \ late
        PROVE  /\ m \in Command
               /\ m.session \notin deleted => m.token = states[m.session] /\ m.token # NoToken
    <2>1. /\ task[t].pc \in {"register", "unregister", "undo"}
          /\ m = [session |-> task[t].session,
                  token |-> IF task[t].pc = "register" THEN task[t].registering ELSE NoToken]
      BY <1>5 DEF LineFails
    <2>2. /\ task[t] \in Task /\ task[t].session \in Sessions
          /\ task[t].pc = "unregister" => task[t].session \in deleted
          /\ task[t].pc \in {"register", "unregister"}
          /\ task[t].pc = "register" /\ task[t].session \notin deleted =>
                /\ task[t].registering = states[task[t].session]
                /\ task[t].registering # NoToken
      BY <2>1, TaskFacts, ZenonT(30)
         DEF TaskOK, EnsuringPcs, RegistrarPcs, RequestPcs, ClosingPcs
    <2> QED
      BY <2>1, <2>2, ZenonT(30) DEF Command, Task
  <1>6. PluginInv'
    <2>1. late' \subseteq Command
      BY <1>5, ZenonT(30) DEF PluginInv, TypeOK, LinkTypeOK
    <2>2. \A m \in late' : m.session \notin deleted =>
                              m.token = states[m.session] /\ m.token # NoToken
      BY <1>5, ZenonT(30) DEF PluginInv
    <2>3. /\ ready' \subseteq Tasks /\ daemon' \in Daemon
          /\ \A v \in ready' : v \in Tasks \ {t} /\ wire[v].phase = "replied"
          /\ \A s \in Sessions \ deleted : daemon'.token[s] \in {NoToken, states[s]}
      BY <1>1, ZenonT(30) DEF PluginInv, TypeOK, LinkTypeOK
    <2>4. \A v \in Tasks : /\ CallOK(wire[v])'
                           /\ wire[v].phase = "none" => wire'[v].phase = "none"
      <3>1. \A v \in Tasks \ {t} : CallOK(wire[v])' /\ wire'[v].phase = wire[v].phase
        BY <1>4, ZenonT(30) DEF PluginInv, CallOK
      <3>2. CallOK(wire[t])' /\ wire[t].phase # "none"
        BY <1>1, <1>3, <1>4, ZenonT(30) DEF CallOK
      <3> QED
        BY <3>1, <3>2, ZenonT(30)
    <2>5. \A v \in ready' : wire'[v].phase = "replied"
      BY <1>4, <2>3, ZenonT(30)
    <2>6. /\ TasksStay /\ daemon' \in Daemon /\ ready' \subseteq Tasks
          /\ wire' \in [Tasks -> Call]
          /\ \A s \in Sessions \ deleted : daemon'.token[s] \in {NoToken, states[s]}
      BY <1>1, <1>4, <2>3, Zenon
    <2> QED
      BY <2>1, <2>2, <2>4, <2>5, <2>6, StayKeepsInv, Zenon
  <1>7. HealInv'
    <2>1. \A u \in Tasks : Stale(u)' => Stale(u)
      BY <1>1, <1>3, <1>4, ZenonT(30) DEF Stale
    <2>2. \A v \in Tasks : wire'[v].reply = wire[v].reply \/ wire'[v].reply # "unknown_token"
      BY <1>3, <1>4, ZenonT(30)
    <2> QED
      BY <1>1, <2>1, <2>2, StayHeals, Zenon
  <1> QED
    BY <1>1, <1>6, <1>7

LEMMA RepliedCall ==
    ASSUME PluginInv, NEW t \in Tasks, NEW reply \in Replies \ {"none"}, Replied(t, reply)
    PROVE  /\ wire' \in [Tasks -> Call]
           /\ wire'[t].phase = "replied" /\ wire'[t].reply = reply
           /\ \A v \in Tasks \ {t} : wire'[v] = wire[v]
           /\ \A v \in Tasks : /\ CallOK(wire[v])'
                               /\ wire[v].phase = "replied" => wire'[v].phase = "replied"
  <1>1. PICK w : w = [phase |-> "replied", reply |-> reply,
                      instance |-> IF reply = "hello" THEN daemon.instance ELSE 0]
    BY Zenon
  <1>2. w \in Call /\ w.phase = "replied" /\ w.reply = reply
    <2>1. daemon.instance \in 0..MaxInstances /\ 0 \in 0..MaxInstances
      <3>1. daemon.instance \in 1..MaxInstances
        BY Zenon DEF PluginInv, TypeOK, LinkTypeOK, Daemon
      <3> QED
        BY <3>1, LinkAssumption
    <2> QED
      BY <1>1, <2>1, ZenonT(30) DEF Call
  <1>3. wire \in [Tasks -> Call] /\ \A v \in Tasks : CallOK(wire[v])
    BY ZenonT(30) DEF PluginInv, TypeOK, LinkTypeOK
  <1>4. wire' = [wire EXCEPT ![t] = w]
    BY <1>1, Zenon DEF Replied
  <1> QED
    BY <1>2, <1>3, <1>4, ZenonT(30) DEF CallOK

LEMMA Performed ==
    ASSUME PluginInv, NEW m \in Command, Perform(m)
    PROVE  /\ TasksStay
           /\ daemon' \in Daemon /\ daemon'.instance = daemon.instance
           /\ daemon'.token[m.session] = m.token
           /\ \A s \in Sessions \ {m.session} : daemon'.token[s] = daemon.token[s]
  <1>1. daemon \in Daemon
    BY ZenonT(30) DEF PluginInv, TypeOK, LinkTypeOK
  <1> QED
    BY <1>1, DisturbStays DEF Perform, Daemon, Command

(* A command that the daemon performs is for a deleted session, or         *)
(* registers the token that the session has.                               *)
Harmless(m) ==
    m.session \notin deleted => m.token = states[m.session] /\ m.token # NoToken

LEMMA PerformedHarmless ==
    ASSUME PluginInv, HealInv, SameMemory, NEW m \in Command, Perform(m), Harmless(m),
           ready' = ready,
           \A v \in Tasks : \/ wire'[v] = wire[v]
                            \/ task[v].session = m.session /\ task[v].pc # "request"
    PROVE  /\ HealInv'
           /\ \A s \in Sessions \ deleted : daemon'.token[s] \in {NoToken, states[s]}
           /\ \A s \in Sessions \ deleted :
                 daemon.token[s] # NoToken => daemon'.token[s] = daemon.token[s]
  <1>1. /\ TasksStay
        /\ daemon' \in Daemon /\ daemon'.instance = daemon.instance
        /\ daemon'.token[m.session] = m.token
        /\ \A s \in Sessions \ {m.session} : daemon'.token[s] = daemon.token[s]
    BY Performed, ZenonT(30)
  <1>2. \A s \in Sessions \ deleted : daemon.token[s] \in {NoToken, states[s]}
    BY ZenonT(30) DEF PluginInv
  <1>3. /\ \A s \in Sessions \ deleted : daemon'.token[s] \in {NoToken, states[s]}
        /\ \A s \in Sessions \ deleted :
              daemon.token[s] # NoToken => daemon'.token[s] = daemon.token[s]
    BY <1>1, <1>2, ZenonT(30) DEF Harmless
  <1>4. ASSUME NEW t \in Tasks, Undisturbed(t)'
        PROVE  /\ daemon.token[task[t].session] = task[t].token =>
                    /\ daemon'.token[task[t].session] = task[t].token
                    /\ task[t].pc = "request" =>
                          \/ wire'[t].reply = wire[t].reply
                          \/ wire'[t].reply # "unknown_token"
               /\ \A u \in Tasks : Stale(u)' /\ task[u].session = task[t].session => Stale(u)
    <2> DEFINE s == task[t].session
    <2>1. /\ s \in Sessions \ deleted /\ task[t].token # NoToken
          /\ task[t].token = states[s]
      <3>1. Undisturbed(t)
        BY <1>1, <1>4, StayUndisturbed, ZenonT(30)
      <3> QED
        BY <3>1, TaskFacts, ZenonT(30) DEF Undisturbed, TaskOK
    <2>2. ASSUME NEW u \in Tasks, Stale(u)', task[u].session = s PROVE Stale(u)
      <3>1. /\ task[u].pc = "register" /\ wire'[u].reply = "ok"
            /\ daemon'.token[s] # task[u].registering /\ task[u].registering = states[s]
        <4>1. /\ task[u].pc = "register" /\ wire'[u].reply = "ok"
              /\ daemon'.token[s] # task[u].registering
          BY <1>1, <2>2, ZenonT(30) DEF Stale, TasksStay
        <4>2. "register" \in EnsuringPcs /\ "register" # "idle"
          BY DEF EnsuringPcs, RegistrarPcs
        <4>3. TaskOK(u, task[u], wire[u], states, registrations, deleted)
          BY TaskFacts, Zenon
        <4> QED
          BY <2>1, <2>2, <4>1, <4>2, <4>3, ZenonT(30) DEF TaskOK
      <3>2. s # m.session
        BY <1>1, <2>1, <3>1, ZenonT(30) DEF Harmless
      <3>3. wire'[u] = wire[u]
        BY <2>2, <3>2, ZenonT(30)
      <3>4. daemon'.token[s] = daemon.token[s]
        BY <1>1, <2>1, <3>2, ZenonT(30)
      <3> QED
        BY <2>2, <3>1, <3>3, <3>4, ZenonT(30) DEF Stale
    <2>3. daemon.token[s] = task[t].token => daemon'.token[s] = task[t].token
      BY <1>3, <2>1, ZenonT(30)
    <2> QED
      BY <2>2, <2>3, ZenonT(30)
  <1>5. HealInv'
    BY <1>1, <1>4, StayHeals, ZenonT(30)
  <1> QED
    BY <1>3, <1>5, ZenonT(30)

(* What any step keeps. *)
Kind ==
    /\ PluginInv' /\ HealInv'
    /\ \A s \in Sessions \ deleted :
          daemon.token[s] # NoToken /\ daemon'.instance = daemon.instance =>
             daemon'.token[s] = daemon.token[s]

LEMMA HandleStep ==
    ASSUME PluginInv, HealInv, NEW t \in Tasks, Handle(t), SameMemory
    PROVE  Kind
  <1>1. /\ wire[t].phase = "sent" /\ late' = late /\ ready' = ready
        /\ wire \in [Tasks -> Call] /\ daemon \in Daemon /\ late \subseteq Command
        /\ ready \subseteq Tasks
    BY Zenon DEF Handle, PluginInv, TypeOK, LinkTypeOK
  <1>2. ASSUME TasksStay, daemon' \in Daemon, NEW reply \in Replies \ {"none"},
               Replied(t, reply),
               \A s \in Sessions \ deleted : daemon'.token[s] \in {NoToken, states[s]}
        PROVE  PluginInv'
    <2>1. /\ wire' \in [Tasks -> Call]
          /\ \A v \in Tasks \ {t} : wire'[v] = wire[v]
          /\ \A v \in Tasks : /\ CallOK(wire[v])'
                              /\ wire[v].phase = "replied" => wire'[v].phase = "replied"
      BY <1>2, RepliedCall
    <2>2. \A v \in Tasks : wire[v].phase = "none" => wire'[v].phase = "none"
      BY <1>1, <2>1, Zenon
    <2>3. /\ \A v \in ready' : wire'[v].phase = "replied"
          /\ \A m \in late' : m.session \notin deleted =>
                                 m.token = states[m.session] /\ m.token # NoToken
      BY <1>1, <2>1, Zenon DEF PluginInv
    <2> QED
      BY <1>1, <1>2, <2>1, <2>2, <2>3, StayKeepsInv, Zenon
  <1>3. ASSUME task' = task, daemon' = daemon, NEW reply \in Replies \ {"none"},
               Replied(t, reply), task[t].pc # "register" \/ reply # "ok",
               reply # "unknown_token" \/
                  ~\E s \in Sessions : daemon.token[s] = task[t].token
        PROVE  Kind
    <2>1. TasksStay /\ wire'[t].reply = reply /\ \A v \in Tasks \ {t} : wire'[v] = wire[v]
      BY <1>3, Unmoved, RepliedCall
    <2>2. PluginInv'
      BY <1>1, <1>2, <1>3, <2>1, ZenonT(30) DEF PluginInv
    <2>3. \A u \in Tasks : Stale(u)' => Stale(u)
      BY <1>3, <2>1, Zenon DEF Stale
    <2>4. ASSUME NEW v \in Tasks, Undisturbed(v)',
                 daemon.token[task[v].session] = task[v].token
          PROVE  wire'[v].reply = wire[v].reply \/ wire'[v].reply # "unknown_token"
      <3>1. task[v].session \in Sessions
        BY <2>1, <2>4, StayUndisturbed, TaskFacts, Zenon DEF Undisturbed, TaskOK
      <3> QED
        BY <1>3, <2>1, <2>4, <3>1, Zenon
    <2>5. HealInv'
      BY <1>1, <1>3, <2>1, <2>3, <2>4, StayHeals, ZenonT(30)
    <2> QED
      BY <1>3, <2>2, <2>5, Zenon DEF Kind
  <1>4. ASSUME NEW m \in Command, Perform(m), Harmless(m), Replied(t, "ok"),
               task[t].session = m.session, task[t].pc # "request"
        PROVE  Kind
    <2>1. TasksStay /\ daemon' \in Daemon
      BY <1>4, Performed
    <2>2. "ok" \in Replies \ {"none"}
      BY Zenon DEF Replies
    <2>3. \A v \in Tasks : \/ wire'[v] = wire[v]
                           \/ task[v].session = m.session /\ task[v].pc # "request"
      BY <1>4, <2>2, RepliedCall
    <2>4. /\ HealInv'
          /\ \A s \in Sessions \ deleted : daemon'.token[s] \in {NoToken, states[s]}
          /\ \A s \in Sessions \ deleted :
                daemon.token[s] # NoToken => daemon'.token[s] = daemon.token[s]
      BY <1>1, <1>4, <2>3, PerformedHarmless, ZenonT(30)
    <2>5. PluginInv'
      BY <1>2, <1>4, <2>1, <2>2, <2>4, Zenon
    <2> QED
      BY <2>4, <2>5, Zenon DEF Kind
  <1>5. CASE HandleHello(t)
    <2>1. "hello" \in Replies \ {"none"}
      BY Zenon DEF Replies
    <2> QED
      BY <1>3, <1>5, <2>1 DEF HandleHello
  <1>6. CASE HandleRequest(t)
    <2>1. PICK reply : /\ Replied(t, reply) /\ reply \in {"answered", "unknown_token"}
                       /\ reply = "unknown_token" =>
                             ~\E s \in Sessions : daemon.token[s] = task[t].token
      BY <1>6 DEF HandleRequest
    <2>2. reply \in Replies \ {"none"} /\ task' = task /\ daemon' = daemon
      BY <1>6, <2>1, Zenon DEF Replies, HandleRequest
    <2> QED
      BY <1>3, <1>6, <2>1, <2>2, Zenon DEF HandleRequest
  <1>7. CASE HandleRegister(t)
    <2>1. PICK m : m = [session |-> task[t].session, token |-> task[t].registering]
      BY ZenonT(30)
    <2>2. m.session = task[t].session /\ m.token = task[t].registering
      BY <2>1, Zenon
    <2>3. m \in Command /\ Harmless(m)
      BY <1>7, <2>1, <2>2, TaskFacts
         DEF HandleRegister, Command, Task, Harmless, TaskOK, EnsuringPcs, RegistrarPcs
    <2> QED
      BY <1>4, <1>7, <2>1, <2>2, <2>3 DEF HandleRegister
  <1>8. CASE HandleUnregister(t)
    <2>1. PICK m : m = [session |-> task[t].session, token |-> NoToken]
      BY Zenon
    <2>2. m.session = task[t].session /\ m.token = NoToken
      BY <2>1, Zenon
    <2>3. task[t].session \in Sessions /\ task[t].session \in deleted
      BY <1>8, TaskFacts, Zenon
         DEF HandleUnregister, TaskOK, EnsuringPcs, RegistrarPcs, RequestPcs, ClosingPcs
    <2>4. m \in Command /\ Harmless(m)
      BY <2>1, <2>2, <2>3, Zenon DEF Command, Harmless
    <2> QED
      BY <1>4, <1>8, <2>1, <2>2, <2>4, Zenon DEF HandleUnregister
  <1> QED
    BY <1>5, <1>6, <1>7, <1>8, ZenonT(30) DEF Handle

LEMMA LateStep ==
    ASSUME PluginInv, HealInv, NEW m \in late, HandleLate(m), SameMemory
    PROVE  Kind
  <1>1. /\ m \in Command /\ Harmless(m) /\ Perform(m)
        /\ late' \subseteq late /\ wire' = wire /\ ready' = ready
    BY Zenon DEF PluginInv, TypeOK, LinkTypeOK, Harmless, HandleLate
  <1>2. TasksStay /\ daemon' \in Daemon
    BY <1>1, Performed
  <1>3. /\ HealInv'
        /\ \A s \in Sessions \ deleted : daemon'.token[s] \in {NoToken, states[s]}
        /\ \A s \in Sessions \ deleted :
              daemon.token[s] # NoToken => daemon'.token[s] = daemon.token[s]
    BY <1>1, PerformedHarmless, ZenonT(30)
  <1>4. PluginInv'
    BY <1>1, <1>2, <1>3, StayKeepsInv, ZenonT(30) DEF PluginInv, TypeOK, LinkTypeOK, CallOK
  <1> QED
    BY <1>3, <1>4, Zenon DEF Kind

LEMMA RestartStep ==
    ASSUME PluginInv, HealInv, Restart, SameMemory
    PROVE  Kind
  <1>1. /\ wire' = wire /\ late' = late /\ ready' = ready /\ Disturb(Tokens)
        /\ daemon' = [instance |-> daemon.instance + 1, token |-> [s \in Sessions |-> NoToken]]
        /\ daemon.instance \in 1..MaxInstances /\ daemon.instance < MaxInstances
    BY Zenon DEF Restart, PluginInv, TypeOK, LinkTypeOK, Daemon
  <1>2. TasksStay /\ \A v \in Tasks : task[v].token \in Tokens => task'[v].disturbed
    BY <1>1, DisturbStays
  <1>3. /\ daemon' \in Daemon /\ daemon'.instance # daemon.instance
        /\ \A s \in Sessions : daemon'.token[s] = NoToken
    BY <1>1, LinkAssumption DEF Daemon
  <1>4. PluginInv'
    BY <1>1, <1>2, <1>3, StayKeepsInv, Zenon DEF PluginInv, TypeOK, LinkTypeOK, CallOK
  <1>5. ASSUME NEW t \in Tasks PROVE ~Undisturbed(t)'
    <2>1. task[t].token \in Tokens \cup {NoToken} /\ task'[t].token = task[t].token
      BY <1>2, TaskFacts DEF TasksStay, Task
    <2> QED
      BY <1>2, <2>1, ZenonT(30) DEF Undisturbed
  <1>6. HealInv'
    BY <1>5, Zenon DEF HealInv, HealOK
  <1> QED
    BY <1>3, <1>4, <1>6, ZenonT(30) DEF Kind

-----------------------------------------------------------------------------
(* The theorems. *)

LEMMA PluginInit == Init => PluginInv /\ HealInv /\ TokenFileIsCurrent
  <1> SUFFICES ASSUME Init PROVE PluginInv /\ HealInv /\ TokenFileIsCurrent
    OBVIOUS
  <1>1. /\ daemon = [instance |-> 1, token |-> [s \in Sessions |-> NoToken]]
        /\ task = [t \in Tasks |-> Idle] /\ wire = [t \in Tasks |-> NoCall]
        /\ late = {} /\ ready = {}
    BY DEF Init, LinkInit
  <1>2. daemon \in Daemon /\ \A s \in Sessions : daemon.token[s] = NoToken
    BY <1>1, LinkAssumption DEF Daemon
  <1>3. \A t \in Tasks : task[t] = Idle /\ wire[t] = NoCall
    BY <1>1
  <1>4. TypeOK
    <2>1. task \in [Tasks -> Task] /\ wire \in [Tasks -> Call]
      BY <1>1, RecordTypes
    <2>2. 0 \in 0..MaxInstances /\ 0 \in 0..MaxTokens
      BY LinkAssumption
    <2> QED
      BY <1>1, <1>2, <2>1, <2>2, ZenonT(30) DEF Init, TypeOK, LinkTypeOK
  <1>5. \A t \in Tasks : TaskOK(t, task[t], wire[t], states, registrations, deleted)
    BY <1>3, RecordTypes, Zenon DEF TaskOK, EnsuringPcs, RegistrarPcs, RequestPcs, ClosingPcs
  <1>6. PluginInv
    BY <1>1, <1>2, <1>3, <1>4, <1>5, RecordTypes, Zenon DEF Init, PluginInv, Registrar, CallOK
  <1>7. HealInv
    BY <1>3, RecordTypes, Zenon DEF HealInv, HealOK, Undisturbed
  <1>8. TokenFileIsCurrent
    BY DEF Init, TokenFileIsCurrent
  <1> QED
    BY <1>6, <1>7, <1>8

LEMMA EveryStep ==
    PluginInv /\ HealInv /\ [Next]_vars =>
       Kind /\ (TokenFileIsCurrent => TokenFileIsCurrent')
  <1> SUFFICES ASSUME PluginInv, HealInv, [Next]_vars
               PROVE  Kind /\ (TokenFileIsCurrent => TokenFileIsCurrent')
    BY Zenon
  <1>1. SameMemory => (TokenFileIsCurrent => TokenFileIsCurrent')
    BY MemoryKept DEF TokenFileIsCurrent
  <1>2. CASE Plugin
    BY <1>2, PluginStep, Zenon DEF Kind
  <1>3. CASE Environment
    <2>1. CASE Outside(Poll)
      BY <1>1, <2>1, PollStep, Zenon DEF Outside, SameMemory, Kind
    <2>2. ASSUME NEW t \in Tasks, Outside(LineFails(t)) \/ Outside(Handle(t))
          PROVE  Kind /\ (TokenFileIsCurrent => TokenFileIsCurrent')
      BY <1>1, <2>2, FailStep, HandleStep, Zenon DEF Outside, SameMemory, Kind
    <2>3. ASSUME NEW m \in late, Outside(HandleLate(m))
          PROVE  Kind /\ (TokenFileIsCurrent => TokenFileIsCurrent')
      BY <1>1, <2>3, LateStep, Zenon DEF Outside, SameMemory
    <2>4. CASE Outside(Restart)
      BY <1>1, <2>4, RestartStep, Zenon DEF Outside, SameMemory
    <2> QED
      BY <1>3, <2>1, <2>2, <2>3, <2>4, Zenon DEF Environment
  <1>4. CASE UNCHANGED vars
    <2>1. /\ UNCHANGED <<daemon, task, wire, late, ready>> /\ SameMemory
          /\ UNCHANGED <<states, file, registered, registrations, brokerInstance, minted,
                         aborted, deleted>>
      BY <1>4 DEF vars, linkVars, SameMemory, memory
    <2>2. Goes /\ MemoryOK'
      <3>1. \A x \in Sessions \ deleted : Registrar(x)
        BY DEF PluginInv
      <3> QED
        BY <2>1, <3>1, ZenonT(30)
           DEF Goes, Turn, Kept, Registrar, RegistrationStays, MemoryOK,
                          PluginInv, TypeOK, LinkTypeOK
    <2> QED
      BY <1>1, <2>1, <2>2, GoesKeeps, ZenonT(30) DEF Kind
  <1> QED
    BY <1>2, <1>3, <1>4, Zenon DEF Next

LEMMA PluginInvariant == Spec => [](PluginInv /\ HealInv)
  <1>1. PluginInv /\ HealInv /\ [Next]_vars => PluginInv' /\ HealInv'
    BY EveryStep DEF Kind
  <1> QED
    BY <1>1, PluginInit, PTL DEF Spec

(* The token file, which the command-line client reads, never holds a      *)
(* token that the plugin has forgotten or replaced: every function that    *)
(* changes the one changes the other in the same turn of the event loop.   *)
THEOREM TokenFileIsCurrentHolds == Spec => []TokenFileIsCurrent
  <1>1. PluginInv /\ HealInv /\ TokenFileIsCurrent /\ [Next]_vars => TokenFileIsCurrent'
    BY EveryStep
  <1> QED
    BY <1>1, PluginInit, PluginInvariant, PTL DEF Spec

(* Only the end of the daemon process ends the registration of a living    *)
(* session: ensureRegistered always works for the session's one token, and *)
(* an UNREGISTER, however late, is for a session that is gone.             *)
THEOREM RegistrationKeptHolds == Spec => RegistrationKept
  <1>1. PluginInv /\ HealInv /\ [Next]_vars =>
           [\A s \in Sessions \ deleted :
              daemon.token[s] # NoToken /\ daemon'.instance = daemon.instance
                  => daemon'.token[s] = daemon.token[s]]_vars
    BY EveryStep DEF Kind
  <1> QED
    BY <1>1, PluginInvariant, PTL DEF Spec, RegistrationKept

(* The one retry of requestSecret heals every restart before the call,    *)
(* for any number of hooks that register and request at the same time: by  *)
(* the time a stale confirmation of a lost registration resumes anybody,   *)
(* no tool that has already had its token waits for it.                    *)
THEOREM RetryHealsHolds == Spec => []RetryHeals
  <1>1. PluginInv /\ HealInv => RetryHeals
    <2> SUFFICES ASSUME PluginInv, HealInv, NEW t \in Tasks, task[t].pc = "request",
                        task[t].retried, wire[t].reply = "unknown_token",
                        task[t].session \notin deleted, ~task[t].disturbed
                 PROVE  FALSE
      BY Zenon DEF RetryHeals
    <2>1. task[t].token # NoToken
      BY TaskFacts DEF TaskOK, RequestPcs
    <2> QED
      BY <2>1, Zenon DEF HealInv, HealOK, Undisturbed
  <1> QED
    BY <1>1, PluginInvariant, PTL

=============================================================================
