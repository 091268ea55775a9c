--------------------------- MODULE OmpLoopProofs ----------------------------
(***************************************************************************)
(* The event loop of the omp extension, for any number of instances,       *)
(* concurrent hooks, anchors and daemon processes: the invariants behind   *)
(* the theorems of OmpProofs, and that every step in which a hook begins,  *)
(* goes on or ends keeps them.                                             *)
(*                                                                         *)
(* A step of the event loop first changes the heap of anchors, then moves  *)
(* tasks on.  The invariants are shown for the tasks that move, and        *)
(* carried over for the others by TurnKeepsInv, TurnHeals and TurnIsClean. *)
(***************************************************************************)
EXTENDS OmpExtension, TLAPS

-----------------------------------------------------------------------------
(* The invariant. *)

RegistrarPcs == {"register_hello", "register"}
UndoPcs == {"undo_hello", "undo"}
RunPcs == RegistrarPcs \cup UndoPcs
RequestPcs == {"request_hello", "request"}
EnsuringPcs == {"probe", "joined"} \cup RegistrarPcs
AnchorPcs == EnsuringPcs \cup UndoPcs \cup RequestPcs
ClosingPcs == {"unregister_hello", "unregister"}

(* An anchor for session s was retired. *)
Retired(s, hp, m) == \E j \in 1..m : hp[j].aborted /\ hp[j].session = s

(* A task in state r works for an anchor, and for that one's session. *)
Working(r, hp, m) ==
    /\ r.registering \in 1..m
    /\ r.session = hp[r.registering].session
    /\ r.kind \in {"shell", "tool"}
    /\ r.token \in {NoToken, r.registering}
    /\ r.retried => r.token # NoToken

(* What task t may rely on when it resumes, if it is in state r with the   *)
(* call w, the anchors are hp, m of them were minted and cur is the        *)
(* process's one.                                                          *)
TaskOK(t, r, w, hp, cur, m) ==
    /\ r.pc \in {"idle", "joined"} => w.phase = "none"
    /\ r.pc \in AnchorPcs => Working(r, hp, m)
    /\ r.pc = "probe" => ~r.retried
    /\ r.pc \in RunPcs => hp[r.registering].registration = t
    /\ r.pc = "joined" => hp[r.registering].registration = r.owner /\ r.owner # None
    /\ r.pc \in UndoPcs => hp[r.registering].aborted
    /\ r.pc \in RequestPcs => r.token = r.registering /\ r.token = cur /\ ~hp[cur].aborted
    /\ r.pc \in ClosingPcs =>
          /\ Retired(r.session, hp, m)
          /\ r.kind \in {"close", "rekey"}
          /\ r.kind = "close" => r.token = cur /\ cur # NoToken /\ hp[cur].aborted
          /\ r.kind = "rekey" => r.registering \in 1..m

(* Only the newest anchor can be the process's one; the others were        *)
(* retired.                                                                *)
HeapOK(hp, cur, m) ==
    /\ cur \in {NoToken, m}
    /\ \A k \in Tokens : k > m => hp[k] = NoAnchor
    /\ \A k \in 1..m : /\ hp[k].session \in Sessions
                       /\ k = cur \/ hp[k].aborted
                       /\ hp[k].registered => hp[k].registration = None

(* registration names the task that runs the registration. *)
Registrar(k) ==
    anchors[k].registration # None => /\ task[anchors[k].registration].pc \in RunPcs
                                      /\ task[anchors[k].registration].registering = k

(* The instance that will tear the present anchor down, and the task that  *)
(* does.                                                                   *)
Owner(i) == instances[i].isOwner /\ ~instances[i].aborted

OwnerOK ==
    \A i, j \in Instances : Owner(i) /\ Owner(j) =>
        i = j /\ current # NoToken /\ ~anchors[current].aborted

Closes(t) == task[t].pc \in ClosingPcs /\ task[t].kind = "close"

CloserOK == \A t, u \in Tasks : Closes(t) /\ Closes(u) => t = u

DaemonOK ==
    \A s \in Sessions : daemon.token[s] # NoToken =>
        daemon.token[s] \in 1..minted /\ anchors[daemon.token[s]].session = s

(* A command that was given up is one that a task could send. *)
CommandOK(m) ==
    IF m.token # NoToken
    THEN m.token \in 1..minted /\ anchors[m.token].session = m.session
    ELSE Retired(m.session, anchors, minted)

CallOK(w) == w.reply = "none" <=> w.phase # "replied"

OmpInv ==
    /\ TypeOK
    /\ HeapOK(anchors, current, minted)
    /\ \A k \in 1..minted : Registrar(k)
    /\ \A t \in Tasks : TaskOK(t, task[t], wire[t], anchors, current, minted)
    /\ OwnerOK /\ CloserOK /\ DaemonOK
    /\ \A m \in late : CommandOK(m)
    /\ \A t \in ready : wire[t].phase = "replied"
    /\ \A t \in Tasks : CallOK(wire[t])

-----------------------------------------------------------------------------
(* Records. *)

LEMMA RecordTypes ==
    /\ Idle \in Task /\ Idle.pc = "idle"
    /\ NoCall \in Call /\ NoCall.phase = "none" /\ NoCall.reply = "none"
    /\ Sent \in Call /\ Sent.phase = "sent" /\ Sent.reply = "none"
  BY LinkAssumption DEF Idle, Task, NoCall, Sent, Call, Replies, NoToken

LEMMA AnchorTypes ==
    /\ NoAnchor \in SharedAnchor /\ NoAnchor.session = None /\ ~NoAnchor.registered
    /\ NoAnchor.registration = None /\ ~NoAnchor.aborted /\ NoAnchor.brokerInstance = 0
  BY LinkAssumption DEF NoAnchor, SharedAnchor

(* What the invariant says of the extension's memory. *)
LEMMA MemoryFacts ==
    ASSUME OmpInv
    PROVE  /\ TypeOK /\ HeapOK(anchors, current, minted)
           /\ anchors \in [Tokens -> SharedAnchor] /\ task \in [Tasks -> Task]
           /\ instances \in [Instances -> Instance]
           /\ file \in [Sessions -> Tokens \cup {NoToken}]
           /\ current \in Tokens \cup {NoToken} /\ current \in {NoToken, minted}
           /\ minted \in 0..MaxTokens /\ minted \in Nat /\ MaxTokens \in Nat
           /\ 1..minted \subseteq Tokens /\ ready \subseteq Tasks
           /\ current # NoToken => current \in 1..minted
  <1>1. minted \in 0..MaxTokens /\ current \in Tokens \cup {NoToken} /\ MaxTokens \in Nat
    BY LinkAssumption, Zenon DEF OmpInv, TypeOK
  <1>2. current \in {NoToken, minted}
    BY Zenon DEF OmpInv, HeapOK
  <1>3. minted \in Nat /\ 1..minted \subseteq Tokens /\ (current # NoToken => current \in 1..minted)
    BY <1>1, <1>2 DEF Tokens, NoToken
  <1> QED
    BY <1>1, <1>2, <1>3, Zenon DEF OmpInv, TypeOK, LinkTypeOK

(* What task t knows when it resumes. *)
LEMMA TaskFacts ==
    ASSUME OmpInv, NEW t \in Tasks
    PROVE  /\ task[t] \in Task /\ wire[t] \in Call
           /\ TaskOK(t, task[t], wire[t], anchors, current, minted)
           /\ task[t].pc \in {"idle", "joined"} => t \notin ready /\ wire[t].reply = "none"
  BY Zenon DEF OmpInv, TypeOK, LinkTypeOK, TaskOK, CallOK

-----------------------------------------------------------------------------
(* Steps of the event loop. *)

(* Task v is left alone. *)
Kept(v) ==
    /\ task'[v] = task[v] /\ wire'[v] = wire[v]
    /\ v \in ready' <=> v \in ready

(* The call w of a task that has just come to await at pc. *)
NewCall(w, pc) ==
    /\ w.reply = "none"
    /\ w.phase = IF pc \in HelloPcs \cup CommandPcs THEN "sent" ELSE "none"

(* Task v goes on to its next await, or ends. *)
Moved(v) ==
    /\ v \notin ready' /\ NewCall(wire'[v], task'[v].pc)
    /\ TaskOK(v, task'[v], wire'[v], anchors', current', minted')

(* What task v, left alone, relies on is still there. *)
Undisrupted(v) ==
    /\ task[v].pc \in RunPcs \cup {"joined"} =>
          anchors'[task[v].registering].registration
             = anchors[task[v].registering].registration
    /\ task[v].pc \in RequestPcs => current' = current /\ ~anchors'[current].aborted
    /\ Closes(v) => current' = current

(* The anchors hp keep their sessions, and the retired ones stay retired. *)
Grows(hp) ==
    /\ minted' \in minted..MaxTokens
    /\ \A k \in 1..minted : /\ hp[k].session = anchors[k].session
                            /\ anchors[k].aborted => hp[k].aborted

(* What a step that moves tasks on leaves for the others to rely on. *)
Turn ==
    /\ daemon' = daemon /\ late' = late
    /\ Grows(anchors')
    /\ HeapOK(anchors', current', minted')
    /\ \A k \in 1..minted' : Registrar(k)'
    /\ \A v \in Tasks : (Kept(v) /\ Undisrupted(v)) \/ Moved(v)

LEMMA RetiredStays ==
    ASSUME OmpInv, Grows(anchors'), NEW s, Retired(s, anchors, minted)
    PROVE  Retired(s, anchors', minted')
  <1>1. 1..minted \subseteq 1..minted'
    BY MemoryFacts DEF Grows
  <1> QED
    BY <1>1, Zenon DEF Grows, Retired

LEMMA TurnKeepsTask ==
    ASSUME OmpInv, Turn, NEW v \in Tasks, Kept(v), Undisrupted(v)
    PROVE  TaskOK(v, task'[v], wire'[v], anchors', current', minted')
  <1> DEFINE r == task[v]
  <1>1. /\ task'[v] = r /\ wire'[v] = wire[v]
        /\ TaskOK(v, r, wire[v], anchors, current, minted)
    BY TaskFacts, Zenon DEF Kept
  <1>2. 1..minted \subseteq 1..minted' /\ Grows(anchors')
    BY MemoryFacts DEF Grows, Turn
  <1>3. r.pc \in AnchorPcs => /\ Working(r, anchors', minted')
                              /\ r.registering \in 1..minted
    BY <1>1, <1>2, Zenon DEF TaskOK, Working, Grows
  <1>4. /\ r.pc \in RunPcs => anchors'[r.registering].registration = v
        /\ r.pc = "joined" => anchors'[r.registering].registration = r.owner /\ r.owner # None
    BY <1>1, Zenon DEF TaskOK, Undisrupted
  <1>5. r.pc \in UndoPcs => anchors'[r.registering].aborted
    BY <1>1, <1>2, <1>3, Zenon DEF TaskOK, Grows, AnchorPcs
  <1>6. r.pc \in RequestPcs =>
          r.token = r.registering /\ r.token = current' /\ ~anchors'[current'].aborted
    BY <1>1, Zenon DEF TaskOK, Undisrupted
  <1>7. r.pc \in ClosingPcs =>
          /\ Retired(r.session, anchors', minted')
          /\ r.kind \in {"close", "rekey"}
          /\ r.kind = "close" =>
                r.token = current' /\ current' # NoToken /\ anchors'[current'].aborted
          /\ r.kind = "rekey" => r.registering \in 1..minted'
    <2> SUFFICES ASSUME r.pc \in ClosingPcs
                 PROVE  /\ Retired(r.session, anchors', minted')
                        /\ r.kind \in {"close", "rekey"}
                        /\ r.kind = "close" =>
                              r.token = current' /\ current' # NoToken /\ anchors'[current'].aborted
                        /\ r.kind = "rekey" => r.registering \in 1..minted'
      BY Zenon
    <2>1. Retired(r.session, anchors', minted') /\ r.kind \in {"close", "rekey"}
      BY <1>1, <1>2, RetiredStays, Zenon DEF TaskOK
    <2>2. ASSUME r.kind = "close"
          PROVE r.token = current' /\ current' # NoToken /\ anchors'[current'].aborted
      <3>1. /\ current' = current /\ r.token = current /\ current # NoToken
            /\ current \in 1..minted /\ anchors[current].aborted
        BY <1>1, <2>2, MemoryFacts, Zenon DEF TaskOK, Undisrupted, Closes
      <3>2. anchors'[current].aborted
        BY <1>2, <3>1, Zenon DEF Grows
      <3> QED
        BY <3>1, <3>2, Zenon
    <2> QED
      BY <1>1, <1>2, <2>1, <2>2, Zenon DEF TaskOK
  <1>8. TaskOK(v, r, wire[v], anchors', current', minted')
    BY <1>1, <1>3, <1>4, <1>5, <1>6, <1>7, Zenon DEF TaskOK
  <1> QED
    BY <1>1, <1>8, Zenon

LEMMA TurnKeepsInv ==
    ASSUME OmpInv, TypeOK', Turn, OwnerOK', CloserOK'
    PROVE  OmpInv'
  <1>1. \A v \in Tasks : TaskOK(v, task'[v], wire'[v], anchors', current', minted')
    BY TurnKeepsTask, Zenon DEF Turn, Moved
  <1>2. \A v \in Tasks : CallOK(wire'[v])
    <2> SUFFICES ASSUME NEW v \in Tasks PROVE CallOK(wire'[v])
      BY Zenon
    <2>1. CASE Kept(v)
      BY <2>1, Zenon DEF OmpInv, Kept
    <2>2. CASE Moved(v)
      BY <2>2, Zenon DEF Moved, NewCall, CallOK
    <2> QED
      BY <2>1, <2>2, Zenon DEF Turn
  <1>3. \A v \in ready' : wire'[v].phase = "replied"
    BY Zenon DEF OmpInv, TypeOK, LinkTypeOK, Turn, Kept, Moved
  <1>4. 1..minted \subseteq 1..minted' /\ Grows(anchors') /\ daemon' = daemon /\ late' = late
    BY MemoryFacts DEF Grows, Turn
  <1>5. DaemonOK'
    BY <1>4, Zenon DEF OmpInv, DaemonOK, Grows
  <1>6. \A m \in late' : CommandOK(m)'
    <2> SUFFICES ASSUME NEW m \in late PROVE CommandOK(m)'
      BY <1>4, Zenon
    <2>1. CommandOK(m)
      BY Zenon DEF OmpInv
    <2> QED
      BY <1>4, <2>1, RetiredStays, Zenon DEF CommandOK, Grows
  <1>7. HeapOK(anchors, current, minted)' /\ \A k \in 1..minted' : Registrar(k)'
    BY Zenon DEF Turn
  <1> QED
    BY <1>1, <1>2, <1>3, <1>5, <1>6, <1>7, Zenon DEF OmpInv

-----------------------------------------------------------------------------
(* The retry. *)

(* The daemon has lost a registration that it has confirmed to task u. *)
Stale(u) ==
    /\ task[u].pc = "register" /\ wire[u].reply = "ok"
    /\ daemon.token[task[u].session] # task[u].registering

(* Task t works with a token that it has had since before any restart. *)
Undisturbed(t) ==
    /\ task[t].pc \in EnsuringPcs \cup RequestPcs
    /\ task[t].token # NoToken /\ ~task[t].disturbed

(* A stale confirmation is for nobody who has the token. *)
HealOK(t) ==
    Undisturbed(t) =>
      /\ task[t].retried /\ task[t].pc \in RequestPcs =>
            daemon.token[task[t].session] = task[t].token
      /\ task[t].retried /\ task[t].pc = "request" => wire[t].reply # "unknown_token"
      /\ \A u \in Tasks : Stale(u) => task[u].registering # task[t].token

HealInv == \A t \in Tasks : HealOK(t)

(* How a task with a token goes on: it has just got the token, or has had  *)
(* it before.                                                              *)
Advances(v) ==
    Undisturbed(v)' =>
      \/ /\ task'[v].pc = "request_hello"
         /\ task'[v].retried => daemon.token[task'[v].session] = task'[v].token
         /\ \A u \in Tasks : Kept(u) /\ Stale(u) => task[u].registering # task'[v].token
      \/ /\ Undisturbed(v)
         /\ task'[v].token = task[v].token
         /\ \/ task'[v].pc \notin RequestPcs
            \/ /\ task'[v].pc = "request" /\ task[v].pc = "request_hello"
               /\ task'[v].session = task[v].session
               /\ task'[v].retried = task[v].retried

LEMMA TurnHeals ==
    ASSUME HealInv, Turn, \A v \in Tasks : Kept(v) \/ Advances(v)
    PROVE  HealInv'
  <1> SUFFICES ASSUME NEW t \in Tasks, Undisturbed(t)' PROVE HealOK(t)'
    BY Zenon DEF HealInv, HealOK
  <1>1. ASSUME NEW u \in Tasks, Stale(u)' PROVE Kept(u) /\ Stale(u)
    <2>1. wire'[u].reply # "none" /\ daemon' = daemon
      BY <1>1, Zenon DEF Stale, Turn
    <2>2. Kept(u)
      BY <2>1, Zenon DEF Turn, Moved, NewCall
    <2> QED
      BY <1>1, <2>1, <2>2, Zenon DEF Kept, Stale
  <1>2. HealOK(t) /\ daemon' = daemon
    BY Zenon DEF HealInv, Turn
  <1>3. CASE Kept(t)
    <2>1. Undisturbed(t)
      BY <1>3, Zenon DEF Undisturbed, Kept
    <2>2. \A u \in Tasks : Stale(u)' => task'[u].registering # task'[t].token
      BY <1>1, <1>2, <1>3, <2>1, Zenon DEF HealOK, Kept
    <2> QED
      BY <1>2, <1>3, <2>1, <2>2, Zenon DEF HealOK, Kept
  <1>4. CASE ~Kept(t)
    <2>1. Advances(t) /\ wire'[t].reply = "none"
      BY <1>4, Zenon DEF Turn, Moved, NewCall
    <2>2. \A u \in Tasks : Stale(u)' => task'[u].registering # task'[t].token
      BY <1>1, <1>2, <2>1, Zenon DEF HealOK, Kept, Advances
    <2>3. task'[t].retried /\ task'[t].pc \in RequestPcs =>
             daemon.token[task'[t].session] = task'[t].token
      BY <1>2, <2>1, Zenon DEF HealOK, Advances, RequestPcs
    <2>4. wire'[t].reply # "unknown_token"
      BY <2>1, Zenon
    <2> QED
      BY <1>2, <2>2, <2>3, <2>4, Zenon DEF HealOK
  <1> QED
    BY <1>3, <1>4, Zenon

-----------------------------------------------------------------------------
(* Without failures. *)

(* The reply that task t has is the one it expects. *)
Proper(t) ==
    wire[t].phase = "replied" =>
       /\ task[t].pc \in HelloPcs => wire[t].reply = "hello"
       /\ task[t].pc \in {"register", "undo", "unregister"} => wire[t].reply = "ok"

(* Some task still registers token j, or is about to unregister session s. *)
Going(j, s) ==
    \E t \in Tasks : \/ task[t].pc \in RegistrarPcs /\ task[t].registering = j
                     \/ /\ task[t].session = s
                        /\ \/ task[t].pc \in {"undo_hello", "unregister_hello"}
                           \/ task[t].pc \in {"undo", "unregister"} /\ wire[t].phase = "sent"

(* The present anchor is live and believes that it is registered. *)
Believes == current # NoToken /\ ~anchors[current].aborted /\ anchors[current].registered

(* Whatever the daemon holds is the present anchor's or will go. *)
CleanInv ==
    failures = 0 /\ daemon.instance = 1 =>
      /\ late = {}
      /\ \A t \in Tasks : Proper(t)
      /\ \A s \in Sessions : daemon.token[s] # NoToken =>
            Going(daemon.token[s], s) \/ (daemon.token[s] = current /\ Believes)

(* No process was heard of that has not been. *)
SeenInv ==
    /\ \A t \in Tasks : wire[t].reply = "hello" => wire[t].instance \in 1..daemon.instance
    /\ \A k \in Tokens : anchors[k].brokerInstance \in 0..daemon.instance

Clean == failures = 0 /\ daemon.instance = 1 /\ CleanInv /\ SeenInv

(* How a task that registers or unregisters goes on. *)
Passes(v) ==
    /\ task[v].pc \in RegistrarPcs =>
          \/ task'[v].pc \in RegistrarPcs /\ task'[v].registering = task[v].registering
          \/ task'[v].pc = "undo_hello" /\ task'[v].session = task[v].session
          \/ current' = task[v].registering /\ Believes'
    /\ task[v].pc \in {"undo_hello", "unregister_hello"} =>
          task'[v].pc \in {"undo", "unregister"} /\ task'[v].session = task[v].session
    /\ task[v].pc \in {"undo", "unregister"} => wire[v].phase # "sent"

(* Who takes the registration of the present anchor over. *)
HandsOn ==
    Believes =>
      \/ current' = current /\ Believes'
      \/ \E t \in Tasks :
            \/ task'[t].pc \in RegistrarPcs /\ task'[t].registering = current
            \/ /\ task'[t].pc = "unregister_hello"
               /\ task'[t].session = anchors[current].session

LEMMA TurnIsClean ==
    ASSUME OmpInv, Clean, Turn, HandsOn, \A v \in Tasks : Kept(v) \/ Passes(v)
    PROVE  CleanInv'
  <1>1. daemon' = daemon /\ late' = {} /\ \A t \in Tasks : Proper(t)
    BY Zenon DEF Turn, Clean, CleanInv
  <1>2. ASSUME NEW t \in Tasks PROVE Proper(t)'
    <2>1. CASE Kept(t)
      BY <1>1, <2>1, Zenon DEF Proper, Kept
    <2>2. CASE Moved(t)
      BY <2>2, Zenon DEF Proper, Moved, NewCall
    <2> QED
      BY <2>1, <2>2, Zenon DEF Turn
  <1>3. ASSUME NEW s \in Sessions, daemon.token[s] # NoToken
        PROVE  Going(daemon.token[s], s)' \/ (daemon.token[s] = current' /\ Believes')
    <2> DEFINE j == daemon.token[s]
    <2>1. j \in 1..minted /\ anchors[j].session = s
      BY <1>3, Zenon DEF OmpInv, DaemonOK
    <2>2. CASE j = current /\ Believes
      BY <1>1, <2>1, <2>2, Zenon DEF HandsOn, Going
    <2>3. CASE Going(j, s)
      <3>1. PICK v \in Tasks :
               \/ task[v].pc \in RegistrarPcs /\ task[v].registering = j
               \/ /\ task[v].session = s
                  /\ \/ task[v].pc \in {"undo_hello", "unregister_hello"}
                     \/ task[v].pc \in {"undo", "unregister"} /\ wire[v].phase = "sent"
        BY <2>3, Zenon DEF Going
      <3>2. task[v].pc \in RegistrarPcs => task[v].session = s
        <4>1. task[v].pc \in RegistrarPcs => /\ Working(task[v], anchors, minted)
                                             /\ task[v].registering = j
          BY <3>1, TaskFacts, Zenon DEF TaskOK, AnchorPcs, EnsuringPcs, RegistrarPcs
        <4> QED
          BY <2>1, <4>1, Zenon DEF Working
      <3>3. CASE Kept(v)
        BY <1>1, <3>1, <3>3, Zenon DEF Kept, Going
      <3>4. CASE Passes(v) /\ Moved(v)
        <4>1. CASE task[v].pc \in RegistrarPcs
          BY <1>1, <3>1, <3>2, <3>4, <4>1, Zenon DEF Passes, Going, RegistrarPcs
        <4>2. CASE task[v].pc \in {"undo_hello", "unregister_hello"}
          <5>1. wire'[v].phase = "sent" /\ task'[v].pc \in {"undo", "unregister"}
            BY <3>4, <4>2, Zenon DEF Passes, Moved, NewCall, CommandPcs
          <5>2. task'[v].session = s
            BY <3>1, <3>4, <4>2, Zenon DEF Passes, RegistrarPcs
          <5> QED
            BY <1>1, <5>1, <5>2, Zenon DEF Going
        <4>3. CASE task[v].pc \in {"undo", "unregister"}
          BY <3>1, <3>4, <4>3, Zenon DEF Passes, RegistrarPcs
        <4> QED
          BY <3>1, <4>1, <4>2, <4>3, Zenon
      <3> QED
        BY <3>3, <3>4, Zenon DEF Turn
    <2> QED
      BY <1>3, <2>2, <2>3, Zenon DEF Clean, CleanInv
  <1> QED
    BY <1>1, <1>2, <1>3, Zenon DEF CleanInv

-----------------------------------------------------------------------------
(* The step of one task.  h stands for the anchors as the step has left    *)
(* them before the task registers, f for the tasks as it has left them     *)
(* before that task moves on.                                              *)

Follows(h) ==
    /\ h \in [Tokens -> SharedAnchor]
    /\ Grows(h) /\ HeapOK(h, current', minted')
    /\ \A k \in 1..minted' : h[k].registration = IF k \in 1..minted
                                                THEN anchors[k].registration ELSE None

(* Requests may have been aborted. *)
Aside(f) ==
    /\ f \in [Tasks -> Task]
    /\ \A u \in Tasks : f[u] = task[u] \/ (f[u] = Idle /\ task[u].pc \in RequestPcs)

(* Those left alone have the anchor they rely on. *)
Relied(f, t, h) ==
    \A u \in Tasks \ {t} :
       /\ f[u].pc \in RequestPcs => current' = current /\ ~h[current].aborted
       /\ Closes(u) => current' = current

(* The tasks that are ready, but for those that moved on. *)
StaysReady(t, f) ==
    \/ ready' = ready \ {t} /\ f = task
    \/ ready' = {u \in ready \ {t} : task'[u] = task[u]}

(* Task t goes on as p. *)
OneMoves(t, p) ==
    /\ task' \in [Tasks -> Task] /\ wire' \in [Tasks -> Call] /\ ready' \subseteq Tasks
    /\ task'[t] = p /\ t \notin ready' /\ NewCall(wire'[t], p.pc)
    /\ \A v \in Tasks \ {t} : \/ Kept(v)
                              \/ /\ task[v].pc \in RequestPcs /\ task'[v] = Idle
                                 /\ v \notin ready' /\ NewCall(wire'[v], "idle")

LEMMA ProceedMoves ==
    ASSUME OmpInv, NEW f \in [Tasks -> Task], Proceed(f)
    PROVE  /\ task' = f /\ wire' \in [Tasks -> Call]
           /\ \A v \in Tasks : /\ f[v] = task[v] => wire'[v] = wire[v]
                               /\ f[v].pc = "idle" \/ f[v].pc # task[v].pc =>
                                     NewCall(wire'[v], f[v].pc)
  <1>1. wire \in [Tasks -> Call] /\ Sent \in Call /\ NoCall \in Call
    BY RecordTypes, Zenon DEF OmpInv, TypeOK, LinkTypeOK
  <1>2. task' = f /\ wire' \in [Tasks -> Call]
    BY <1>1, Zenon DEF Proceed
  <1>3. ASSUME NEW v \in Tasks
        PROVE  /\ f[v] = task[v] => wire'[v] = wire[v]
               /\ f[v].pc = "idle" \/ f[v].pc # task[v].pc => NewCall(wire'[v], f[v].pc)
    <2>1. wire'[v] = IF f[v].pc = task[v].pc THEN wire[v]
                     ELSE IF f[v].pc \in HelloPcs \cup CommandPcs THEN Sent ELSE NoCall
      BY <1>3, Zenon DEF Proceed
    <2>2. f[v].pc # task[v].pc => NewCall(wire'[v], f[v].pc)
      BY <2>1, RecordTypes, Zenon DEF NewCall
    <2>3. f[v].pc = "idle" /\ f[v].pc = task[v].pc => NewCall(wire'[v], f[v].pc)
      <3>1. task[v].pc = "idle" => wire[v].phase = "none" /\ wire[v].reply = "none"
        BY TaskFacts, Zenon DEF TaskOK
      <3> QED
        BY <2>1, <3>1, Zenon DEF NewCall, HelloPcs, CommandPcs
    <2> QED
      BY <2>1, <2>2, <2>3, Zenon
  <1> QED
    BY <1>2, <1>3, Zenon

LEMMA ProceedOne ==
    ASSUME OmpInv, NEW t \in Tasks, NEW p \in Task, NEW f, Aside(f),
           Proceed([f EXCEPT ![t] = p]), p.pc = "idle" \/ p.pc # task[t].pc,
           StaysReady(t, f)
    PROVE  OneMoves(t, p)
  <1> DEFINE g == [f EXCEPT ![t] = p]
  <1>1. /\ g \in [Tasks -> Task] /\ g[t] = p /\ \A v \in Tasks \ {t} : g[v] = f[v]
    BY Zenon DEF Aside
  <1>2. Proceed(g)
    BY Zenon
  <1> HIDE DEF g
  <1>3. /\ task' = g /\ wire' \in [Tasks -> Call]
        /\ \A v \in Tasks : /\ g[v] = task[v] => wire'[v] = wire[v]
                            /\ g[v].pc = "idle" \/ g[v].pc # task[v].pc =>
                                  NewCall(wire'[v], g[v].pc)
    BY <1>1, <1>2, ProceedMoves, Zenon
  <1>4. ready' \subseteq Tasks /\ t \notin ready'
    BY MemoryFacts, Zenon DEF StaysReady
  <1>5. ASSUME NEW v \in Tasks \ {t}
        PROVE  \/ Kept(v)
               \/ /\ task[v].pc \in RequestPcs /\ task'[v] = Idle
                  /\ v \notin ready' /\ NewCall(wire'[v], "idle")
    <2>1. CASE f[v] = task[v]
      <3>1. task'[v] = task[v] /\ wire'[v] = wire[v]
        BY <1>1, <1>3, <2>1, Zenon
      <3> QED
        BY <3>1, Zenon DEF Kept, StaysReady
    <2>2. CASE f[v] # task[v]
      <3>1. f[v] = Idle /\ task[v].pc \in RequestPcs
        BY <2>2, Zenon DEF Aside
      <3>2. task'[v] = Idle /\ NewCall(wire'[v], "idle")
        BY <1>1, <1>3, <3>1, RecordTypes, Zenon
      <3> QED
        BY <2>2, <3>1, <3>2, Zenon DEF StaysReady
    <2> QED
      BY <2>1, <2>2, Zenon
  <1> QED
    BY <1>1, <1>3, <1>4, <1>5, Zenon DEF OneMoves

(* An idle task needs nothing. *)
LEMMA IdleOK ==
    ASSUME NEW t, NEW w, NEW r, r.pc = "idle", w.phase = "none", NEW hp, NEW cur, NEW m
    PROVE  TaskOK(t, r, w, hp, cur, m)
  BY Zenon DEF TaskOK, AnchorPcs, EnsuringPcs, RegistrarPcs, RunPcs, UndoPcs, RequestPcs, ClosingPcs

LEMMA OneTurn ==
    ASSUME OmpInv, NEW t \in Tasks, NEW p, OneMoves(t, p), NEW h, Follows(h), NEW f,
           Aside(f), Relied(f, t, h), \A u \in Tasks \ {t} : task'[u] = f[u],
           daemon' = daemon, late' = late,
           TaskOK(t, p, wire'[t], anchors', current', minted'),
           \/ /\ anchors' = h
              /\ task[t].pc \in RunPcs =>
                    p.pc \in RunPcs /\ p.registering = task[t].registering
           \/ /\ task[t].pc \notin RunPcs
              /\ p.registering \in 1..minted' /\ p.pc \in RunPcs
              /\ h[p.registering].registration = None /\ ~h[p.registering].registered
              /\ anchors' = [h EXCEPT ![p.registering].registration = t]
    PROVE  Turn
  <1> DEFINE n == p.registering
  <1>1. /\ 1..minted' \subseteq Tokens /\ 1..minted \subseteq 1..minted'
        /\ None \notin Tasks /\ h \in [Tokens -> SharedAnchor]
    BY MemoryFacts, LinkAssumption DEF Follows, Grows, Tokens
  <1>2. /\ Grows(anchors') /\ HeapOK(anchors', current', minted')
        /\ \A k \in 1..minted' : /\ anchors'[k].aborted = h[k].aborted
                                 /\ \/ anchors'[k].registration = h[k].registration
                                    \/ /\ k = n /\ h[k].registration = None
                                       /\ anchors'[k].registration = t
                                       /\ p.pc \in RunPcs
    <2>1. CASE anchors' = h
      BY <2>1, Zenon DEF Follows
    <2>2. CASE /\ n \in 1..minted' /\ p.pc \in RunPcs
               /\ h[n].registration = None /\ ~h[n].registered
               /\ anchors' = [h EXCEPT ![n].registration = t]
      <3> HIDE DEF n
      <3>1. n \in Tokens /\ \A k \in Tokens :
               /\ k # n => anchors'[k] = h[k]
               /\ anchors'[k].session = h[k].session /\ anchors'[k].aborted = h[k].aborted
               /\ anchors'[k].registered = h[k].registered
               /\ anchors'[n].registration = t
        BY <1>1, <2>2 DEF SharedAnchor
      <3>2. Grows(anchors')
        BY <1>1, <3>1, Zenon DEF Follows, Grows
      <3>3. \A k \in Tokens : k > minted' => k # n
        BY <2>2, MemoryFacts DEF Follows, Grows
      <3>4. HeapOK(anchors', current', minted')
        <4>1. HeapOK(h, current', minted')
          BY Zenon DEF Follows
        <4>2. \A k \in Tokens : k > minted' => anchors'[k] = NoAnchor
          BY <3>1, <3>3, <4>1, Zenon DEF HeapOK
        <4>3. \A k \in 1..minted' : /\ anchors'[k].session \in Sessions
                                    /\ k = current' \/ anchors'[k].aborted
          BY <1>1, <3>1, <4>1, Zenon DEF HeapOK
        <4>4. \A k \in 1..minted' : anchors'[k].registered => anchors'[k].registration = None
          BY <1>1, <2>2, <3>1, <4>1, Zenon DEF HeapOK
        <4> QED
          BY <4>1, <4>2, <4>3, <4>4, Zenon DEF HeapOK
      <3> QED
        BY <1>1, <2>2, <3>1, <3>2, <3>4, Zenon
    <2> QED
      BY <2>1, <2>2, Zenon
  <1>3. ASSUME NEW k \in 1..minted' PROVE Registrar(k)'
    <2>1. CASE anchors'[k].registration # h[k].registration
      BY <1>1, <1>2, <2>1, Zenon DEF Registrar, OneMoves
    <2>2. CASE anchors'[k].registration = h[k].registration
      <3> SUFFICES ASSUME anchors'[k].registration # None PROVE Registrar(k)'
        BY Zenon DEF Registrar
      <3>1. k \in 1..minted /\ anchors[k].registration = h[k].registration
        BY <2>2, Zenon DEF Follows
      <3>2. PICK w \in Tasks : w = anchors[k].registration
        BY <1>1, <2>2, <3>1, MemoryFacts, Zenon DEF SharedAnchor
      <3>3. task[w].pc \in RunPcs /\ task[w].registering = k
        BY <1>1, <3>1, <3>2, Zenon DEF OmpInv, Registrar
      <3>4. CASE w = t
        <4>1. p.pc \in RunPcs /\ p.registering = k
          BY <3>3, <3>4, Zenon
        <4> QED
          BY <2>2, <3>1, <3>2, <3>4, <4>1, Zenon DEF Registrar, OneMoves
      <3>5. CASE w # t
        <4>1. task[w].pc \notin RequestPcs
          BY <3>3, Zenon DEF RunPcs, RegistrarPcs, UndoPcs, RequestPcs
        <4>2. task'[w] = task[w]
          BY <3>5, <4>1, Zenon DEF OneMoves, Kept
        <4> QED
          BY <2>2, <3>1, <3>2, <3>3, <4>2, Zenon DEF Registrar
      <3> QED
        BY <3>4, <3>5, Zenon
    <2> QED
      BY <2>1, <2>2, Zenon
  <1>4. Moved(t)
    BY Zenon DEF OneMoves, Moved
  <1>5. ASSUME NEW v \in Tasks \ {t}, ~Moved(v) PROVE Kept(v) /\ Undisrupted(v)
    <2>1. Kept(v)
      <3> SUFFICES ASSUME task'[v] = Idle, v \notin ready', NewCall(wire'[v], "idle")
                   PROVE  Moved(v)
        BY <1>5, Zenon DEF OneMoves
      <3>1. wire'[v].phase = "none" /\ task'[v].pc = "idle"
        BY RecordTypes, Zenon DEF NewCall, HelloPcs, CommandPcs
      <3> QED
        BY <3>1, IdleOK, Zenon DEF Moved
    <2>2. TaskOK(v, task[v], wire[v], anchors, current, minted)
      BY TaskFacts, Zenon
    <2>3. ASSUME task[v].pc \in RunPcs \cup {"joined"}
          PROVE  anchors'[task[v].registering].registration
                    = anchors[task[v].registering].registration
      <3> DEFINE k == task[v].registering
      <3>1. k \in 1..minted /\ anchors[k].registration # None
        <4>1. Working(task[v], anchors, minted)
          BY <2>2, <2>3, Zenon DEF TaskOK, AnchorPcs, RunPcs, EnsuringPcs
        <4>2. anchors[k].registration # None
          BY <1>1, <2>2, <2>3, Zenon DEF TaskOK
        <4> QED
          BY <4>1, <4>2, Zenon DEF Working
      <3>2. h[k].registration = anchors[k].registration /\ k \in 1..minted'
        BY <1>1, <3>1, Zenon DEF Follows
      <3> QED
        BY <1>2, <3>1, <3>2, Zenon
    <2>4. ASSUME task[v].pc \in RequestPcs PROVE current' = current /\ ~anchors'[current].aborted
      <3>1. current' = current /\ ~h[current].aborted
        BY <1>5, <2>1, <2>4, Zenon DEF Relied, Kept
      <3>2. current \in 1..minted
        BY <2>2, <2>4, Zenon DEF TaskOK, Working, AnchorPcs
      <3> QED
        BY <1>1, <1>2, <3>1, <3>2, Zenon
    <2> QED
      BY <2>1, <2>3, <2>4, Zenon DEF Undisrupted, Relied
  <1> QED
    BY <1>2, <1>3, <1>4, <1>5, Zenon DEF Turn

-----------------------------------------------------------------------------
(* What a step leaves. *)

Goes ==
    /\ Turn
    /\ \A v \in Tasks : Kept(v) \/ Advances(v)
    /\ SeenInv => \A k \in Tokens : anchors'[k].brokerInstance \in 0..daemon.instance
    /\ Clean => HandsOn /\ \A v \in Tasks : Kept(v) \/ Passes(v)
    /\ task' \in [Tasks -> Task] /\ wire' \in [Tasks -> Call] /\ ready' \subseteq Tasks
    /\ anchors' \in [Tokens -> SharedAnchor]

LEMMA OneGoes ==
    ASSUME NEW t \in Tasks, NEW p, OneMoves(t, p), Turn, Advances(t),
           Clean => HandsOn /\ Passes(t),
           SeenInv => \A k \in Tokens : anchors'[k].brokerInstance \in 0..daemon.instance,
           anchors' \in [Tokens -> SharedAnchor]
    PROVE  Goes
  <1>1. ASSUME NEW v \in Tasks \ {t}, ~Kept(v) PROVE Advances(v) /\ Passes(v)
    <2>1. task[v].pc \in RequestPcs /\ task'[v] = Idle
      BY <1>1, Zenon DEF OneMoves
    <2>2. Advances(v)
      BY <2>1, RecordTypes, Zenon DEF Advances, Undisturbed, EnsuringPcs, RegistrarPcs, RequestPcs
    <2>3. Passes(v)
      BY <2>1, Zenon DEF Passes, RequestPcs, RegistrarPcs
    <2> QED
      BY <2>2, <2>3, Zenon
  <1> QED
    BY <1>1, Zenon DEF Goes, OneMoves

(* No task but t begins to tear the present anchor down. *)
LEMMA OneCloser ==
    ASSUME CloserOK, NEW t \in Tasks, NEW p, OneMoves(t, p),
           p.pc \in ClosingPcs /\ p.kind = "close" =>
              Closes(t) \/ \A u \in Tasks : ~Closes(u)
    PROVE  CloserOK'
  <1>1. \A v \in Tasks \ {t} : Closes(v)' => Closes(v)
    <2> SUFFICES ASSUME NEW v \in Tasks \ {t}, Closes(v)' PROVE Closes(v)
      BY Zenon
    <2>1. task'[v] # Idle
      BY RecordTypes, Zenon DEF Closes, ClosingPcs
    <2> QED
      BY <2>1, Zenon DEF OneMoves, Kept, Closes
  <1>2. Closes(t)' => Closes(t) \/ \A u \in Tasks : ~Closes(u)
    BY Zenon DEF OneMoves, Closes
  <1> QED
    BY <1>1, <1>2, Zenon DEF CloserOK

(* The present anchor has the same owner. *)
LEMMA OwnerStays ==
    ASSUME OmpInv, instances' = instances, current' = current,
           current # NoToken => anchors'[current].aborted = anchors[current].aborted
    PROVE  OwnerOK'
  BY Zenon DEF OmpInv, OwnerOK, Owner

-----------------------------------------------------------------------------
(* ensureRegistered. *)

Begun(p, r, h) ==
    /\ p \in Task /\ p.kind = r.kind /\ p.token = r.token
    /\ p.registering = r.registering /\ p.session = h[r.registering].session
    /\ p.retried = r.retried /\ p.disturbed = r.disturbed

(* How ensureRegistered goes on for task t in state r: as p. *)
Ensures(t, p, r, h) ==
    LET k == r.registering
    IN  \/ p = Idle /\ anchors' = h /\ ~Live(k, h)
        \/ /\ Begun(p, r, h) /\ p.pc = "probe"
           /\ anchors' = h /\ Live(k, h) /\ h[k].registered
        \/ /\ Begun(p, r, h) /\ p.pc = "joined" /\ p.owner = h[k].registration
           /\ anchors' = h /\ h[k].registration # None
        \/ /\ Begun(p, r, h) /\ p.pc = "register_hello"
           /\ h[k].registration = None /\ ~h[k].registered /\ Live(k, h)
           /\ anchors' = [h EXCEPT ![k].registration = t]

SessionOf(r, s) == [r EXCEPT !.session = s]
AtPc(r, pc) == [r EXCEPT !.pc = pc]
JoinedTo(r, o) == [r EXCEPT !.pc = "joined", !.owner = o]
ProbingFor(r, s) == [r EXCEPT !.pc = "probe", !.session = s]

(* State p is state r but for its place. *)
Same(p, r) ==
    /\ p \in Task /\ p.kind = r.kind /\ p.token = r.token
    /\ p.registering = r.registering /\ p.retried = r.retried
    /\ p.disturbed = r.disturbed /\ p.by = r.by

LEMMA HasSession ==
    ASSUME NEW r \in Task, NEW s \in Sessions
    PROVE  Same(SessionOf(r, s), r) /\ SessionOf(r, s).session = s
  BY Zenon DEF Same, SessionOf, Task

LEMMA GoesProbing ==
    ASSUME NEW r \in Task, NEW s \in Sessions
    PROVE  /\ Same(ProbingFor(r, s), r) /\ ProbingFor(r, s).session = s
           /\ ProbingFor(r, s).pc = "probe"
  BY Zenon DEF Same, ProbingFor, Task, HelloPcs

LEMMA GoesOn ==
    ASSUME NEW r \in Task, NEW pc \in HelloPcs \cup CommandPcs
    PROVE  Same(AtPc(r, pc), r) /\ AtPc(r, pc).session = r.session /\ AtPc(r, pc).pc = pc
  BY Zenon DEF Same, AtPc, Task

LEMMA JoinsOwner ==
    ASSUME NEW r \in Task, NEW o \in Tasks
    PROVE  /\ Same(JoinedTo(r, o), r) /\ JoinedTo(r, o).session = r.session
           /\ JoinedTo(r, o).pc = "joined" /\ JoinedTo(r, o).owner = o
  BY Zenon DEF Same, JoinedTo, Task

LEMMA JoinOutcome ==
    ASSUME NEW h \in [Tokens -> SharedAnchor], NEW r \in Task, r.registering \in Tokens,
           h[r.registering].session \in Sessions, NEW f, NEW t,
           ~h[r.registering].registered, RegisterOrJoin(f, t, r, h)
    PROVE  \E p \in Task : /\ Proceed([f EXCEPT ![t] = p]) /\ Ensures(t, p, r, h)
                           /\ p.pc # "probe"
  <1> DEFINE k == r.registering
             q == SessionOf(r, h[k].session)
  <1>1. Same(q, r) /\ q.session = h[k].session
    BY HasSession, Zenon
  <1>2. q \in Task /\ q = [r EXCEPT !.session = h[k].session]
    BY <1>1, Zenon DEF Same, SessionOf
  <1>3. h[k].registration \in Tasks \cup {None}
    BY Zenon DEF SharedAnchor
  <1>4. CASE h[k].registration # None
    <2> DEFINE p == JoinedTo(q, h[k].registration)
    <2>1. /\ Same(p, q) /\ p.session = q.session /\ p.pc = "joined"
          /\ p.owner = h[k].registration
      BY <1>2, <1>3, <1>4, JoinsOwner, Zenon
    <2>2. Proceed([f EXCEPT ![t] = p]) /\ anchors' = h
      BY <1>2, <1>4, Zenon DEF RegisterOrJoin, JoinedTo
    <2> HIDE DEF p
    <2>3. Begun(p, r, h)
      BY <1>1, <2>1, Zenon DEF Begun, Same
    <2>4. Ensures(t, p, r, h) /\ p \in Task /\ p.pc # "probe"
      BY <1>4, <2>1, <2>2, <2>3, Zenon DEF Ensures, Same
    <2> QED
      BY <2>2, <2>4, Zenon
  <1>5. CASE h[k].registration = None /\ Live(k, h)
    <2> DEFINE p == AtPc(q, "register_hello")
    <2>1. Same(p, q) /\ p.session = q.session /\ p.pc = "register_hello"
      <3>1. "register_hello" \in HelloPcs \cup CommandPcs
        BY Zenon DEF HelloPcs
      <3> QED
        BY <1>2, <3>1, GoesOn, Zenon
    <2>2. /\ Proceed([f EXCEPT ![t] = p])
          /\ anchors' = [h EXCEPT ![k].registration = t]
      BY <1>2, <1>5, Zenon DEF RegisterOrJoin, AtPc
    <2> HIDE DEF p
    <2>3. Begun(p, r, h)
      BY <1>1, <2>1, Zenon DEF Begun, Same
    <2>4. Ensures(t, p, r, h) /\ p \in Task /\ p.pc # "probe"
      BY <1>5, <2>1, <2>2, <2>3, Zenon DEF Ensures, Same
    <2> QED
      BY <2>2, <2>4, Zenon
  <1>6. CASE h[k].registration = None /\ ~Live(k, h)
    <2>1. Proceed([f EXCEPT ![t] = Idle]) /\ anchors' = h
      BY <1>6, Zenon DEF RegisterOrJoin
    <2>2. Ensures(t, Idle, r, h)
      BY <1>6, <2>1, Zenon DEF Ensures
    <2> QED
      BY <2>1, <2>2, RecordTypes, Zenon
  <1> QED
    BY <1>4, <1>5, <1>6, Zenon

LEMMA EnsureOutcome ==
    ASSUME NEW h \in [Tokens -> SharedAnchor], NEW r \in Task, r.registering \in Tokens,
           h[r.registering].session \in Sessions, NEW f, NEW t, EnsureRegistered(f, t, r, h)
    PROVE  \E p \in Task : Proceed([f EXCEPT ![t] = p]) /\ Ensures(t, p, r, h)
  <1> DEFINE k == r.registering
  <1>1. CASE Live(k, h) /\ ~h[k].registered
    BY <1>1, JoinOutcome, Zenon DEF EnsureRegistered
  <1>2. CASE ~Live(k, h)
    <2>1. Proceed([f EXCEPT ![t] = Idle]) /\ anchors' = h
      BY <1>2, Zenon DEF EnsureRegistered
    <2>2. Ensures(t, Idle, r, h)
      BY <1>2, <2>1, Zenon DEF Ensures
    <2> QED
      BY <2>1, <2>2, RecordTypes, Zenon
  <1>3. CASE Live(k, h) /\ h[k].registered
    <2> DEFINE p == ProbingFor(r, h[k].session)
    <2>1. Same(p, r) /\ p.session = h[k].session /\ p.pc = "probe"
      BY GoesProbing, Zenon
    <2>2. Proceed([f EXCEPT ![t] = p]) /\ anchors' = h
      BY <1>3, Zenon DEF EnsureRegistered, ProbingFor
    <2> HIDE DEF p
    <2>3. Begun(p, r, h)
      BY <2>1, Zenon DEF Begun, Same
    <2>4. Ensures(t, p, r, h) /\ p \in Task
      BY <1>3, <2>1, <2>2, <2>3, Zenon DEF Ensures, Same
    <2> QED
      BY <2>2, <2>4, Zenon
  <1> QED
    BY <1>1, <1>2, <1>3, Zenon

(* State r is one in which ensureRegistered may be called, with heap h. *)
Called(r, h) ==
    /\ r \in Task
    /\ r.registering \in 1..minted'
    /\ r.kind \in {"shell", "tool"}
    /\ r.token \in {NoToken, r.registering}
    /\ r.retried => r.token # NoToken /\ ~h[r.registering].registered

(* Task t has had the token of state r before. *)
Carried(t, r) ==
    r.token # NoToken /\ ~r.disturbed => Undisturbed(t) /\ r.token = task[t].token

(* The anchors of heap h know only processes that have been. *)
Sees(h) == SeenInv => \A k \in Tokens : h[k].brokerInstance \in 0..daemon.instance

LEMMA EnsuredAnchors ==
    ASSUME OmpInv, NEW h, Follows(h), NEW t \in Tasks, NEW p, NEW r, Called(r, h),
           Ensures(t, p, r, h)
    PROVE  /\ anchors' \in [Tokens -> SharedAnchor]
           /\ \A k \in Tokens : /\ anchors'[k].aborted = h[k].aborted
                                /\ anchors'[k].session = h[k].session
                                /\ anchors'[k].registered = h[k].registered
                                /\ anchors'[k].brokerInstance = h[k].brokerInstance
           /\ 1..minted' \subseteq Tokens
  <1>1. 1..minted' \subseteq Tokens /\ h \in [Tokens -> SharedAnchor]
    BY MemoryFacts DEF Follows, Grows, Tokens
  <1>2. PICK n \in Tokens : n = r.registering
    BY <1>1, Zenon DEF Called
  <1>3. anchors' = h \/ anchors' = [h EXCEPT ![n].registration = t]
    BY <1>2, Zenon DEF Ensures
  <1> QED
    BY <1>1, <1>3 DEF SharedAnchor

LEMMA EnsuredOK ==
    ASSUME OmpInv, NEW h, Follows(h), NEW t \in Tasks, NEW p, NEW r, Called(r, h),
           Ensures(t, p, r, h), NewCall(wire'[t], p.pc)
    PROVE  TaskOK(t, p, wire'[t], anchors', current', minted')
  <1> DEFINE k == r.registering
  <1>1. /\ \A j \in Tokens : anchors'[j].session = h[j].session
        /\ k \in Tokens /\ h \in [Tokens -> SharedAnchor]
    BY EnsuredAnchors, Zenon DEF Called, Follows
  <1>2. Begun(p, r, h) => Working(p, anchors', minted')
    BY <1>1, Zenon DEF Begun, Called, Working
  <1>3. CASE p = Idle
    BY <1>3, RecordTypes, IdleOK, Zenon DEF NewCall, HelloPcs, CommandPcs
  <1>4. CASE Begun(p, r, h) /\ p.pc = "probe" /\ h[k].registered
    <2>1. ~p.retried
      BY <1>4, Zenon DEF Begun, Called
    <2> QED
      BY <1>2, <1>4, <2>1, Zenon DEF TaskOK, RunPcs, RegistrarPcs, UndoPcs, RequestPcs, ClosingPcs
  <1>5. CASE /\ Begun(p, r, h) /\ p.pc = "joined" /\ p.owner = h[k].registration
             /\ anchors' = h /\ h[k].registration # None
    <2>1. wire'[t].phase = "none"
      BY <1>5, Zenon DEF NewCall, HelloPcs, CommandPcs
    <2>2. anchors'[p.registering].registration = p.owner /\ p.owner # None
      BY <1>5, Zenon DEF Begun
    <2> QED
      BY <1>2, <1>5, <2>1, <2>2, Zenon
         DEF TaskOK, RunPcs, RegistrarPcs, UndoPcs, RequestPcs, ClosingPcs
  <1>6. CASE /\ Begun(p, r, h) /\ p.pc = "register_hello"
             /\ anchors' = [h EXCEPT ![k].registration = t]
    <2>1. anchors'[p.registering].registration = t
      <3>1. PICK n : n = k
        BY Zenon
      <3> QED
        BY <1>1, <1>6, <3>1, Zenon DEF Begun, SharedAnchor
    <2> QED
      BY <1>2, <1>6, <2>1, Zenon DEF TaskOK, RunPcs, RegistrarPcs, UndoPcs, RequestPcs, ClosingPcs
  <1> QED
    BY <1>3, <1>4, <1>5, <1>6, Zenon DEF Ensures

LEMMA EnsuresGoes ==
    ASSUME OmpInv, NEW t \in Tasks, NEW p \in Task, NEW r, NEW h, NEW f,
           Aside(f), Follows(h), Relied(f, t, h), Called(r, h), Carried(t, r), Sees(h),
           Proceed([f EXCEPT ![t] = p]), Ensures(t, p, r, h), StaysReady(t, f),
           task[t].pc \in {"idle", "probe", "request", "unregister_hello", "unregister"},
           task[t].pc = "probe" => p.pc # "probe",
           daemon' = daemon, late' = late,
           Clean => /\ HandsOn /\ task[t].pc # "unregister_hello"
                    /\ task[t].pc = "unregister" => wire[t].phase # "sent"
    PROVE  Goes /\ OneMoves(t, p) /\ p.pc \notin ClosingPcs
  <1>1. p.pc \in {"idle", "probe", "joined", "register_hello"}
    BY RecordTypes, Zenon DEF Ensures
  <1>2. OneMoves(t, p)
    BY <1>1, ProceedOne, Zenon
  <1>3. \A u \in Tasks \ {t} : task'[u] = f[u]
    BY Zenon DEF Proceed, Aside
  <1>4. TaskOK(t, p, wire'[t], anchors', current', minted')
    BY <1>2, EnsuredOK, Zenon DEF OneMoves
  <1>5. task[t].pc \notin RunPcs
    BY Zenon DEF RunPcs, RegistrarPcs, UndoPcs
  <1>6. \/ anchors' = h
        \/ /\ p.registering \in 1..minted' /\ p.pc \in RunPcs
           /\ h[p.registering].registration = None /\ ~h[p.registering].registered
           /\ anchors' = [h EXCEPT ![p.registering].registration = t]
    BY Zenon DEF Ensures, Begun, Called, RunPcs, RegistrarPcs
  <1>7. Turn
    BY <1>2, <1>3, <1>4, <1>5, <1>6, OneTurn, Zenon
  <1>8. Advances(t)
    <2>1. p.pc \notin RequestPcs /\ (p.pc # "idle" => Begun(p, r, h))
      BY <1>1, RecordTypes, Zenon DEF Ensures, RequestPcs
    <2>2. p.pc # "idle" /\ p.token # NoToken /\ ~p.disturbed =>
             Undisturbed(t) /\ p.token = task[t].token
      BY <2>1, Zenon DEF Begun, Carried
    <2>3. Undisturbed(t)' => p.pc # "idle" /\ p.token # NoToken /\ ~p.disturbed
      BY <1>2, Zenon DEF Undisturbed, OneMoves, EnsuringPcs, RegistrarPcs, RequestPcs
    <2> QED
      BY <1>2, <2>1, <2>2, <2>3, Zenon DEF Advances, OneMoves
  <1>9. Clean => HandsOn /\ Passes(t)
    BY Zenon DEF Passes, RegistrarPcs
  <1>10. /\ anchors' \in [Tokens -> SharedAnchor]
         /\ SeenInv => \A k \in Tokens : anchors'[k].brokerInstance \in 0..daemon.instance
    BY EnsuredAnchors, Zenon DEF Sees
  <1>11. Goes
    BY <1>2, <1>7, <1>8, <1>9, <1>10, OneGoes, Zenon
  <1> QED
    BY <1>1, <1>2, <1>11, Zenon DEF ClosingPcs

(* The present anchor's belief is left alone. *)
LEMMA BeliefStays ==
    ASSUME OmpInv, NEW h, Follows(h), NEW t \in Tasks, NEW p, NEW r, Called(r, h),
           Ensures(t, p, r, h), current' = current,
           Believes => ~h[current].aborted /\ h[current].registered
    PROVE  HandsOn
  <1>1. current # NoToken => /\ anchors'[current].aborted = h[current].aborted
                             /\ anchors'[current].registered = h[current].registered
    BY EnsuredAnchors, MemoryFacts, Zenon
  <1> QED
    BY <1>1, Zenon DEF HandsOn, Believes

-----------------------------------------------------------------------------
(* What the steps do to the heap. *)

(* Heap h has the anchors' signals and sessions. *)
Alike(h) ==
    \A k \in Tokens : /\ h[k].aborted = anchors[k].aborted
                      /\ h[k].session = anchors[k].session
                      /\ h[k].registered => anchors[k].registered

LEMMA LikeFollows ==
    ASSUME OmpInv, current' = current, minted' = minted,
           NEW h \in [Tokens -> SharedAnchor], Alike(h),
           \A k \in Tokens : /\ h[k].registration = anchors[k].registration
                             /\ k > minted => h[k] = NoAnchor
    PROVE  Follows(h)
  <1>1. minted \in minted..MaxTokens /\ 1..minted \subseteq Tokens
    BY MemoryFacts
  <1>2. Grows(h)
    BY <1>1, Zenon DEF Alike, Grows
  <1>3. HeapOK(h, current', minted')
    BY <1>1, MemoryFacts, Zenon DEF HeapOK, Alike
  <1> QED
    BY <1>1, <1>2, <1>3, Zenon DEF Follows

LEMMA HeapSame ==
    ASSUME OmpInv, current' = current, minted' = minted
    PROVE  Follows(anchors) /\ Alike(anchors) /\ Sees(anchors)
  <1>1. Alike(anchors)
    BY Zenon DEF Alike
  <1>2. Follows(anchors)
    BY <1>1, LikeFollows, MemoryFacts, Zenon DEF HeapOK
  <1> QED
    BY <1>1, <1>2, Zenon DEF Sees, SeenInv

LEMMA HeapHears ==
    ASSUME OmpInv, current' = current, minted' = minted, NEW t \in Tasks,
           wire[t].reply = "hello", NEW h, h = OnInstance(wire[t].instance)
    PROVE  /\ Follows(h) /\ Alike(h) /\ Sees(h)
           /\ Clean => \A k \in Tokens : h[k].registered = anchors[k].registered
  <1>1. CASE current = NoToken
    BY <1>1, HeapSame, Zenon DEF OnInstance
  <1>2. CASE current # NoToken
    <2> DEFINE i == wire[t].instance
    <2>1. i \in 0..MaxInstances
      BY TaskFacts, Zenon DEF Call
    <2>2. PICK c : c = current /\ c \in 1..minted /\ c \in Tokens
      BY <1>2, MemoryFacts, Zenon
    <2>3. h = [anchors EXCEPT ![c].registered = @ /\ anchors[c].brokerInstance \in {0, i},
                              ![c].brokerInstance = i]
      BY <1>2, <2>2, Zenon DEF OnInstance
    <2> HIDE DEF i
    <2>4. /\ h \in [Tokens -> SharedAnchor]
          /\ \A k \in Tokens : k # c => h[k] = anchors[k]
          /\ h[c].aborted = anchors[c].aborted /\ h[c].session = anchors[c].session
          /\ h[c].registration = anchors[c].registration /\ h[c].brokerInstance = i
          /\ h[c].registered = (anchors[c].registered /\ anchors[c].brokerInstance \in {0, i})
      <3>1. anchors[c] \in SharedAnchor
        BY <2>2, MemoryFacts, Zenon
      <3>2. PICK b \in BOOLEAN : b = (anchors[c].registered /\ anchors[c].brokerInstance \in {0, i})
        BY Zenon
      <3>3. PICK a : a = [anchors[c] EXCEPT !.registered = b, !.brokerInstance = i]
        BY Zenon
      <3>4. /\ a \in SharedAnchor /\ a.aborted = anchors[c].aborted
            /\ a.session = anchors[c].session /\ a.registration = anchors[c].registration
            /\ a.brokerInstance = i /\ a.registered = b
        BY <2>1, <3>1, <3>3, Zenon DEF SharedAnchor
      <3>5. h = [anchors EXCEPT ![c] = a]
        BY <2>2, <2>3, <3>1, <3>2, <3>3, MemoryFacts, Zenon DEF SharedAnchor
      <3> QED
        BY <2>2, <3>2, <3>4, <3>5, MemoryFacts, Zenon
    <2>5. Alike(h)
      BY <2>4, Zenon DEF Alike
    <2>6. Follows(h)
      <3>1. \A k \in Tokens : k > minted => k # c
        BY <2>2, MemoryFacts
      <3>2. \A k \in Tokens : k > minted => h[k] = NoAnchor
        BY <2>4, <3>1, MemoryFacts, Zenon DEF HeapOK
      <3> QED
        BY <2>4, <2>5, <3>2, LikeFollows, Zenon
    <2>7. SeenInv => i \in 1..daemon.instance
      BY Zenon DEF SeenInv, i
    <2>8. Sees(h)
      <3>1. SeenInv => i \in 0..daemon.instance
        BY <2>7, TaskFacts DEF OmpInv, TypeOK, LinkTypeOK, Daemon
      <3> QED
        BY <2>4, <3>1, Zenon DEF Sees, SeenInv
    <2>9. Clean => anchors[c].brokerInstance \in {0, i}
      <3>1. Clean => i \in 1..1 /\ anchors[c].brokerInstance \in 0..1
        BY <2>2, <2>7, Zenon DEF Clean, SeenInv
      <3> QED
        BY <3>1
    <2>10. Clean => h[c].registered = anchors[c].registered
      <3>1. anchors[c].registered \in BOOLEAN
        BY <2>2, MemoryFacts, Zenon DEF SharedAnchor
      <3> QED
        BY <2>4, <2>9, <3>1, Zenon
    <2> QED
      BY <2>4, <2>5, <2>6, <2>8, <2>10, Zenon
  <1> QED
    BY <1>1, <1>2, Zenon

LEMMA HeapForgets ==
    ASSUME OmpInv, current' = current, minted' = minted, NEW c \in 1..minted,
           NEW h, h = [anchors EXCEPT ![c].registered = FALSE]
    PROVE  Follows(h) /\ Alike(h) /\ Sees(h) /\ ~h[c].registered
  <1>1. c \in Tokens /\ anchors \in [Tokens -> SharedAnchor]
    BY MemoryFacts, Zenon
  <1>2. /\ h \in [Tokens -> SharedAnchor]
        /\ \A k \in Tokens : k # c => h[k] = anchors[k]
        /\ h[c].aborted = anchors[c].aborted /\ h[c].session = anchors[c].session
        /\ h[c].registration = anchors[c].registration
        /\ h[c].brokerInstance = anchors[c].brokerInstance /\ ~h[c].registered
    BY <1>1, Zenon DEF SharedAnchor
  <1>3. Alike(h)
    BY <1>2, Zenon DEF Alike
  <1>4. \A k \in Tokens : k > minted => h[k] = NoAnchor
    <2>1. \A k \in Tokens : k > minted => k # c
      BY MemoryFacts
    <2> QED
      BY <1>2, <2>1, MemoryFacts, Zenon DEF HeapOK
  <1>5. Follows(h)
    BY <1>2, <1>3, <1>4, LikeFollows, Zenon
  <1>6. Sees(h)
    BY <1>2, Zenon DEF Sees, SeenInv
  <1> QED
    BY <1>2, <1>3, <1>5, <1>6, Zenon

(* A new anchor becomes the process's one; the others are retired. *)
LEMMA NewFollows ==
    ASSUME OmpInv, minted < MaxTokens, minted' = minted + 1, current' = minted',
           NEW h \in [Tokens -> SharedAnchor],
           \A k \in 1..minted : /\ h[k].session = anchors[k].session /\ h[k].aborted
                                /\ h[k].registration = anchors[k].registration
                                /\ h[k].registered => anchors[k].registered,
           h[minted'].session \in Sessions, ~h[minted'].registered,
           h[minted'].registration = None,
           \A k \in Tokens : k > minted' => h[k] = anchors[k]
    PROVE  Follows(h) /\ current' \in 1..minted' /\ 1..minted' \subseteq Tokens
  <1>1. /\ minted' \in minted..MaxTokens /\ 1..minted' \subseteq Tokens
        /\ minted' \in 1..minted' /\ minted' \notin 1..minted
        /\ \A k \in 1..minted' : k = minted' \/ k \in 1..minted
        /\ \A k \in Tokens : k > minted' => k > minted
    BY MemoryFacts DEF Tokens
  <1>2. Grows(h)
    BY <1>1, Zenon DEF Grows
  <1>3. HeapOK(h, current', minted')
    <2>1. \A k \in Tokens : k > minted' => h[k] = NoAnchor
      BY <1>1, MemoryFacts, Zenon DEF HeapOK
    <2>2. \A k \in 1..minted' : h[k].session \in Sessions /\ (k = current' \/ h[k].aborted)
      BY <1>1, MemoryFacts, Zenon DEF HeapOK
    <2>3. \A k \in 1..minted' : h[k].registered => h[k].registration = None
      BY <1>1, MemoryFacts, Zenon DEF HeapOK
    <2> QED
      BY <2>1, <2>2, <2>3, Zenon DEF HeapOK
  <1>4. \A k \in 1..minted' : h[k].registration = IF k \in 1..minted
                                                 THEN anchors[k].registration ELSE None
    BY <1>1, Zenon
  <1> QED
    BY <1>1, <1>2, <1>3, <1>4, Zenon DEF Follows

LEMMA HeapCreated ==
    ASSUME OmpInv, current = NoToken, NEW s \in Sessions, minted < MaxTokens,
           minted' = minted + 1, current' = minted',
           NEW h, h = [anchors EXCEPT ![current'].session = s]
    PROVE  /\ Follows(h) /\ Sees(h) /\ current' \in 1..minted' /\ current' \in Tokens
           /\ ~h[current'].aborted /\ ~h[current'].registered /\ h[current'].session = s
  <1>1. /\ minted' \in Tokens /\ minted' > minted /\ 1..minted \subseteq Tokens
        /\ \A k \in 1..minted : k # minted'
        /\ \A k \in Tokens : k > minted' => k # minted'
    BY MemoryFacts DEF Tokens
  <1>2. PICK n : n = minted' /\ n = current' /\ n \in Tokens
    BY <1>1, Zenon
  <1>3. anchors[n] = NoAnchor
    BY <1>1, <1>2, MemoryFacts, Zenon DEF HeapOK
  <1>4. /\ h \in [Tokens -> SharedAnchor] /\ h[n].session = s
        /\ \A k \in Tokens : k # n => h[k] = anchors[k]
        /\ ~h[n].aborted /\ ~h[n].registered /\ h[n].registration = None
        /\ h[n].brokerInstance = anchors[n].brokerInstance
    <2>1. h = [anchors EXCEPT ![n].session = s]
      BY <1>2, Zenon
    <2> QED
      BY <1>2, <1>3, <2>1, AnchorTypes, MemoryFacts DEF SharedAnchor
  <1>5. /\ \A k \in 1..minted : /\ h[k].session = anchors[k].session /\ h[k].aborted
                                /\ h[k].registration = anchors[k].registration
                                /\ h[k].registered => anchors[k].registered
        /\ \A k \in Tokens : k > minted' => h[k] = anchors[k]
    <2>1. \A k \in 1..minted : k # current
      BY DEF NoToken
    <2> QED
      BY <1>1, <1>2, <1>4, <2>1, MemoryFacts, Zenon DEF HeapOK
  <1>6. Follows(h) /\ current' \in 1..minted'
    <2>1. /\ h[minted'].session \in Sessions /\ ~h[minted'].registered
          /\ h[minted'].registration = None
      BY <1>2, <1>4, Zenon
    <2> QED
      BY <1>4, <1>5, <2>1, NewFollows, Zenon
  <1>7. Sees(h)
    BY <1>2, <1>4, Zenon DEF Sees, SeenInv
  <1> QED
    BY <1>1, <1>2, <1>4, <1>6, <1>7, Zenon

RetiredAnchor(a) == [a EXCEPT !.aborted = TRUE]
Replacement(s, i) == [NoAnchor EXCEPT !.session = s, !.brokerInstance = i]

LEMMA RetiredState ==
    ASSUME NEW a \in SharedAnchor, NEW b, b = RetiredAnchor(a)
    PROVE  /\ b \in SharedAnchor /\ b.aborted /\ b.session = a.session
           /\ b.registered = a.registered /\ b.registration = a.registration
           /\ b.brokerInstance = a.brokerInstance
  BY Zenon DEF SharedAnchor, RetiredAnchor

LEMMA ReplacementState ==
    ASSUME NEW i \in 0..MaxInstances, NEW s \in Sessions, NEW b, b = Replacement(s, i)
    PROVE  /\ b \in SharedAnchor /\ ~b.aborted /\ b.session = s /\ ~b.registered
           /\ b.registration = None /\ b.brokerInstance = i
  BY Zenon DEF SharedAnchor, Replacement, NoAnchor

(* The anchor of session s takes the place of the present one. *)
Replaced(s) == [anchors EXCEPT ![current].aborted = TRUE,
                   ![current'] = Replacement(s, anchors[current].brokerInstance)]

LEMMA HeapReplaced ==
    ASSUME OmpInv, current # NoToken, NEW s \in Sessions, minted < MaxTokens,
           minted' = minted + 1, current' = minted', NEW h, h = Replaced(s)
    PROVE  /\ Follows(h) /\ Sees(h) /\ current' \in 1..minted'
           /\ current \in 1..minted' /\ h[current].aborted
           /\ h[current].session = anchors[current].session
           /\ ~h[current'].aborted /\ h[current'].session = s
  <1>1. /\ minted' \in Tokens /\ 1..minted \subseteq Tokens
        /\ minted' \in 1..minted' /\ 1..minted \subseteq 1..minted'
        /\ \A k \in 1..minted : k # minted'
        /\ \A k \in Tokens : k > minted' => k # minted' /\ k # minted
    BY MemoryFacts DEF Tokens
  <1>2. PICK n : n = minted' /\ n = current' /\ n \in Tokens
    BY <1>1, Zenon
  <1>3. PICK c : c = current /\ c = minted /\ c \in Tokens /\ c # n /\ c \in 1..minted
    BY <1>1, <1>2, MemoryFacts, Zenon
  <1>4. anchors[c] \in SharedAnchor
    BY <1>3, MemoryFacts, Zenon
  <1>5. PICK a : /\ a = Replacement(s, anchors[c].brokerInstance)
                 /\ a \in SharedAnchor /\ a.session = s /\ ~a.aborted /\ ~a.registered
                 /\ a.registration = None /\ a.brokerInstance = anchors[c].brokerInstance
    <2>1. anchors[c].brokerInstance \in 0..MaxInstances
      BY <1>4, Zenon DEF SharedAnchor
    <2>2. PICK a : a = Replacement(s, anchors[c].brokerInstance)
      BY Zenon
    <2>3. /\ a \in SharedAnchor /\ a.session = s /\ ~a.aborted /\ ~a.registered
          /\ a.registration = None /\ a.brokerInstance = anchors[c].brokerInstance
      BY <2>1, <2>2, ReplacementState
    <2> QED
      BY <2>2, <2>3, Zenon
  <1>6. PICK b : b = RetiredAnchor(anchors[c]) /\ h = [anchors EXCEPT ![c] = b, ![n] = a]
    BY <1>2, <1>3, <1>5, MemoryFacts, Zenon DEF RetiredAnchor, Replaced
  <1>7. /\ h \in [Tokens -> SharedAnchor] /\ h[n] = a
        /\ \A k \in Tokens : k # n /\ k # c => h[k] = anchors[k]
        /\ h[c].aborted /\ h[c].session = anchors[c].session
        /\ h[c].registration = anchors[c].registration
        /\ h[c].registered = anchors[c].registered
        /\ h[c].brokerInstance = anchors[c].brokerInstance
    <2>1. /\ b \in SharedAnchor /\ b.aborted /\ b.session = anchors[c].session
          /\ b.registered = anchors[c].registered
          /\ b.registration = anchors[c].registration
          /\ b.brokerInstance = anchors[c].brokerInstance
      BY <1>4, <1>6, RetiredState, Zenon
    <2>2. anchors \in [Tokens -> SharedAnchor]
      BY MemoryFacts, Zenon
    <2>3. /\ h \in [Tokens -> SharedAnchor] /\ h[n] = a /\ h[c] = b
          /\ \A k \in Tokens : k # n /\ k # c => h[k] = anchors[k]
      BY <1>2, <1>3, <1>5, <1>6, <2>1, <2>2, Zenon
    <2> QED
      BY <2>1, <2>3, Zenon
  <1>8. /\ \A k \in 1..minted : /\ h[k].session = anchors[k].session /\ h[k].aborted
                                /\ h[k].registration = anchors[k].registration
                                /\ h[k].registered => anchors[k].registered
        /\ \A k \in Tokens : k > minted' => h[k] = anchors[k]
    <2>1. \A k \in 1..minted : k = c \/ anchors[k].aborted
      BY <1>3, MemoryFacts, Zenon DEF HeapOK
    <2> QED
      BY <1>1, <1>2, <1>3, <1>7, <2>1, Zenon
  <1>9. Follows(h)
    <2>1. /\ h[minted'].session \in Sessions /\ ~h[minted'].registered
          /\ h[minted'].registration = None
      BY <1>2, <1>5, <1>7, Zenon
    <2> QED
      BY <1>7, <1>8, <2>1, NewFollows, Zenon
  <1>10. Sees(h)
    BY <1>3, <1>5, <1>7, Zenon DEF Sees, SeenInv
  <1> QED
    BY <1>1, <1>2, <1>3, <1>5, <1>7, <1>9, <1>10, Zenon

(* The present anchor is retired, and perhaps dropped. *)
LEMMA HeapRetired ==
    ASSUME OmpInv, current # NoToken, minted' = minted, current' \in {current, NoToken},
           NEW h, h = [anchors EXCEPT ![current].aborted = TRUE]
    PROVE  /\ Follows(h) /\ Sees(h) /\ h[current].aborted
           /\ h[current].session = anchors[current].session
  <1>1. PICK c : c = current /\ c = minted /\ c \in Tokens /\ c \in 1..minted
    BY MemoryFacts, Zenon
  <1>2. PICK b : b = RetiredAnchor(anchors[c]) /\ h = [anchors EXCEPT ![c] = b]
    BY <1>1, MemoryFacts, Zenon DEF RetiredAnchor
  <1>3. /\ h \in [Tokens -> SharedAnchor]
        /\ \A k \in Tokens : k # c => h[k] = anchors[k]
        /\ h[c].aborted /\ h[c].session = anchors[c].session
        /\ h[c].registration = anchors[c].registration
        /\ h[c].registered = anchors[c].registered
        /\ h[c].brokerInstance = anchors[c].brokerInstance
    <2>1. /\ b \in SharedAnchor /\ b.aborted /\ b.session = anchors[c].session
          /\ b.registered = anchors[c].registered
          /\ b.registration = anchors[c].registration
          /\ b.brokerInstance = anchors[c].brokerInstance
      BY <1>1, <1>2, RetiredState, MemoryFacts, Zenon
    <2> QED
      BY <1>1, <1>2, <2>1, MemoryFacts, Zenon
  <1>4. minted \in minted..MaxTokens /\ 1..minted \subseteq Tokens
    BY MemoryFacts
  <1>5. Grows(h)
    BY <1>3, <1>4, Zenon DEF Grows
  <1>6. HeapOK(h, current', minted')
    <2>1. current' \in {NoToken, minted'}
      BY <1>1, Zenon
    <2>2. \A k \in Tokens : k > minted' => h[k] = NoAnchor
      <3>1. \A k \in Tokens : k > minted => k # c
        BY <1>1, MemoryFacts
      <3> QED
        BY <1>3, <3>1, MemoryFacts, Zenon DEF HeapOK
    <2>3. \A k \in 1..minted : /\ h[k].session \in Sessions /\ h[k].aborted
                               /\ h[k].registered => h[k].registration = None
      BY <1>1, <1>3, <1>4, MemoryFacts, Zenon DEF HeapOK
    <2> QED
      BY <2>1, <2>2, <2>3, Zenon DEF HeapOK
  <1>7. Follows(h)
    <2>1. \A k \in 1..minted : h[k].registration = anchors[k].registration
      BY <1>3, <1>4, Zenon
    <2> QED
      BY <1>3, <1>5, <1>6, <2>1, Zenon DEF Follows
  <1>8. Sees(h)
    BY <1>3, Zenon DEF Sees, SeenInv
  <1> QED
    BY <1>1, <1>3, <1>7, <1>8, Zenon

LEMMA HeapDropped ==
    ASSUME OmpInv, current # NoToken => anchors[current].aborted,
           current' = NoToken, minted' = minted
    PROVE  Follows(anchors) /\ Sees(anchors)
  <1>1. minted \in minted..MaxTokens
    BY MemoryFacts
  <1>2. Grows(anchors)
    BY <1>1, Zenon DEF Grows
  <1>3. HeapOK(anchors, current', minted')
    <2>1. \A k \in 1..minted : k # NoToken
      BY DEF NoToken
    <2> QED
      BY <2>1, MemoryFacts, Zenon DEF HeapOK
  <1> QED
    BY <1>2, <1>3, MemoryFacts, Zenon DEF Follows, Sees, SeenInv

-----------------------------------------------------------------------------
(* What is shown of every step of the event loop. *)

MemoryOK ==
    /\ instances \in [Instances -> Instance]
    /\ current \in Tokens \cup {NoToken}
    /\ file \in [Sessions -> Tokens \cup {NoToken}]
    /\ minted \in 0..MaxTokens
    /\ failures \in 0..MaxFaults

Keeps ==
    /\ Goes /\ MemoryOK' /\ failures' = failures
    /\ OwnerOK' /\ CloserOK'
    /\ OnlyAnchorsFile => OnlyAnchorsFile'

LEMMA KeepsAll ==
    ASSUME OmpInv, HealInv, SeenInv, CleanInv, OnlyAnchorsFile, Keeps
    PROVE  OmpInv' /\ HealInv' /\ SeenInv' /\ CleanInv' /\ OnlyAnchorsFile'
  <1>1. Goes /\ Turn /\ daemon' = daemon /\ late' = late
    BY Zenon DEF Keeps, Goes, Turn
  <1>2. TypeOK'
    BY <1>1, Zenon DEF OmpInv, TypeOK, LinkTypeOK, Goes, Keeps, MemoryOK
  <1>3. OmpInv'
    BY <1>1, <1>2, TurnKeepsInv, Zenon DEF Keeps
  <1>4. HealInv'
    BY <1>1, TurnHeals, Zenon DEF Goes
  <1>5. SeenInv'
    <2>1. ASSUME NEW v \in Tasks, wire'[v].reply = "hello" PROVE Kept(v)
      BY <1>1, <2>1, Zenon DEF Turn, Moved, NewCall
    <2> QED
      BY <1>1, <2>1, Zenon DEF SeenInv, Goes, Kept
  <1>6. CleanInv'
    <2>1. CASE failures = 0 /\ daemon.instance = 1
      BY <1>1, <2>1, TurnIsClean, Zenon DEF Clean, Goes
    <2>2. CASE ~(failures = 0 /\ daemon.instance = 1)
      BY <1>1, <2>2, Zenon DEF CleanInv, Keeps
    <2> QED
      BY <2>1, <2>2, Zenon
  <1> QED
    BY <1>3, <1>4, <1>5, <1>6, Zenon DEF Keeps

LEMMA FileStays ==
    ASSUME OmpInv, Grows(anchors'), current' = current, file' = file
    PROVE  OnlyAnchorsFile => OnlyAnchorsFile'
  BY MemoryFacts, Zenon DEF OnlyAnchorsFile, Grows

(* The step leaves all but tasks and anchors alone. *)
Local ==
    UNCHANGED <<daemon, late, instances, current, file, minted, failures>>

LEMMA LocalKeeps ==
    ASSUME OmpInv, Local, Goes, CloserOK',
           current # NoToken => anchors'[current].aborted = anchors[current].aborted
    PROVE  Keeps
  <1>1. MemoryOK'
    BY Zenon DEF Local, MemoryOK, OmpInv, TypeOK
  <1>2. OwnerOK'
    BY OwnerStays, Zenon DEF Local
  <1>3. OnlyAnchorsFile => OnlyAnchorsFile'
    BY FileStays, Zenon DEF Local, Goes, Turn
  <1> QED
    BY <1>1, <1>2, <1>3, Zenon DEF Keeps, Local

LEMMA ReliedSame ==
    ASSUME OmpInv, current' = current, NEW h, Alike(h), NEW t
    PROVE  Relied(task, t, h) /\ Aside(task)
  <1>1. ASSUME NEW u \in Tasks, task[u].pc \in RequestPcs PROVE ~h[current].aborted
    <2>1. current \in 1..minted /\ ~anchors[current].aborted
      BY <1>1, TaskFacts, Zenon DEF TaskOK, Working, AnchorPcs
    <2> QED
      BY <2>1, MemoryFacts, Zenon DEF Alike
  <1> QED
    BY <1>1, MemoryFacts, Zenon DEF Relied, Aside

(* Task t gets to pc b from pc a. *)
Stages == {<<"register_hello", "register">>, <<"register", "undo_hello">>,
           <<"undo_hello", "undo">>, <<"request_hello", "request">>,
           <<"unregister_hello", "unregister">>}

LEMMA StageOK ==
    ASSUME OmpInv, NEW t \in Tasks, NEW h, Follows(h), Alike(h), Local, NEW b,
           <<task[t].pc, b>> \in Stages, NEW p, Same(p, task[t]), p.session = task[t].session,
           p.pc = b, b = "undo_hello" => anchors[task[t].registering].aborted, NEW w
    PROVE  TaskOK(t, p, w, h, current', minted')
  <1> DEFINE r == task[t]
  <1>1. TaskOK(t, r, wire[t], anchors, current, minted) /\ current' = current /\ minted' = minted
    BY TaskFacts, Zenon DEF Local
  <1>2. 1..minted \subseteq Tokens /\ (current # NoToken => current \in Tokens)
    BY MemoryFacts, Zenon
  <1>3. r.pc \in AnchorPcs => Working(r, anchors, minted) /\ Working(p, h, minted)
    BY <1>1, <1>2, Zenon DEF TaskOK, Working, Same, Alike
  <1>4. r.pc \in AnchorPcs =>
           /\ r.registering \in Tokens /\ r.registering \in 1..minted
           /\ h[r.registering].registration = anchors[r.registering].registration
           /\ h[r.registering].aborted = anchors[r.registering].aborted
    BY <1>1, <1>2, <1>3, Zenon DEF Working, Follows, Alike
  <1>5. CASE b \in {"register", "undo_hello", "undo"}
    <2>1. r.pc \in RunPcs /\ r.pc \in AnchorPcs
      BY <1>5, Zenon DEF Stages, RunPcs, RegistrarPcs, UndoPcs, AnchorPcs, EnsuringPcs
    <2>2. b \in {"undo_hello", "undo"} => anchors[r.registering].aborted
      BY <1>1, <1>5, Zenon DEF Stages, TaskOK, UndoPcs
    <2>3. h[p.registering].registration = t /\ (b \in UndoPcs => h[p.registering].aborted)
      BY <1>1, <1>4, <2>1, <2>2, Zenon DEF TaskOK, Same, UndoPcs
    <2> QED
      BY <1>1, <1>3, <1>5, <2>1, <2>3, Zenon
         DEF TaskOK, RunPcs, RegistrarPcs, UndoPcs, RequestPcs, ClosingPcs
  <1>6. CASE b = "request"
    <2>1. r.pc \in RequestPcs /\ r.pc \in AnchorPcs
      BY <1>6, Zenon DEF Stages, RequestPcs, AnchorPcs
    <2>2. p.token = p.registering /\ p.token = current /\ ~h[current].aborted
      BY <1>1, <1>4, <2>1, Zenon DEF TaskOK, Same
    <2> QED
      BY <1>1, <1>3, <1>6, <2>1, <2>2, Zenon
         DEF TaskOK, RunPcs, RegistrarPcs, UndoPcs, RequestPcs, ClosingPcs
  <1>7. CASE b = "unregister"
    <2>1. r.pc \in ClosingPcs
      BY <1>7, Zenon DEF Stages, ClosingPcs
    <2>2. Retired(r.session, h, minted)
      <3>1. Retired(r.session, anchors, minted)
        BY <1>1, <2>1, Zenon DEF TaskOK
      <3> QED
        BY <1>2, <3>1, Zenon DEF Retired, Alike
    <2>3. p.kind = "close" => p.token = current /\ current # NoToken /\ h[current].aborted
      BY <1>1, <1>2, <2>1, Zenon DEF TaskOK, Same, Alike
    <2>4. /\ Retired(p.session, h, minted) /\ p.kind \in {"close", "rekey"}
          /\ p.kind = "rekey" => p.registering \in 1..minted
      BY <1>1, <2>1, <2>2, Zenon DEF TaskOK, Same
    <2> QED
      BY <1>1, <1>7, <2>3, <2>4, Zenon
         DEF TaskOK, RunPcs, RegistrarPcs, UndoPcs, RequestPcs, ClosingPcs, AnchorPcs, EnsuringPcs
  <1> QED
    BY <1>5, <1>6, <1>7, Zenon DEF Stages

LEMMA StageKeeps ==
    ASSUME OmpInv, NEW t \in Tasks, NEW h, Follows(h), Alike(h), Sees(h), Local, NEW b,
           <<task[t].pc, b>> \in Stages, anchors' = h,
           b = "undo_hello" => anchors[task[t].registering].aborted,
           t \in ready, ready' = ready \ {t}, Proceed([task EXCEPT ![t].pc = b]),
           Clean => \A k \in Tokens : h[k].registered = anchors[k].registered
    PROVE  Keeps
  <1>1. PICK p : p = AtPc(task[t], b)
    BY Zenon
  <1>2. task[t] \in Task /\ b \in HelloPcs \cup CommandPcs /\ b # task[t].pc
    BY TaskFacts, Zenon DEF Stages, HelloPcs, CommandPcs
  <1>3. Same(p, task[t]) /\ p.session = task[t].session /\ p.pc = b
    BY <1>1, <1>2, GoesOn, Zenon
  <1>4. Proceed([task EXCEPT ![t] = p])
    BY <1>1, MemoryFacts, Zenon DEF AtPc
  <1>5. Relied(task, t, h) /\ Aside(task) /\ StaysReady(t, task)
    BY ReliedSame, Zenon DEF Local, StaysReady
  <1>6. OneMoves(t, p)
    BY <1>2, <1>3, <1>4, <1>5, ProceedOne, Zenon DEF Same
  <1>7. \A u \in Tasks \ {t} : task'[u] = task[u]
    BY <1>4, MemoryFacts, Zenon DEF Proceed
  <1>8. Turn
    <2>1. TaskOK(t, p, wire'[t], anchors', current', minted')
      BY <1>3, StageOK, Zenon
    <2>2. task[t].pc \in RunPcs => p.pc \in RunPcs /\ p.registering = task[t].registering
      BY <1>3, Zenon DEF Stages, RunPcs, RegistrarPcs, UndoPcs, Same
    <2> QED
      BY <1>5, <1>6, <1>7, <2>1, <2>2, OneTurn, Zenon DEF Local
  <1>9. Advances(t)
    <2> SUFFICES ASSUME Undisturbed(t)' PROVE Advances(t)
      BY Zenon DEF Advances
    <2>1. p.pc \in EnsuringPcs \cup RequestPcs /\ p.token # NoToken /\ ~p.disturbed
      BY <1>6, Zenon DEF Undisturbed, OneMoves
    <2>2. task[t].pc \in {"register_hello", "request_hello"}
      BY <1>3, <2>1, Zenon DEF Stages, EnsuringPcs, RegistrarPcs, RequestPcs
    <2>3. Undisturbed(t)
      BY <1>3, <2>1, <2>2, Zenon DEF Undisturbed, Same, EnsuringPcs, RegistrarPcs, RequestPcs
    <2>4. p.pc \notin RequestPcs \/ (p.pc = "request" /\ task[t].pc = "request_hello")
      BY <1>3, <2>2, Zenon DEF Stages, RequestPcs
    <2> QED
      BY <1>3, <1>6, <2>3, <2>4, Zenon DEF Advances, OneMoves, Same
  <1>10. ASSUME Clean PROVE HandsOn /\ Passes(t)
    <2>1. HandsOn
      BY <1>10, MemoryFacts, Zenon DEF HandsOn, Believes, Local, Alike
    <2>2. Passes(t)
      BY <1>3, <1>6, Zenon DEF Passes, Stages, RegistrarPcs, OneMoves, Same
    <2> QED
      BY <2>1, <2>2, Zenon
  <1>11. Goes
    BY <1>6, <1>8, <1>9, <1>10, OneGoes, Zenon DEF Follows, Sees
  <1>12. CloserOK'
    <2>1. p.pc \in ClosingPcs /\ p.kind = "close" => Closes(t)
      BY <1>3, Zenon DEF Closes, ClosingPcs, Stages, Same
    <2> QED
      BY <1>6, <2>1, OneCloser, Zenon DEF OmpInv
  <1> QED
    BY <1>11, <1>12, LocalKeeps, MemoryFacts, Zenon DEF Alike

-----------------------------------------------------------------------------
(* What follows ensureRegistered. *)

RequestingFor(r, k) == [r EXCEPT !.pc = "request_hello", !.owner = None, !.token = k]

LEMMA RequestingState ==
    ASSUME NEW r \in Task, NEW k \in Tokens, NEW p, p = RequestingFor(r, k)
    PROVE  /\ p \in Task /\ p.pc = "request_hello" /\ p.token = k
           /\ p.session = r.session /\ p.kind = r.kind /\ p.registering = r.registering
           /\ p.retried = r.retried /\ p.disturbed = r.disturbed
  <1>1. "request_hello" \in HelloPcs
    BY Zenon DEF HelloPcs
  <1> QED
    BY <1>1, Zenon DEF Task, RequestingFor

(* Task u goes on to request with the token of its anchor. *)
Requesting(u, p) ==
    LET r == task[u]
    IN  /\ p \in Task /\ p.pc = "request_hello" /\ p.token = r.registering
        /\ p.session = r.session /\ p.kind = r.kind /\ p.registering = r.registering
        /\ p.retried = r.retried /\ p.disturbed = r.disturbed
        /\ ~anchors[r.registering].aborted

LEMMA EnsuredTask ==
    ASSUME OmpInv, NEW u \in Tasks, task[u].pc \in AnchorPcs, NEW p, p = Ensured(task[u])
    PROVE  p = Idle \/ Requesting(u, p)
  <1>1. task[u] \in Task /\ task[u].registering \in Tokens
    BY TaskFacts, MemoryFacts, Zenon DEF TaskOK, Working
  <1> SUFFICES ASSUME p # Idle PROVE Requesting(u, p)
    BY Zenon
  <1>2. p = RequestingFor(task[u], task[u].registering) /\ ~anchors[task[u].registering].aborted
    BY Zenon DEF Ensured, RequestingFor
  <1>3. PICK r, k : r = task[u] /\ k = r.registering /\ r \in Task /\ k \in Tokens
    BY <1>1, Zenon
  <1>4. p = RequestingFor(r, k)
    BY <1>2, <1>3, Zenon
  <1>5. /\ p \in Task /\ p.pc = "request_hello" /\ p.token = k
        /\ p.session = r.session /\ p.kind = r.kind /\ p.registering = r.registering
        /\ p.retried = r.retried /\ p.disturbed = r.disturbed
    BY <1>3, <1>4, RequestingState
  <1> QED
    BY <1>2, <1>3, <1>5, Zenon DEF Requesting

LEMMA RequestingOK ==
    ASSUME OmpInv, NEW u \in Tasks, task[u].pc \in AnchorPcs, NEW p, Requesting(u, p),
           NEW w, NEW hp, \A k \in Tokens : /\ hp[k].session = anchors[k].session
                                           /\ hp[k].aborted = anchors[k].aborted
    PROVE  TaskOK(u, p, w, hp, current, minted)
  <1>1. Working(task[u], anchors, minted) /\ 1..minted \subseteq Tokens
    BY TaskFacts, MemoryFacts, Zenon DEF TaskOK
  <1>2. Working(p, hp, minted)
    BY <1>1, Zenon DEF Working, Requesting
  <1>3. p.token = p.registering /\ p.token = current /\ ~hp[current].aborted
    BY <1>1, MemoryFacts, ZenonT(30) DEF Working, Requesting, HeapOK
  <1> QED
    BY <1>2, <1>3, Zenon
       DEF TaskOK, Requesting, RunPcs, RegistrarPcs, UndoPcs, RequestPcs, ClosingPcs

(* Nobody who registers anchor k is left alone with a stale confirmation. *)
Unconfirmed(k) == \A u \in Tasks : Kept(u) /\ Stale(u) => task[u].registering # k

LEMMA RequestingAdvances ==
    ASSUME NEW u \in Tasks, NEW p, Requesting(u, p), task'[u] = p,
           Unconfirmed(p.registering),
           p.retried /\ p.token # NoToken /\ ~p.disturbed =>
              daemon.token[p.session] = p.token
    PROVE  Advances(u)
  BY Zenon DEF Advances, Undisturbed, Requesting, Unconfirmed

LEMMA IdleAdvances ==
    ASSUME NEW u \in Tasks, task'[u] = Idle
    PROVE  Advances(u)
  BY RecordTypes, Zenon DEF Advances, Undisturbed, EnsuringPcs, RegistrarPcs, RequestPcs

(* Task t ends. *)
LEMMA IdleGoes ==
    ASSUME OmpInv, NEW t \in Tasks, task[t].pc \notin RunPcs, anchors' = anchors,
           Follows(anchors), Sees(anchors), Relied(task, t, anchors),
           Proceed([task EXCEPT ![t] = Idle]), ready' = ready \ {t},
           daemon' = daemon, late' = late,
           Clean => /\ HandsOn /\ task[t].pc # "unregister_hello"
                    /\ task[t].pc = "unregister" => wire[t].phase # "sent"
    PROVE  Goes /\ CloserOK'
  <1>1. Aside(task) /\ StaysReady(t, task) /\ Idle \in Task /\ Idle.pc = "idle"
    BY MemoryFacts, RecordTypes, Zenon DEF Aside, StaysReady
  <1>2. OneMoves(t, Idle)
    BY <1>1, ProceedOne, Zenon
  <1>3. \A u \in Tasks \ {t} : task'[u] = task[u]
    BY MemoryFacts, Zenon DEF Proceed
  <1>4. TaskOK(t, Idle, wire'[t], anchors', current', minted')
    BY <1>1, <1>2, IdleOK, Zenon DEF OneMoves, NewCall, HelloPcs, CommandPcs
  <1>5. Turn
    BY <1>1, <1>2, <1>3, <1>4, OneTurn, Zenon
  <1>6. Advances(t)
    BY <1>2, IdleAdvances, Zenon DEF OneMoves
  <1>7. Clean => HandsOn /\ Passes(t)
    BY Zenon DEF Passes, RunPcs, RegistrarPcs, UndoPcs
  <1>8. Goes
    BY <1>2, <1>5, <1>6, <1>7, OneGoes, MemoryFacts, Zenon DEF Sees
  <1>9. CloserOK'
    BY <1>1, <1>2, OneCloser, Zenon DEF OmpInv, ClosingPcs
  <1> QED
    BY <1>8, <1>9, Zenon

LEMMA BelievesStill ==
    ASSUME current' = current,
           current # NoToken => /\ anchors'[current].aborted = anchors[current].aborted
                                /\ anchors'[current].registered = anchors[current].registered
    PROVE  HandsOn
  BY Zenon DEF HandsOn, Believes

LEMMA IdleKeeps ==
    ASSUME OmpInv, NEW t \in Tasks, task[t].pc \in RequestPcs, anchors' = anchors, Local,
           Proceed([task EXCEPT ![t] = Idle]), ready' = ready \ {t}
    PROVE  Keeps
  <1>1. Follows(anchors) /\ Sees(anchors) /\ Relied(task, t, anchors) /\ HandsOn
    BY HeapSame, ReliedSame, BelievesStill, Zenon DEF Local
  <1>2. task[t].pc \notin RunPcs \cup {"unregister_hello", "unregister"}
    BY Zenon DEF RequestPcs, RunPcs, RegistrarPcs, UndoPcs
  <1>3. Goes /\ CloserOK'
    BY <1>1, <1>2, IdleGoes, Zenon DEF Local
  <1> QED
    BY <1>3, LocalKeeps, Zenon

-----------------------------------------------------------------------------
(* The end of a registration. *)

(* Task u awaits the registration that task t runs, or runs it. *)
Settled(t, u) == u = t \/ (task[u].pc = "joined" /\ task[u].owner = t)

LEMMA SettledFacts ==
    ASSUME OmpInv, NEW t \in Tasks, task[t].pc \in RunPcs, NEW u \in Tasks, Settled(t, u)
    PROVE  /\ task[u].registering = task[t].registering
           /\ task[u].registering \in 1..minted /\ task[u].registering \in Tokens
           /\ task[u].pc \in AnchorPcs /\ task[u].pc \notin {"idle"} \cup RequestPcs
           /\ task[u].session = task[t].session
  <1>1. task[u].pc \in RunPcs \cup {"joined"}
    BY Zenon DEF Settled
  <1>2. /\ task[u].pc \in AnchorPcs /\ task[u].pc \notin {"idle"} \cup RequestPcs
        /\ task[t].pc \in AnchorPcs
    BY <1>1, Zenon DEF AnchorPcs, EnsuringPcs, RunPcs, RegistrarPcs, UndoPcs, RequestPcs
  <1>3. Working(task[u], anchors, minted) /\ Working(task[t], anchors, minted)
    BY <1>2, TaskFacts, Zenon DEF TaskOK
  <1>4. task[u].registering \in 1..minted /\ task[u].registering \in Tokens
    BY <1>3, MemoryFacts, Zenon DEF Working
  <1>5. task[u].registering = task[t].registering
    <2>1. CASE u # t
      <3>1. anchors[task[u].registering].registration = t
        BY <2>1, TaskFacts, Zenon DEF Settled, TaskOK
      <3>2. t # None
        BY LinkAssumption, Zenon
      <3> QED
        BY <1>4, <3>1, <3>2, Zenon DEF OmpInv, Registrar
    <2> QED
      BY <2>1, Zenon
  <1> QED
    BY <1>2, <1>3, <1>4, <1>5, Zenon DEF Working

(* The anchors after the registration for anchor k is over. *)
SettlesAnchor(k, ok) ==
    /\ anchors' \in [Tokens -> SharedAnchor]
    /\ \A j \in Tokens : /\ j # k => anchors'[j] = anchors[j]
                         /\ anchors'[j].session = anchors[j].session
                         /\ anchors'[j].aborted = anchors[j].aborted
                         /\ anchors'[j].brokerInstance = anchors[j].brokerInstance
    /\ anchors'[k].registration = None
    /\ IF ok THEN anchors'[k].registered
       ELSE anchors'[k].registered = anchors[k].registered

EndedAnchor(a) == [a EXCEPT !.registration = None]
BelievingAnchor(a) == [a EXCEPT !.registered = TRUE]

LEMMA EndedState ==
    ASSUME NEW a \in SharedAnchor
    PROVE  /\ EndedAnchor(a) \in SharedAnchor
           /\ EndedAnchor(a).session = a.session /\ EndedAnchor(a).aborted = a.aborted
           /\ EndedAnchor(a).brokerInstance = a.brokerInstance
           /\ EndedAnchor(a).registration = None /\ EndedAnchor(a).registered = a.registered
  BY Zenon DEF SharedAnchor, EndedAnchor

LEMMA BelievingState ==
    ASSUME NEW a \in SharedAnchor
    PROVE  /\ BelievingAnchor(a) \in SharedAnchor
           /\ BelievingAnchor(a).session = a.session /\ BelievingAnchor(a).aborted = a.aborted
           /\ BelievingAnchor(a).brokerInstance = a.brokerInstance
           /\ BelievingAnchor(a).registered
  BY Zenon DEF SharedAnchor, BelievingAnchor

LEMMA SettlesHeap ==
    ASSUME NEW ok \in BOOLEAN, NEW k \in Tokens, anchors \in [Tokens -> SharedAnchor],
           NEW h, h = IF ok THEN [anchors EXCEPT ![k].registered = TRUE] ELSE anchors,
           anchors' = [h EXCEPT ![k].registration = None]
    PROVE  SettlesAnchor(k, ok)
  <1>1. PICK a \in SharedAnchor :
           /\ a = IF ok THEN BelievingAnchor(anchors[k]) ELSE anchors[k]
           /\ h = [anchors EXCEPT ![k] = a]
    <2>1. anchors[k] \in SharedAnchor /\ BelievingAnchor(anchors[k]) \in SharedAnchor
      BY BelievingState, Zenon
    <2>2. ok => h = [anchors EXCEPT ![k] = BelievingAnchor(anchors[k])]
      BY Zenon DEF BelievingAnchor
    <2>3. ~ok => h = [anchors EXCEPT ![k] = anchors[k]]
      BY Zenon
    <2> QED
      BY <2>1, <2>2, <2>3, Zenon
  <1>2. PICK b : b = EndedAnchor(a) /\ anchors' = [anchors EXCEPT ![k] = b]
    BY <1>1, Zenon DEF EndedAnchor
  <1>3. /\ b \in SharedAnchor /\ b.session = anchors[k].session
        /\ b.aborted = anchors[k].aborted /\ b.registration = None
        /\ b.brokerInstance = anchors[k].brokerInstance
        /\ IF ok THEN b.registered ELSE b.registered = anchors[k].registered
    BY <1>1, <1>2, EndedState, BelievingState, ZenonT(30)
  <1>4. /\ anchors' \in [Tokens -> SharedAnchor] /\ anchors'[k] = b
        /\ \A j \in Tokens : j # k => anchors'[j] = anchors[j]
    BY <1>2, <1>3, ZenonT(30)
  <1> QED
    BY <1>3, <1>4, Zenon DEF SettlesAnchor

(* The state of task u after the registration that task t ran. *)
SettledAs(t, ok, u) ==
    IF Settled(t, u) THEN IF ok THEN Ensured(task[u]) ELSE Idle ELSE task[u]

LEMMA SettleGoes ==
    ASSUME OmpInv, HealInv, NEW t \in Tasks, NEW ok \in BOOLEAN, Local,
           Proceed([u \in Tasks |-> SettledAs(t, ok, u)]),
           SettlesAnchor(task[t].registering, ok), t \in ready, ready' = ready \ {t},
           task[t].pc \in RunPcs,
           ok => /\ task[t].pc = "register" /\ wire[t].reply = "ok"
                 /\ Live(task[t].registering, anchors),
           Clean => ok \/ task[t].pc = "undo"
    PROVE  Keeps
  <1>1. PICK k : k = task[t].registering /\ k \in 1..minted /\ k \in Tokens
    BY SettledFacts, Zenon DEF Settled
  <1>2. PICK f : f = [u \in Tasks |-> SettledAs(t, ok, u)]
    BY Zenon
  <1>3. ASSUME NEW u \in Tasks, Settled(t, u)
        PROVE  /\ f[u] = Idle \/ (ok /\ Requesting(u, f[u]))
               /\ f[u] \in Task /\ f[u].pc \in {"idle", "request_hello"}
               /\ f[u].pc # task[u].pc
    <2>1. f[u] = IF ok THEN Ensured(task[u]) ELSE Idle
      BY <1>2, <1>3, Zenon DEF SettledAs
    <2>2. f[u] = Idle \/ (ok /\ Requesting(u, f[u]))
      BY <1>3, <2>1, EnsuredTask, SettledFacts, Zenon
    <2>3. task[u].pc \notin {"idle", "request_hello"}
      BY <1>3, SettledFacts, Zenon DEF RequestPcs
    <2> QED
      BY <2>2, <2>3, RecordTypes, Zenon DEF Requesting
  <1>4. /\ f \in [Tasks -> Task]
        /\ \A u \in Tasks : ~Settled(t, u) => f[u] = task[u]
    <2>1. \A u \in Tasks : ~Settled(t, u) => f[u] = task[u]
      BY <1>2, Zenon DEF SettledAs
    <2>2. \A u \in Tasks : f[u] \in Task
      BY <1>3, <2>1, MemoryFacts, Zenon
    <2>3. f = [u \in Tasks |-> f[u]]
      BY <1>2, Zenon
    <2> QED
      BY <2>1, <2>2, <2>3, Zenon
  <1>5. /\ task' = f /\ wire' \in [Tasks -> Call]
        /\ \A v \in Tasks : /\ f[v] = task[v] => wire'[v] = wire[v]
                            /\ f[v].pc = "idle" \/ f[v].pc # task[v].pc =>
                                  NewCall(wire'[v], f[v].pc)
    BY <1>2, <1>4, ProceedMoves, Zenon
  <1>6. ASSUME NEW u \in Tasks, ~Settled(t, u) PROVE Kept(u)
    BY <1>4, <1>5, <1>6, Zenon DEF Kept, Settled
  <1>7. ASSUME NEW u \in Tasks, Settled(t, u) PROVE Moved(u) /\ ~Kept(u)
    <2>1. u \notin ready' /\ NewCall(wire'[u], task'[u].pc) /\ task'[u] = f[u]
      <3>1. u # t => u \notin ready
        BY <1>7, TaskFacts, Zenon DEF Settled
      <3> QED
        BY <1>3, <1>5, <1>7, <3>1, Zenon
    <2>2. TaskOK(u, f[u], wire'[u], anchors', current', minted')
      <3>1. CASE f[u] = Idle
        BY <2>1, <3>1, RecordTypes, IdleOK, Zenon DEF NewCall, HelloPcs, CommandPcs
      <3>2. CASE Requesting(u, f[u])
        BY <1>7, <3>2, SettledFacts, RequestingOK, Zenon DEF SettlesAnchor, Local
      <3> QED
        BY <1>3, <1>7, <3>1, <3>2, Zenon
    <2> QED
      BY <1>3, <1>7, <2>1, <2>2, Zenon DEF Moved, Kept
  <1>8. ASSUME NEW u \in Tasks, ~Settled(t, u) PROVE Undisrupted(u)
    <2>1. TaskOK(u, task[u], wire[u], anchors, current, minted) /\ current' = current
      BY TaskFacts, Zenon DEF Local
    <2>2. ASSUME task[u].pc \in RunPcs \cup {"joined"}
          PROVE  anchors'[task[u].registering] = anchors[task[u].registering]
      <3>1. task[u].registering \in Tokens
        BY <2>1, <2>2, MemoryFacts, Zenon DEF TaskOK, Working, AnchorPcs, RunPcs, EnsuringPcs
      <3>2. task[u].registering # k
        <4>1. anchors[k].registration = t
          BY <1>1, TaskFacts, Zenon DEF TaskOK
        <4> QED
          BY <1>8, <2>1, <2>2, <4>1, Zenon DEF TaskOK, Settled
      <3> QED
        BY <1>1, <3>1, <3>2, Zenon DEF SettlesAnchor
    <2>3. task[u].pc \in RequestPcs => ~anchors'[current].aborted
      BY <2>1, MemoryFacts, Zenon DEF TaskOK, Working, AnchorPcs, SettlesAnchor
    <2> QED
      BY <2>1, <2>2, <2>3, Zenon DEF Undisrupted
  <1>9. ASSUME NEW j \in 1..minted PROVE Registrar(j)'
    <2>1. CASE j = k
      BY <1>1, <2>1, Zenon DEF SettlesAnchor, Registrar
    <2>2. CASE j # k
      <3>1. anchors'[j] = anchors[j] /\ Registrar(j) /\ j \in Tokens
        BY <1>1, <2>2, MemoryFacts, Zenon DEF SettlesAnchor, OmpInv
      <3> SUFFICES ASSUME anchors[j].registration # None PROVE Registrar(j)'
        BY <3>1, Zenon DEF Registrar
      <3>2. PICK w \in Tasks : w = anchors[j].registration
        BY <3>1, MemoryFacts, Zenon DEF SharedAnchor
      <3>3. task[w].pc \in RunPcs /\ task[w].registering = j
        BY <3>1, <3>2, Zenon DEF Registrar
      <3>4. ~Settled(t, w)
        BY <1>1, <2>2, <3>3, Zenon DEF Settled, RunPcs, RegistrarPcs, UndoPcs
      <3> QED
        BY <1>6, <3>1, <3>2, <3>3, <3>4, Zenon DEF Registrar, Kept
    <2> QED
      BY <2>1, <2>2, Zenon
  <1>10. Grows(anchors') /\ HeapOK(anchors', current', minted') /\ minted' = minted
    <2>1. minted \in minted..MaxTokens /\ \A j \in Tokens : j > minted => j # k
      BY <1>1, MemoryFacts
    <2>2. Grows(anchors') /\ minted' = minted /\ current' = current
      BY <2>1, MemoryFacts, Zenon DEF Grows, SettlesAnchor, Local
    <2>3. \A j \in Tokens : j > minted => anchors'[j] = NoAnchor
      BY <1>1, <2>1, MemoryFacts, Zenon DEF HeapOK, SettlesAnchor
    <2>4. \A j \in 1..minted : anchors'[j].registered => anchors'[j].registration = None
      BY <1>1, MemoryFacts, Zenon DEF HeapOK, SettlesAnchor
    <2>5. \A j \in 1..minted :
             anchors'[j].session \in Sessions /\ (j = current \/ anchors'[j].aborted)
      BY MemoryFacts, Zenon DEF HeapOK, SettlesAnchor
    <2> QED
      BY <2>2, <2>3, <2>4, <2>5, MemoryFacts, Zenon DEF HeapOK
  <1>11. Turn
    BY <1>6, <1>7, <1>8, <1>9, <1>10, Zenon DEF Turn, Local
  <1>12. ASSUME NEW u \in Tasks, Settled(t, u) PROVE Advances(u)
    <2>1. CASE f[u] = Idle
      BY <1>5, <2>1, IdleAdvances, Zenon
    <2>2. CASE ok /\ Requesting(u, f[u])
      <3>1. task[u].registering = k /\ f[u].registering = k
        BY <1>1, <1>12, <2>2, SettledFacts, Zenon DEF Requesting
      <3>2. Unconfirmed(k)
        <4> SUFFICES ASSUME NEW w \in Tasks, Kept(w), Stale(w), task[w].registering = k
                     PROVE  FALSE
          BY Zenon DEF Unconfirmed
        <4>1. anchors[k].registration = t /\ anchors[k].registration = w
          <5>1. task[w].pc \in RunPcs
            BY Zenon DEF Stale, RunPcs, RegistrarPcs
          <5> QED
            BY <1>1, <5>1, TaskFacts, Zenon DEF TaskOK
        <4> QED
          BY <1>7, <4>1, Zenon DEF Settled
      <3>3. ASSUME f[u].retried, f[u].token # NoToken, ~f[u].disturbed
            PROVE  daemon.token[f[u].session] = f[u].token
        <4>1. task[u].pc \in EnsuringPcs /\ task[u].pc \in AnchorPcs
          BY <1>12, <2>2, Zenon DEF Settled, EnsuringPcs, RegistrarPcs, AnchorPcs
        <4>2. task[u].token = k /\ task[u].token # NoToken
          <5>1. Working(task[u], anchors, minted) /\ task[u].retried
            BY <2>2, <3>3, <4>1, TaskFacts, Zenon DEF TaskOK, Requesting
          <5> QED
            BY <3>1, <5>1, Zenon DEF Working
        <4>3. Undisturbed(u)
          BY <2>2, <3>3, <4>1, <4>2, Zenon DEF Undisturbed, Requesting
        <4>4. ~Stale(t)
          BY <1>1, <4>2, <4>3, Zenon DEF HealInv, HealOK
        <4>5. daemon.token[task[t].session] = k
          BY <1>1, <2>2, <4>4, Zenon DEF Stale
        <4> QED
          BY <1>12, <2>2, <3>1, <4>5, SettledFacts, Zenon DEF Requesting
      <3> QED
        BY <1>5, <2>2, <3>1, <3>2, <3>3, RequestingAdvances, Zenon
    <2> QED
      BY <1>3, <1>12, <2>1, <2>2, Zenon
  <1>13. ASSUME Clean PROVE HandsOn /\ \A u \in Tasks : Kept(u) \/ Passes(u)
    <2>1. ok => current' = k /\ Believes'
      <3>1. ok => current' = k /\ ~anchors[k].aborted
        BY <1>1, Zenon DEF Live
      <3>2. k # NoToken
        BY <1>1 DEF Tokens, NoToken
      <3> QED
        BY <1>1, <3>1, <3>2, Zenon DEF Believes, SettlesAnchor
    <2>2. HandsOn
      <3>1. CASE ok
        BY <2>1, <3>1, Zenon DEF HandsOn, Local
      <3>2. CASE ~ok
        <4>1. \A j \in Tokens : anchors'[j].registered = anchors[j].registered
          BY <1>1, <3>2, Zenon DEF SettlesAnchor
        <4> QED
          BY <4>1, MemoryFacts, Zenon DEF HandsOn, Believes, Local, SettlesAnchor
      <3> QED
        BY <3>1, <3>2, Zenon
    <2>3. Passes(t)
      <3>1. CASE ok
        BY <1>1, <2>1, <3>1, Zenon DEF Passes
      <3>2. CASE ~ok
        <4>1. task[t].pc = "undo" /\ wire[t].phase = "replied"
          BY <1>13, <3>2, Zenon DEF OmpInv
        <4> QED
          BY <4>1, Zenon DEF Passes, RegistrarPcs
      <3> QED
        BY <3>1, <3>2, Zenon
    <2>4. ASSUME NEW u \in Tasks, task[u].pc = "joined" PROVE Passes(u)
      BY <2>4, Zenon DEF Passes, RegistrarPcs
    <2> QED
      BY <1>6, <2>2, <2>3, <2>4, Zenon DEF Settled
  <1>14. Goes
    BY <1>4, <1>5, <1>6, <1>11, <1>12, <1>13, MemoryFacts, Zenon
       DEF Goes, SettlesAnchor, SeenInv
  <1>15. CloserOK'
    <2>1. \A u \in Tasks : Closes(u)' => Closes(u)
      <3> SUFFICES ASSUME NEW u \in Tasks, Closes(u)' PROVE Closes(u)
        BY Zenon
      <3>1. ~Settled(t, u)
        BY <1>3, <1>5, Zenon DEF Closes, ClosingPcs
      <3> QED
        BY <1>6, <3>1, Zenon DEF Closes, Kept
    <2> QED
      BY <2>1, Zenon DEF OmpInv, CloserOK
  <1> QED
    BY <1>14, <1>15, LocalKeeps, MemoryFacts, Zenon DEF SettlesAnchor

-----------------------------------------------------------------------------
(* A step that ends in ensureRegistered. *)

(* The present anchor does not believe, keeps its belief or registers. *)
BeliefKept(r, h) ==
    \/ ~Believes
    \/ current' = current /\ ~h[current].aborted /\ h[current].registered
    \/ /\ current' = current /\ r.registering = current /\ Live(current, h)
       /\ h[current].registration = None /\ ~h[current].registered

LEMMA EnsureGoes ==
    ASSUME OmpInv, NEW t \in Tasks, NEW r, NEW h, NEW f, Aside(f), Follows(h),
           Relied(f, t, h), Called(r, h), Carried(t, r), Sees(h), StaysReady(t, f),
           \/ EnsureRegistered(f, t, r, h) /\ task[t].pc # "probe"
           \/ RegisterOrJoin(f, t, r, h) /\ ~h[r.registering].registered,
           task[t].pc \in {"idle", "probe", "request", "unregister_hello", "unregister"},
           daemon' = daemon, late' = late,
           Clean => /\ BeliefKept(r, h) /\ task[t].pc # "unregister_hello"
                    /\ task[t].pc = "unregister" => wire[t].phase # "sent"
    PROVE  /\ Goes /\ CloserOK'
           /\ \A k \in Tokens : /\ anchors'[k].aborted = h[k].aborted
                                /\ anchors'[k].session = h[k].session
  <1>1. /\ h \in [Tokens -> SharedAnchor] /\ r \in Task /\ r.registering \in Tokens
        /\ h[r.registering].session \in Sessions
    <2>1. 1..minted' \subseteq Tokens
      BY MemoryFacts DEF Follows, Grows, Tokens
    <2> QED
      BY <2>1, Zenon DEF Follows, Called, HeapOK
  <1>2. PICK p \in Task : /\ Proceed([f EXCEPT ![t] = p]) /\ Ensures(t, p, r, h)
                          /\ task[t].pc = "probe" => p.pc # "probe"
    BY <1>1, EnsureOutcome, JoinOutcome, Zenon
  <1>3. \A k \in Tokens : /\ anchors'[k].aborted = h[k].aborted
                          /\ anchors'[k].session = h[k].session
    BY <1>2, EnsuredAnchors, Zenon
  <1>4. ASSUME BeliefKept(r, h), OneMoves(t, p) PROVE HandsOn
    <2>1. CASE ~Believes
      BY <2>1, Zenon DEF HandsOn
    <2>2. CASE current' = current /\ ~h[current].aborted /\ h[current].registered
      BY <1>2, <2>2, BeliefStays, Zenon
    <2>3. CASE /\ current' = current /\ r.registering = current /\ Live(current, h)
               /\ h[current].registration = None /\ ~h[current].registered
      <3>1. p.pc = "register_hello" /\ p.registering = current
        BY <1>2, <2>3, Zenon DEF Ensures, Begun
      <3>2. task'[t].pc \in RegistrarPcs /\ task'[t].registering = current
        BY <1>4, <3>1, Zenon DEF OneMoves, RegistrarPcs
      <3> QED
        BY <3>2, Zenon DEF HandsOn
    <2> QED
      BY <1>4, <2>1, <2>2, <2>3, Zenon DEF BeliefKept
  <1>5. OneMoves(t, p)
    <2>1. p.pc \in {"idle", "probe", "joined", "register_hello"}
      BY <1>2, RecordTypes, Zenon DEF Ensures
    <2>2. p.pc = "idle" \/ p.pc # task[t].pc
      BY <1>2, <2>1, Zenon
    <2> QED
      BY <1>2, <2>2, ProceedOne, Zenon
  <1>6. Goes /\ p.pc \notin ClosingPcs
    BY <1>2, <1>4, <1>5, EnsuresGoes, Zenon
  <1>7. CloserOK'
    BY <1>5, <1>6, OneCloser, Zenon DEF OmpInv
  <1> QED
    BY <1>3, <1>6, <1>7, Zenon

FreshFrom(i, kind, k) == [i EXCEPT !.kind = kind, !.registering = k]
ToolOf(r, i) == [r EXCEPT !.by = i]

LEMMA FreshCalled ==
    ASSUME NEW kind \in {"shell", "tool"}, NEW k \in Tokens, k \in 1..minted', NEW h,
           NEW i \in Sessions
    PROVE  /\ Fresh(kind, k) \in Task /\ Fresh(kind, k).registering = k
           /\ Called(Fresh(kind, k), h) /\ \A t \in Tasks : Carried(t, Fresh(kind, k))
           /\ LET r == [Fresh(kind, k) EXCEPT !.by = i]
              IN  /\ r.registering = k /\ Called(r, h) /\ \A t \in Tasks : Carried(t, r)
  <1>1. Idle \in Task /\ Idle.token = NoToken /\ Idle.retried = FALSE
    BY RecordTypes, Zenon DEF Idle
  <1>2. PICK r : r = FreshFrom(Idle, kind, k)
    BY Zenon
  <1>3. /\ r \in Task /\ r.registering = k /\ r.kind = kind /\ r.token = NoToken
        /\ r.retried = FALSE
    BY <1>1, <1>2, Zenon DEF FreshFrom, Task
  <1>4. Fresh(kind, k) = r
    BY <1>2, Zenon DEF Fresh, FreshFrom
  <1>5. PICK q : q = ToolOf(r, i)
    BY Zenon
  <1>6. /\ q \in Task /\ q.registering = k /\ q.kind = kind /\ q.token = NoToken
        /\ q.retried = FALSE
    BY <1>3, <1>5, Zenon DEF ToolOf, Task
  <1>7. [Fresh(kind, k) EXCEPT !.by = i] = q
    BY <1>4, <1>5, Zenon DEF ToolOf
  <1> QED
    BY <1>3, <1>4, <1>6, <1>7, Zenon DEF Called, Carried

-----------------------------------------------------------------------------
(* Replies resume the hooks. *)

LEMMA ResumedFacts ==
    ASSUME OmpInv, NEW t \in Tasks, NEW pc, Resumed(t, pc)
    PROVE  /\ task[t].pc = pc /\ t \in ready /\ ready' = ready \ {t}
           /\ wire[t].phase = "replied"
           /\ Clean => /\ pc \in HelloPcs => Reply(t) = "hello"
                       /\ pc \in {"register", "undo", "unregister"} => Reply(t) = "ok"
  BY Zenon DEF Resumed, OmpInv, Clean, CleanInv, Proper, Reply

LEMMA SettleKeeps ==
    ASSUME OmpInv, HealInv, NEW t \in Tasks, NEW ok \in BOOLEAN, Local, NEW h,
           h = IF ok THEN [anchors EXCEPT ![task[t].registering].registered = TRUE]
               ELSE anchors,
           Settle(t, ok, h), t \in ready, ready' = ready \ {t}, task[t].pc \in RunPcs,
           ok => /\ task[t].pc = "register" /\ wire[t].reply = "ok"
                 /\ Live(task[t].registering, anchors),
           Clean => ok \/ task[t].pc = "undo"
    PROVE  Keeps
  <1>1. PICK k : k = task[t].registering /\ k \in Tokens
    BY SettledFacts, Zenon DEF Settled
  <1>2. SettlesAnchor(task[t].registering, ok)
    <2>1. anchors' = [h EXCEPT ![k].registration = None]
      BY <1>1, Zenon DEF Settle
    <2>2. h = IF ok THEN [anchors EXCEPT ![k].registered = TRUE] ELSE anchors
      BY <1>1, Zenon
    <2> QED
      BY <1>1, <2>1, <2>2, SettlesHeap, MemoryFacts, Zenon
  <1>3. Proceed([u \in Tasks |-> SettledAs(t, ok, u)])
    BY Zenon DEF Settle, SettledAs, Settled
  <1> QED
    BY <1>2, <1>3, SettleGoes, Zenon

LEMMA FailedKeeps ==
    ASSUME OmpInv, HealInv, NEW t \in Tasks, Local, Settle(t, FALSE, anchors), t \in ready,
           ready' = ready \ {t}, task[t].pc \in RunPcs, Clean => task[t].pc = "undo"
    PROVE  Keeps
  <1>1. PICK ok \in BOOLEAN : ok = FALSE
    BY Zenon
  <1>2. Settle(t, ok, anchors)
    BY <1>1, Zenon
  <1> QED
    BY <1>1, <1>2, SettleKeeps, Zenon

LEMMA ProbeStep ==
    ASSUME OmpInv, NEW t \in Tasks, ProbeReturns(t)
    PROVE  Keeps
  <1>1. /\ task[t].pc = "probe" /\ t \in ready /\ ready' = ready \ {t}
        /\ wire[t].phase = "replied" /\ Local /\ current' = current /\ minted' = minted
    BY ResumedFacts, Zenon DEF ProbeReturns, Local
  <1>2. PICK h : h = IF Reply(t) = "hello" THEN OnInstance(wire[t].instance) ELSE anchors
    BY Zenon
  <1>3. /\ Follows(h) /\ Alike(h) /\ Sees(h)
        /\ Clean => \A k \in Tokens : h[k].registered = anchors[k].registered
    BY <1>1, <1>2, HeapSame, HeapHears, Zenon DEF Reply
  <1>4. Relied(task, t, h) /\ Aside(task) /\ StaysReady(t, task)
    BY <1>1, <1>3, ReliedSame, Zenon DEF StaysReady
  <1> DEFINE r == task[t]
             k == r.registering
  <1>5. /\ r \in Task /\ ~r.retried /\ r.pc \in AnchorPcs
        /\ Working(r, anchors, minted) /\ k \in Tokens
    BY <1>1, TaskFacts, MemoryFacts, Zenon DEF TaskOK, Working, AnchorPcs, EnsuringPcs
  <1>6. Called(r, h) /\ Carried(t, r)
    BY <1>1, <1>5, Zenon DEF Called, Carried, Working, Undisturbed, EnsuringPcs
  <1>7. CASE ~h[k].registered
    <2>1. RegisterOrJoin(task, t, r, h)
      BY <1>2, <1>7, Zenon DEF ProbeReturns
    <2>2. Clean => BeliefKept(r, h)
      BY <1>1, <1>3, MemoryFacts, Zenon DEF BeliefKept, Believes, Alike
    <2>3. /\ Goes /\ CloserOK'
          /\ \A j \in Tokens : anchors'[j].aborted = h[j].aborted
      <3>1. \/ EnsureRegistered(task, t, r, h) /\ task[t].pc # "probe"
            \/ RegisterOrJoin(task, t, r, h) /\ ~h[r.registering].registered
        BY <1>7, <2>1, Zenon
      <3>2. task[t].pc \in {"idle", "probe", "request", "unregister_hello", "unregister"}
        BY <1>1, Zenon
      <3>3. Clean => /\ BeliefKept(r, h) /\ task[t].pc # "unregister_hello"
                     /\ task[t].pc = "unregister" => wire[t].phase # "sent"
        BY <1>1, <2>2, Zenon
      <3>4. daemon' = daemon /\ late' = late
        BY <1>1, Zenon DEF Local
      <3> HIDE DEF r
      <3> QED
        BY <1>3, <1>4, <1>6, <3>1, <3>2, <3>3, <3>4, EnsureGoes, Zenon
    <2> QED
      BY <1>1, <1>3, <2>3, LocalKeeps, MemoryFacts, Zenon DEF Alike
  <1>8. CASE h[k].registered
    <2>1. PICK p : p = Ensured(r)
      BY Zenon
    <2>2. Proceed([task EXCEPT ![t] = p]) /\ anchors' = h
      BY <1>2, <1>8, <2>1, MemoryFacts, Zenon DEF ProbeReturns
    <2>3. p = Idle \/ Requesting(t, p)
      BY <1>5, <2>1, EnsuredTask, Zenon
    <2>4. p \in Task /\ p.pc \in {"idle", "request_hello"}
      BY <2>3, RecordTypes, Zenon DEF Requesting
    <2>5. OneMoves(t, p)
      BY <1>1, <1>4, <2>2, <2>4, ProceedOne, Zenon
    <2>6. TaskOK(t, p, wire'[t], anchors', current', minted')
      <3>1. CASE p = Idle
        BY <2>5, <3>1, RecordTypes, IdleOK, Zenon DEF OneMoves, NewCall, HelloPcs, CommandPcs
      <3>2. CASE Requesting(t, p)
        BY <1>1, <1>3, <1>5, <2>2, <3>2, RequestingOK, Zenon DEF Alike
      <3> QED
        BY <2>3, <3>1, <3>2, Zenon
    <2>7. \A u \in Tasks \ {t} : task'[u] = task[u]
      BY <2>2, MemoryFacts, Zenon DEF Proceed
    <2>8. task[t].pc \notin RunPcs
      BY <1>1, Zenon DEF RunPcs, RegistrarPcs, UndoPcs
    <2>9. Turn
      BY <1>1, <1>3, <1>4, <2>2, <2>5, <2>6, <2>7, <2>8, OneTurn, Zenon DEF Local
    <2>10. Advances(t)
      <3>1. CASE p = Idle
        BY <2>5, <3>1, IdleAdvances, Zenon DEF OneMoves
      <3>2. CASE Requesting(t, p)
        <4>1. anchors[k].registration = None
          BY <1>3, <1>5, <1>8, MemoryFacts, Zenon DEF Alike, HeapOK, Working
        <4>2. Unconfirmed(k)
          <5> SUFFICES ASSUME NEW w \in Tasks, Stale(w), task[w].registering = k
                       PROVE  FALSE
            BY Zenon DEF Unconfirmed
          <5>1. task[w].pc \in RunPcs
            BY Zenon DEF Stale, RunPcs, RegistrarPcs
          <5>2. anchors[k].registration = w
            BY <5>1, TaskFacts, Zenon DEF TaskOK
          <5> QED
            BY <4>1, <5>2, LinkAssumption, Zenon
        <4> QED
          BY <1>5, <2>5, <3>2, <4>2, RequestingAdvances, Zenon DEF OneMoves, Requesting
      <3> QED
        BY <2>3, <3>1, <3>2, Zenon
    <2>11. Clean => HandsOn /\ Passes(t)
      <3>1. Passes(t)
        BY <1>1, Zenon DEF Passes, RegistrarPcs
      <3>2. Clean => HandsOn
        BY <1>1, <1>3, <2>2, BelievesStill, MemoryFacts, Zenon DEF Alike
      <3> QED
        BY <3>1, <3>2, Zenon
    <2>12. Goes
      BY <1>3, <2>2, <2>5, <2>9, <2>10, <2>11, OneGoes, Zenon DEF Sees, Follows
    <2>13. CloserOK'
      BY <2>4, <2>5, OneCloser, Zenon DEF OmpInv, ClosingPcs
    <2> QED
      BY <1>1, <1>3, <2>2, <2>12, <2>13, LocalKeeps, MemoryFacts, Zenon DEF Alike
  <1> QED
    BY <1>7, <1>8, Zenon

LEMMA RegisterHelloStep ==
    ASSUME OmpInv, HealInv, NEW t \in Tasks, RegisterHelloReturns(t)
    PROVE  Keeps
  <1>1. /\ task[t].pc = "register_hello" /\ t \in ready /\ ready' = ready \ {t} /\ Local
        /\ Clean => Reply(t) = "hello"
    BY ResumedFacts, Zenon DEF RegisterHelloReturns, Local, HelloPcs
  <1>2. CASE Reply(t) # "hello"
    BY <1>1, <1>2, FailedKeeps, Zenon DEF RegisterHelloReturns, RunPcs, RegistrarPcs
  <1>3. CASE Reply(t) = "hello"
    <2>1. PICK h : h = OnInstance(wire[t].instance)
      BY Zenon
    <2>2. /\ Follows(h) /\ Alike(h) /\ Sees(h)
          /\ Clean => \A k \in Tokens : h[k].registered = anchors[k].registered
      BY <1>1, <1>3, <2>1, HeapHears, Zenon DEF Reply, Local
    <2>3. Proceed([task EXCEPT ![t].pc = "register"]) /\ anchors' = h
      BY <1>3, <2>1, Zenon DEF RegisterHelloReturns
    <2>4. <<task[t].pc, "register">> \in Stages
      BY <1>1, Zenon DEF Stages
    <2> QED
      BY <1>1, <2>2, <2>3, <2>4, StageKeeps, Zenon
  <1> QED
    BY <1>2, <1>3, Zenon

LEMMA RegisterStep ==
    ASSUME OmpInv, HealInv, NEW t \in Tasks, RegisterReturns(t)
    PROVE  Keeps
  <1>1. /\ task[t].pc = "register" /\ t \in ready /\ ready' = ready \ {t} /\ Local
        /\ Clean => Reply(t) = "ok"
    BY ResumedFacts, Zenon DEF RegisterReturns, Local
  <1>2. task[t].pc \in RunPcs
    BY <1>1, Zenon DEF RunPcs, RegistrarPcs
  <1> DEFINE k == task[t].registering
  <1>3. CASE Reply(t) # "ok"
    BY <1>1, <1>2, <1>3, FailedKeeps, Zenon DEF RegisterReturns
  <1>4. CASE Reply(t) = "ok" /\ Live(k, anchors)
    <2>1. PICK ok, h : /\ ok = TRUE /\ ok \in BOOLEAN
                       /\ h = [anchors EXCEPT ![k].registered = TRUE]
      BY Zenon
    <2>2. Settle(t, ok, h)
      BY <1>4, <2>1, Zenon DEF RegisterReturns
    <2> QED
      BY <1>1, <1>2, <1>4, <2>1, <2>2, SettleKeeps, Zenon DEF Reply
  <1>5. CASE Reply(t) = "ok" /\ ~Live(k, anchors)
    <2>1. Proceed([task EXCEPT ![t].pc = "undo_hello"]) /\ anchors' = anchors
      BY <1>5, Zenon DEF RegisterReturns
    <2>2. anchors[k].aborted
      <3>1. k \in 1..minted
        BY <1>2, SettledFacts, Zenon DEF Settled
      <3> QED
        BY <1>1, <1>5, <3>1, MemoryFacts, Zenon DEF HeapOK, Live, Local
    <2>3. Follows(anchors) /\ Alike(anchors) /\ Sees(anchors)
      BY <1>1, HeapSame, Zenon DEF Local
    <2>4. <<task[t].pc, "undo_hello">> \in Stages
      BY <1>1, Zenon DEF Stages
    <2> QED
      BY <1>1, <2>1, <2>2, <2>3, <2>4, StageKeeps, Zenon
  <1> QED
    BY <1>3, <1>4, <1>5, Zenon

LEMMA UndoHelloStep ==
    ASSUME OmpInv, HealInv, NEW t \in Tasks, UndoHelloReturns(t)
    PROVE  Keeps
  <1>1. /\ task[t].pc = "undo_hello" /\ t \in ready /\ ready' = ready \ {t} /\ Local
        /\ Clean => Reply(t) = "hello"
    BY ResumedFacts, Zenon DEF UndoHelloReturns, Local, HelloPcs
  <1>2. CASE Reply(t) # "hello"
    BY <1>1, <1>2, FailedKeeps, Zenon DEF UndoHelloReturns, RunPcs, UndoPcs
  <1>3. CASE Reply(t) = "hello"
    <2>1. PICK h : h = OnInstance(wire[t].instance)
      BY Zenon
    <2>2. /\ Follows(h) /\ Alike(h) /\ Sees(h)
          /\ Clean => \A k \in Tokens : h[k].registered = anchors[k].registered
      BY <1>1, <1>3, <2>1, HeapHears, Zenon DEF Reply, Local
    <2>3. Proceed([task EXCEPT ![t].pc = "undo"]) /\ anchors' = h
      BY <1>3, <2>1, Zenon DEF UndoHelloReturns
    <2>4. <<task[t].pc, "undo">> \in Stages
      BY <1>1, Zenon DEF Stages
    <2> QED
      BY <1>1, <2>2, <2>3, <2>4, StageKeeps, Zenon
  <1> QED
    BY <1>2, <1>3, Zenon

LEMMA UndoStep ==
    ASSUME OmpInv, HealInv, NEW t \in Tasks, UndoReturns(t)
    PROVE  Keeps
  <1>1. /\ task[t].pc = "undo" /\ t \in ready /\ ready' = ready \ {t} /\ Local
    BY ResumedFacts, Zenon DEF UndoReturns, Local
  <1> QED
    BY <1>1, FailedKeeps, Zenon DEF UndoReturns, RunPcs, UndoPcs

LEMMA RequestHelloStep ==
    ASSUME OmpInv, NEW t \in Tasks, RequestHelloReturns(t)
    PROVE  Keeps
  <1>1. /\ task[t].pc = "request_hello" /\ t \in ready /\ ready' = ready \ {t} /\ Local
    BY ResumedFacts, Zenon DEF RequestHelloReturns, Local
  <1>2. CASE Reply(t) # "hello"
    BY <1>1, <1>2, IdleKeeps, Zenon DEF RequestHelloReturns, RequestPcs
  <1>3. CASE Reply(t) = "hello"
    <2>1. PICK h : h = OnInstance(wire[t].instance)
      BY Zenon
    <2>2. /\ Follows(h) /\ Alike(h) /\ Sees(h)
          /\ Clean => \A k \in Tokens : h[k].registered = anchors[k].registered
      BY <1>1, <1>3, <2>1, HeapHears, Zenon DEF Reply, Local
    <2>3. Proceed([task EXCEPT ![t].pc = "request"]) /\ anchors' = h
      BY <1>3, <2>1, Zenon DEF RequestHelloReturns
    <2>4. <<task[t].pc, "request">> \in Stages
      BY <1>1, Zenon DEF Stages
    <2> QED
      BY <1>1, <2>2, <2>3, <2>4, StageKeeps, Zenon
  <1> QED
    BY <1>2, <1>3, Zenon

RetryingState(r) == [r EXCEPT !.retried = TRUE]

LEMMA RetriesOnce ==
    ASSUME NEW r \in Task
    PROVE  /\ RetryingState(r) \in Task /\ RetryingState(r).registering = r.registering
           /\ RetryingState(r).kind = r.kind /\ RetryingState(r).token = r.token
           /\ RetryingState(r).disturbed = r.disturbed
  BY Zenon DEF Task, RetryingState

LEMMA RequestStep ==
    ASSUME OmpInv, NEW t \in Tasks, RequestReturns(t)
    PROVE  Keeps
  <1>1. /\ task[t].pc = "request" /\ t \in ready /\ ready' = ready \ {t} /\ Local
        /\ current' = current /\ minted' = minted
    BY ResumedFacts, Zenon DEF RequestReturns, Local
  <1> DEFINE k == task[t].token
  <1>2. CASE Reply(t) = "unknown_token" /\ ~task[t].retried /\ Live(k, anchors)
    <2>1. PICK r, h : /\ r = RetryingState(task[t])
                      /\ h = [anchors EXCEPT ![k].registered = FALSE]
      BY Zenon
    <2>2. EnsureRegistered(task, t, r, h)
      BY <1>2, <2>1, Zenon DEF RequestReturns, RetryingState
    <2>0. /\ TaskOK(t, task[t], wire[t], anchors, current, minted) /\ task[t] \in Task
          /\ task[t].pc \in RequestPcs
      BY <1>1, TaskFacts, Zenon DEF RequestPcs
    <2>10. Working(task[t], anchors, minted) /\ k = current /\ k = task[t].registering
      BY <2>0, Zenon DEF TaskOK, AnchorPcs
    <2>3. /\ Working(task[t], anchors, minted) /\ task[t] \in Task
          /\ k = current /\ k = task[t].registering /\ k # NoToken /\ k \in 1..minted
      <3>1. k \in 1..minted
        BY <2>10, Zenon DEF Working
      <3>2. k # NoToken
        BY <3>1, MemoryFacts, SMT DEF NoToken
      <3> QED
        BY <2>0, <2>10, <3>1, <3>2, Zenon
    <2>4. /\ r \in Task /\ r.registering = k /\ r.kind = task[t].kind /\ r.token = k
          /\ r.disturbed = task[t].disturbed
      BY <2>1, <2>3, RetriesOnce, Zenon
    <2>5. Follows(h) /\ Alike(h) /\ Sees(h) /\ ~h[k].registered
      BY <1>1, <2>1, <2>3, HeapForgets, Zenon
    <2>6. Called(r, h) /\ Carried(t, r)
      <3>1. Called(r, h)
        BY <1>1, <2>3, <2>4, <2>5, Zenon DEF Called, Working
      <3>2. task[t].pc \in EnsuringPcs \cup RequestPcs
        BY <1>1, Zenon DEF RequestPcs
      <3> QED
        BY <2>3, <2>4, <3>1, <3>2, Zenon DEF Carried, Undisturbed
    <2>7. Relied(task, t, h) /\ Aside(task) /\ StaysReady(t, task)
      BY <1>1, <2>5, ReliedSame, Zenon DEF StaysReady
    <2>8. BeliefKept(r, h)
      <3> SUFFICES ASSUME Believes
                   PROVE  Live(current, h) /\ h[current].registration = None
        BY <1>1, <2>3, <2>4, <2>5, Zenon DEF BeliefKept
      <3>1. current \in Tokens /\ anchors[current].registration = None
        BY <2>3, MemoryFacts, Zenon DEF Believes, HeapOK
      <3>2. h[current].registration = None
        BY <1>1, <2>3, <2>5, <3>1, Zenon DEF Follows
      <3> QED
        BY <1>1, <2>5, <3>1, <3>2, Zenon DEF Live, Alike, Believes
    <2>9. /\ Goes /\ CloserOK'
          /\ \A j \in Tokens : anchors'[j].aborted = h[j].aborted
      BY <1>1, <2>2, <2>5, <2>6, <2>7, <2>8, EnsureGoes, Zenon DEF Local
    <2> QED
      BY <1>1, <2>5, <2>9, LocalKeeps, MemoryFacts, Zenon DEF Alike
  <1>3. CASE ~(Reply(t) = "unknown_token" /\ ~task[t].retried /\ Live(k, anchors))
    BY <1>1, <1>3, IdleKeeps, Zenon DEF RequestReturns, RequestPcs
  <1> QED
    BY <1>2, <1>3, Zenon

LEMMA TearStep ==
    ASSUME OmpInv, NEW t \in Tasks, task[t].pc \in ClosingPcs, ready' = ready \ {t},
           wire[t].phase = "replied", Clean => task[t].pc # "unregister_hello",
           TornDown(t, anchors), UNCHANGED <<daemon, late, instances, minted, failures>>
    PROVE  Keeps
  <1>1. TaskOK(t, task[t], wire[t], anchors, current, minted) /\ task[t].kind \in {"close", "rekey"}
    BY TaskFacts, Zenon DEF TaskOK
  <1>2. CASE task[t].kind = "close"
    <2>1. task[t].token = current /\ current # NoToken /\ anchors[current].aborted
      BY <1>1, <1>2, Zenon DEF TaskOK
    <2>2. /\ current' = NoToken /\ file' = RemoveTokenFile(file, anchors[current].session)
          /\ Proceed([task EXCEPT ![t] = Idle]) /\ anchors' = anchors
      BY <1>2, <2>1, Zenon DEF TornDown, DropAnchor
    <2>3. Follows(anchors) /\ Sees(anchors)
      BY <2>1, <2>2, HeapDropped, Zenon
    <2>4. Relied(task, t, anchors)
      <3>1. \A u \in Tasks : task[u].pc \notin RequestPcs
        BY <2>1, TaskFacts, Zenon DEF TaskOK
      <3>2. \A u \in Tasks \ {t} : ~Closes(u)
        BY <1>2, Zenon DEF OmpInv, CloserOK, Closes
      <3> QED
        BY <3>1, <3>2, Zenon DEF Relied
    <2>5. HandsOn
      BY <2>1, Zenon DEF HandsOn, Believes
    <2>6. task[t].pc \notin RunPcs
      BY Zenon DEF ClosingPcs, RunPcs, RegistrarPcs, UndoPcs
    <2>7. Goes /\ CloserOK'
      <3>1. wire[t].phase # "sent"
        BY Zenon
      <3> QED
        BY <2>2, <2>3, <2>4, <2>5, <2>6, <3>1, IdleGoes, Zenon
    <2>8. file' \in [Sessions -> Tokens \cup {NoToken}]
      BY <2>2, MemoryFacts, Zenon DEF RemoveTokenFile
    <2>9. MemoryOK'
      BY <2>2, <2>8, Zenon DEF MemoryOK, OmpInv, TypeOK
    <2>10. OwnerOK'
      BY <2>1, Zenon DEF OmpInv, OwnerOK, Owner
    <2>11. OnlyAnchorsFile => OnlyAnchorsFile'
      BY <2>2, <2>8, MemoryFacts, Zenon DEF OnlyAnchorsFile, RemoveTokenFile
    <2> QED
      BY <2>7, <2>9, <2>10, <2>11, Zenon DEF Keeps
  <1>3. CASE task[t].kind = "rekey"
    <2>1. PICK k, r : k = task[t].registering /\ r = Fresh("shell", k)
      BY Zenon
    <2>2. EnsureRegistered(task, t, r, anchors) /\ Local /\ current' = current /\ minted' = minted
      BY <1>3, <2>1, Zenon DEF TornDown, Local
    <2>3. k \in 1..minted' /\ k \in Tokens
      BY <1>1, <1>3, <2>1, <2>2, MemoryFacts, Zenon DEF TaskOK
    <2>4. Called(r, anchors) /\ Carried(t, r)
      <3>1. Root \in Sessions
        BY OmpAssumption, Zenon
      <3> QED
        BY <2>1, <2>3, <3>1, FreshCalled, Zenon
    <2>5. Follows(anchors) /\ Sees(anchors) /\ Alike(anchors)
      BY <2>2, HeapSame, Zenon
    <2>6. Relied(task, t, anchors) /\ Aside(task) /\ StaysReady(t, task)
      BY <2>2, <2>5, ReliedSame, Zenon DEF StaysReady
    <2>7. BeliefKept(r, anchors)
      BY <2>2, Zenon DEF BeliefKept, Believes
    <2>8. task[t].pc \in {"unregister_hello", "unregister"} /\ wire[t].phase # "sent"
      BY Zenon DEF ClosingPcs
    <2>9. /\ Goes /\ CloserOK'
          /\ \A j \in Tokens : anchors'[j].aborted = anchors[j].aborted
      BY <2>2, <2>4, <2>5, <2>6, <2>7, <2>8, EnsureGoes, Zenon
    <2> QED
      BY <2>2, <2>9, LocalKeeps, MemoryFacts, Zenon
  <1> QED
    BY <1>1, <1>2, <1>3, Zenon

LEMMA UnregisterHelloStep ==
    ASSUME OmpInv, NEW t \in Tasks, UnregisterHelloReturns(t)
    PROVE  Keeps
  <1>1. /\ task[t].pc = "unregister_hello" /\ t \in ready /\ ready' = ready \ {t}
        /\ wire[t].phase = "replied"
        /\ Clean => Reply(t) = "hello"
        /\ UNCHANGED <<daemon, late, instances, minted, failures>>
    BY ResumedFacts, Zenon DEF UnregisterHelloReturns, HelloPcs
  <1>2. CASE Reply(t) # "hello"
    BY <1>1, <1>2, TearStep, Zenon DEF UnregisterHelloReturns, ClosingPcs
  <1>3. CASE Reply(t) = "hello"
    <2>1. PICK h : h = OnInstance(wire[t].instance)
      BY Zenon
    <2>2. Proceed([task EXCEPT ![t].pc = "unregister"]) /\ anchors' = h /\ Local
      BY <1>1, <1>3, <2>1, Zenon DEF UnregisterHelloReturns, Local
    <2>3. /\ Follows(h) /\ Alike(h) /\ Sees(h)
          /\ Clean => \A k \in Tokens : h[k].registered = anchors[k].registered
      BY <1>1, <1>3, <2>1, <2>2, HeapHears, Zenon DEF Reply, Local
    <2>4. <<task[t].pc, "unregister">> \in Stages
      BY <1>1, Zenon DEF Stages
    <2> QED
      BY <1>1, <2>2, <2>3, <2>4, StageKeeps, Zenon
  <1> QED
    BY <1>2, <1>3, Zenon

LEMMA UnregisterStep ==
    ASSUME OmpInv, NEW t \in Tasks, UnregisterReturns(t)
    PROVE  Keeps
  <1>1. /\ task[t].pc = "unregister" /\ ready' = ready \ {t} /\ wire[t].phase = "replied"
    BY ResumedFacts, Zenon DEF UnregisterReturns
  <1>2. task[t].pc \in ClosingPcs /\ task[t].pc # "unregister_hello"
    BY <1>1, Zenon DEF ClosingPcs
  <1> QED
    BY <1>1, <1>2, TearStep, Zenon DEF UnregisterReturns

LEMMA ResumeStep ==
    ASSUME OmpInv, HealInv, NEW t \in Tasks, Resume(t)
    PROVE  Keeps
  BY ProbeStep, RegisterHelloStep, RegisterStep, UndoHelloStep, UndoStep,
     RequestHelloStep, RequestStep, UnregisterHelloStep, UnregisterStep, Zenon DEF Resume

-----------------------------------------------------------------------------
(* Hooks begin. *)

(* Instance i is in state a now. *)
Becomes(i, a) == instances' = [instances EXCEPT ![i] = a]

LEMMA OneInstance ==
    ASSUME OmpInv, NEW i \in Instances, NEW a \in Instance, Becomes(i, a)
    PROVE  /\ instances' \in [Instances -> Instance] /\ instances'[i] = a
           /\ \A j \in Instances : j # i => instances'[j] = instances[j]
  BY MemoryFacts, Zenon DEF Becomes

StartedAs(a, s) == [a EXCEPT !.session = s]
Claiming(a) == [a EXCEPT !.isOwner = TRUE, !.claimed = TRUE]
Adopting(a, b) == [a EXCEPT !.isOwner = b, !.claimed = TRUE]
OwningState(a) == [a EXCEPT !.isOwner = TRUE]
NamedState(a, s) == [a EXCEPT !.id = s]
GoneState(a) == [a EXCEPT !.aborted = TRUE]

LEMMA StartedState ==
    ASSUME NEW a \in Instance, NEW s \in Sessions, NEW b, b = StartedAs(a, s)
    PROVE  /\ b \in Instance /\ b.isOwner = a.isOwner /\ b.aborted = a.aborted
           /\ b.claimed = a.claimed
  BY Zenon DEF Instance, StartedAs

LEMMA ClaimingState ==
    ASSUME NEW a \in Instance, NEW b, b = Claiming(a)
    PROVE  b \in Instance /\ b.aborted = a.aborted
  BY Zenon DEF Instance, Claiming

LEMMA AdoptingState ==
    ASSUME NEW a \in Instance, NEW o \in BOOLEAN, NEW b, b = Adopting(a, o)
    PROVE  b \in Instance /\ b.aborted = a.aborted /\ b.isOwner = o
  BY Zenon DEF Instance, Adopting

LEMMA OwningIsOwner ==
    ASSUME NEW a \in Instance, NEW b, b = OwningState(a)
    PROVE  b \in Instance /\ b.aborted = a.aborted
  BY Zenon DEF Instance, OwningState

LEMMA NamedIsSame ==
    ASSUME NEW a \in Instance, NEW s \in Sessions, NEW b, b = NamedState(a, s)
    PROVE  b \in Instance /\ b.aborted = a.aborted /\ b.isOwner = a.isOwner
  BY Zenon DEF Instance, NamedState

LEMMA GoneIsGone ==
    ASSUME NEW a \in Instance, NEW b, b = GoneState(a)
    PROVE  b \in Instance /\ b.aborted /\ b.isOwner = a.isOwner
  BY Zenon DEF Instance, GoneState

(* No instance becomes the owner of an anchor that stays. *)
LEMMA NoNewOwner ==
    ASSUME OmpInv, \A i \in Instances : Owner(i)' => Owner(i), current' = current,
           current # NoToken => anchors'[current].aborted = anchors[current].aborted
    PROVE  OwnerOK'
  BY Zenon DEF OmpInv, OwnerOK

(* Instance i owns the new anchor. *)
LEMMA NewOwner ==
    ASSUME OmpInv, current = NoToken, NEW i \in Instances,
           \A j \in Instances : j # i => instances'[j] = instances[j],
           current' # NoToken, ~anchors'[current'].aborted
    PROVE  OwnerOK'
  <1>1. \A j \in Instances : ~Owner(j)
    BY Zenon DEF OmpInv, OwnerOK
  <1>2. \A j \in Instances : Owner(j)' => j = i
    BY <1>1, Zenon DEF Owner
  <1> QED
    BY <1>2, Zenon DEF OwnerOK

(* A task that begins was not waited for. *)
LEMMA BeginFacts ==
    ASSUME OmpInv, NEW t \in Tasks, task[t].pc = "idle"
    PROVE  /\ t \notin ready /\ task[t] \in Task
           /\ task[t].pc \notin RunPcs \cup RequestPcs \cup ClosingPcs /\ ~Closes(t)
           /\ ready' = ready => ready' = ready \ {t}
           /\ \A f : StillReady => StaysReady(t, f)
  <1>1. t \notin ready /\ task[t] \in Task
    BY TaskFacts, Zenon
  <1>2. task[t].pc \notin RunPcs \cup RequestPcs \cup ClosingPcs
    BY Zenon DEF RunPcs, RegistrarPcs, UndoPcs, RequestPcs, ClosingPcs
  <1>3. ready = ready \ {t}
    BY <1>1, Zenon
  <1> QED
    BY <1>1, <1>2, <1>3, Zenon DEF StillReady, StaysReady, Closes

LEMMA BeginGoes ==
    ASSUME OmpInv, NEW t \in Tasks, task[t].pc = "idle", NEW r, NEW h, NEW f, Aside(f),
           Follows(h), Relied(f, t, h), Called(r, h), Carried(t, r), Sees(h),
           StaysReady(t, f), EnsureRegistered(f, t, r, h), BeliefKept(r, h),
           daemon' = daemon, late' = late
    PROVE  /\ Goes /\ CloserOK'
           /\ \A k \in Tokens : /\ anchors'[k].aborted = h[k].aborted
                                /\ anchors'[k].session = h[k].session
  <1>1. /\ task[t].pc \in {"idle", "probe", "request", "unregister_hello", "unregister"}
        /\ task[t].pc # "probe" /\ task[t].pc # "unregister_hello"
        /\ task[t].pc # "unregister"
    BY Zenon
  <1>2. EnsureRegistered(f, t, r, h) /\ task[t].pc # "probe"
    BY <1>1, Zenon
  <1> QED
    BY <1>1, <1>2, EnsureGoes, Zenon

(* A hook that registers the present anchor. *)
LEMMA BeginsOn ==
    ASSUME OmpInv, NEW t \in Tasks, task[t].pc = "idle", current # NoToken, NEW r,
           Called(r, anchors), Carried(t, r), EnsureRegistered(task, t, r, anchors),
           UNCHANGED <<daemon, late, ready, current, minted>>
    PROVE  /\ Goes /\ CloserOK'
           /\ \A k \in Tokens : /\ anchors'[k].aborted = anchors[k].aborted
                                /\ anchors'[k].session = anchors[k].session
  <1>1. ready' = ready \ {t} /\ StaysReady(t, task)
    BY BeginFacts, Zenon DEF StaysReady
  <1>2. Follows(anchors) /\ Sees(anchors) /\ Relied(task, t, anchors) /\ Aside(task)
    BY HeapSame, ReliedSame, Zenon
  <1>3. BeliefKept(r, anchors)
    BY Zenon DEF BeliefKept, Believes
  <1>4. daemon' = daemon /\ late' = late
    BY Zenon
  <1> QED
    BY <1>1, <1>2, <1>3, <1>4, BeginGoes

(* A hook that creates an anchor, for session s. *)
LEMMA BeginsAnew ==
    ASSUME OmpInv, NEW t \in Tasks, task[t].pc = "idle", current = NoToken,
           NEW s \in Sessions, CreateAnchor(s), NEW kind \in {"shell", "tool"},
           NEW i \in Sessions, NEW r,
           r \in {Fresh(kind, current'), [Fresh(kind, current') EXCEPT !.by = i]},
           EnsureRegistered(task, t, r, [anchors EXCEPT ![current'].session = s]),
           UNCHANGED <<daemon, late, ready>>
    PROVE  /\ Goes /\ CloserOK' /\ current' # NoToken /\ current' \in Tokens
           /\ ~anchors'[current'].aborted /\ minted' \in 0..MaxTokens
           /\ file' \in [Sessions -> Tokens \cup {NoToken}]
           /\ OnlyAnchorsFile => OnlyAnchorsFile'
  <1>1. PICK h : h = [anchors EXCEPT ![current'].session = s]
    BY Zenon
  <1>2. /\ minted < MaxTokens /\ minted' = minted + 1 /\ current' = minted'
        /\ file' = WriteTokenFile(file, s, minted')
    BY Zenon DEF CreateAnchor
  <1>3. /\ Follows(h) /\ Sees(h) /\ current' \in 1..minted' /\ current' \in Tokens
        /\ ~h[current'].aborted /\ ~h[current'].registered /\ h[current'].session = s
    BY <1>1, <1>2, HeapCreated, Zenon
  <1>4. Called(r, h) /\ Carried(t, r)
    <2>1. CASE r = Fresh(kind, current')
      BY <1>3, <2>1, FreshCalled, Zenon
    <2>2. CASE r = [Fresh(kind, current') EXCEPT !.by = i]
      BY <1>3, <2>2, FreshCalled, Zenon
    <2> QED
      BY <2>1, <2>2, Zenon
  <1>5. ready' = ready \ {t} /\ StaysReady(t, task)
    BY BeginFacts, Zenon DEF StaysReady
  <1>6. Relied(task, t, h) /\ Aside(task)
    <2>1. \A u \in Tasks : task[u].pc \notin RequestPcs /\ ~Closes(u)
      <3> SUFFICES ASSUME NEW u \in Tasks PROVE task[u].pc \notin RequestPcs /\ ~Closes(u)
        BY Zenon
      <3>1. TaskOK(u, task[u], wire[u], anchors, current, minted)
        BY TaskFacts, Zenon
      <3>2. NoToken \notin 1..minted
        BY MemoryFacts DEF NoToken
      <3> QED
        BY <3>1, <3>2, Zenon DEF TaskOK, Working, AnchorPcs, Closes
    <2> QED
      BY <2>1, MemoryFacts, Zenon DEF Relied, Aside
  <1>7. BeliefKept(r, h)
    BY Zenon DEF BeliefKept, Believes
  <1>9. /\ Goes /\ CloserOK'
        /\ \A k \in Tokens : /\ anchors'[k].aborted = h[k].aborted
                             /\ anchors'[k].session = h[k].session
    <2>1. EnsureRegistered(task, t, r, h) /\ daemon' = daemon /\ late' = late
      BY <1>1, Zenon
    <2> QED
      BY <1>3, <1>4, <1>5, <1>6, <1>7, <2>1, BeginGoes
  <1>10. current' # NoToken /\ minted' \in 0..MaxTokens
    BY <1>2, <1>3, MemoryFacts DEF NoToken
  <1>11. file' \in [Sessions -> Tokens \cup {NoToken}]
    BY <1>2, <1>3, MemoryFacts, Zenon DEF WriteTokenFile
  <1>12. OnlyAnchorsFile => OnlyAnchorsFile'
    <2> SUFFICES ASSUME OnlyAnchorsFile, NEW x \in Sessions, file'[x] # NoToken
                 PROVE  file'[x] = current' /\ anchors'[current'].session = x
      BY Zenon DEF OnlyAnchorsFile
    <2>1. x # s => file'[x] = file[x]
      BY <1>2, MemoryFacts, Zenon DEF WriteTokenFile
    <2>2. x = s
      BY <2>1, Zenon DEF OnlyAnchorsFile
    <2>3. file'[s] = minted'
      BY <1>2, MemoryFacts, Zenon DEF WriteTokenFile
    <2> QED
      BY <1>2, <1>3, <1>9, <2>2, <2>3, Zenon
  <1> QED
    BY <1>3, <1>9, <1>10, <1>11, <1>12, Zenon

(* A step that moves no task. *)
LEMMA NothingGoes ==
    ASSUME OmpInv, UNCHANGED <<daemon, task, wire, late, ready, anchors, current, minted>>
    PROVE  Goes /\ CloserOK'
  <1>1. \A v \in Tasks : Kept(v)
    BY Zenon DEF Kept
  <1>2. \A v \in Tasks : Undisrupted(v)
    BY TaskFacts, Zenon DEF Undisrupted, TaskOK
  <1>3. Turn
    BY <1>1, <1>2, HeapSame, Zenon DEF Turn, Follows, OmpInv, Registrar
  <1>4. HandsOn
    BY BelievesStill, Zenon
  <1>5. CloserOK'
    BY Zenon DEF OmpInv, CloserOK, Closes
  <1> QED
    BY <1>1, <1>3, <1>4, <1>5, Zenon DEF Goes, SeenInv, OmpInv, TypeOK, LinkTypeOK

LEMMA SessionStartStep ==
    ASSUME OmpInv, NEW t \in Tasks, NEW i \in Instances, SessionStart(t, i)
    PROVE  Keeps
  <1>1. PICK s, self : s = instances[i].id /\ self = StartedAs(instances[i], s)
    BY Zenon
  <1>2. /\ s \in Sessions /\ self \in Instance /\ self.isOwner = instances[i].isOwner
        /\ self.aborted = instances[i].aborted /\ i \in Sessions
        /\ instances[i].isOwner \in BOOLEAN /\ self.claimed \in BOOLEAN
    <2>1. instances[i] \in Instance /\ i \in Sessions
      BY MemoryFacts, OmpAssumption, Zenon
    <2>2. s \in Sessions /\ instances[i].isOwner \in BOOLEAN
      BY <1>1, <2>1, Zenon DEF Instance
    <2>3. self \in Instance /\ self.isOwner = instances[i].isOwner
                            /\ self.aborted = instances[i].aborted
      BY <1>1, <2>1, <2>2, StartedState, ZenonT(30)
    <2> QED
      BY <2>1, <2>2, <2>3, Zenon DEF Instance
  <1>3. task[t].pc = "idle" /\ ~instances[i].aborted /\ UNCHANGED <<daemon, late, ready, failures>>
    BY Zenon DEF SessionStart
  <1>4. CASE /\ current = NoToken /\ CreateAnchor(s) /\ Becomes(i, Claiming(self))
             /\ EnsureRegistered(task, t, Fresh("shell", current'),
                                 [anchors EXCEPT ![current'].session = s])
    <2>1. PICK a : a = Claiming(self)
      BY Zenon
    <2>2. a \in Instance
      BY <1>2, <2>1, ClaimingState, Zenon
    <2>3. /\ instances' \in [Instances -> Instance]
          /\ \A j \in Instances : j # i => instances'[j] = instances[j]
      BY <1>4, <2>1, <2>2, OneInstance, Zenon
    <2>4. /\ Goes /\ CloserOK' /\ current' # NoToken /\ current' \in Tokens
          /\ ~anchors'[current'].aborted /\ minted' \in 0..MaxTokens
          /\ file' \in [Sessions -> Tokens \cup {NoToken}]
          /\ OnlyAnchorsFile => OnlyAnchorsFile'
      <3>1. PICK kind, r : /\ kind = "shell" /\ kind \in {"shell", "tool"}
                           /\ r = Fresh(kind, current')
        BY Zenon
      <3> QED
        BY <1>2, <1>3, <1>4, <3>1, BeginsAnew, Zenon
    <2>5. OwnerOK'
      BY <1>4, <2>3, <2>4, NewOwner, Zenon
    <2> QED
      BY <1>3, <2>3, <2>4, <2>5, Zenon DEF Keeps, MemoryOK, OmpInv, TypeOK
  <1>5. CASE /\ current # NoToken
             /\ Becomes(i, Adopting(self, self.isOwner /\ self.claimed))
             /\ UNCHANGED <<current, file, minted>>
             /\ EnsureRegistered(task, t, Fresh("shell", current), anchors)
    <2>1. PICK o, a : /\ o = (self.isOwner /\ self.claimed)
                      /\ a = Adopting(self, self.isOwner /\ self.claimed)
      BY Zenon
    <2>2. o \in BOOLEAN /\ (o => instances[i].isOwner)
      BY <1>2, <2>1, Zenon
    <2>3. a \in Instance /\ a.aborted = instances[i].aborted /\ a.isOwner = o
      <3>1. a = Adopting(self, o)
        BY <2>1, Zenon
      <3> QED
        BY <1>2, <2>2, <3>1, AdoptingState, ZenonT(30)
    <2>4. /\ instances' \in [Instances -> Instance] /\ instances'[i] = a
          /\ \A j \in Instances : j # i => instances'[j] = instances[j]
      BY <1>5, <2>1, <2>3, OneInstance, Zenon
    <2>5. PICK r : r = Fresh("shell", current)
      BY Zenon
    <2>6. Called(r, anchors) /\ Carried(t, r)
      BY <1>2, <1>5, <2>5, FreshCalled, MemoryFacts, Zenon
    <2>7. /\ Goes /\ CloserOK'
          /\ \A k \in Tokens : anchors'[k].aborted = anchors[k].aborted
      <3>1. EnsureRegistered(task, t, r, anchors)
            /\ UNCHANGED <<daemon, late, ready, current, minted>>
        BY <1>3, <1>5, <2>5, Zenon
      <3> QED
        BY <1>3, <1>5, <2>6, <3>1, BeginsOn, Zenon
    <2>8. OwnerOK'
      <3>1. \A j \in Instances : Owner(j)' => Owner(j)
        BY <1>3, <2>2, <2>3, <2>4, Zenon DEF Owner
      <3> QED
        BY <1>5, <2>7, <3>1, NoNewOwner, MemoryFacts, Zenon
    <2>9. OnlyAnchorsFile => OnlyAnchorsFile'
      BY <1>5, <2>7, FileStays, Zenon DEF Goes, Turn
    <2> QED
      BY <1>3, <1>5, <2>4, <2>7, <2>8, <2>9, Zenon DEF Keeps, MemoryOK, OmpInv, TypeOK
  <1>6. CASE /\ Becomes(i, self)
             /\ UNCHANGED <<task, wire, anchors, current, file, minted>>
    <2>1. /\ instances' \in [Instances -> Instance] /\ instances'[i] = self
          /\ \A j \in Instances : j # i => instances'[j] = instances[j]
      BY <1>2, <1>6, OneInstance, Zenon
    <2>2. Goes /\ CloserOK'
      BY <1>3, <1>6, NothingGoes, Zenon
    <2>3. OwnerOK'
      <3>1. \A j \in Instances : Owner(j)' => Owner(j)
        BY <1>2, <2>1, Zenon DEF Owner
      <3> QED
        BY <1>6, <3>1, NoNewOwner, Zenon
    <2>4. OnlyAnchorsFile => OnlyAnchorsFile'
      BY <1>6, <2>2, FileStays, Zenon DEF Goes, Turn
    <2> QED
      BY <1>3, <1>6, <2>1, <2>2, <2>3, <2>4, Zenon DEF Keeps, MemoryOK, OmpInv, TypeOK
  <1>7. self = [instances[i] EXCEPT !.session = instances[i].id]
    BY <1>1, Zenon DEF StartedAs
  <1> QED
    BY <1>1, <1>4, <1>5, <1>6, <1>7, Zenon DEF SessionStart, Becomes, Claiming, Adopting

LEMMA SpawnStep ==
    ASSUME OmpInv, NEW t \in Tasks, Spawn(t)
    PROVE  Keeps
  <1>1. /\ task[t].pc = "idle" /\ current # NoToken
        /\ EnsureRegistered(task, t, Fresh("shell", current), anchors)
        /\ instances' = instances /\ failures' = failures /\ current' = current
        /\ minted' = minted /\ UNCHANGED <<daemon, late, ready, current, minted>>
    BY Zenon DEF Spawn
  <1>2. PICK r : r = Fresh("shell", current)
    BY Zenon
  <1>3. Called(r, anchors) /\ Carried(t, r)
    <2>1. Root \in Sessions
      BY OmpAssumption, Zenon
    <2> QED
      BY <1>1, <1>2, <2>1, FreshCalled, MemoryFacts, Zenon
  <1>4. /\ Goes /\ CloserOK'
        /\ \A k \in Tokens : /\ anchors'[k].aborted = anchors[k].aborted
                             /\ anchors'[k].session = anchors[k].session
    <2>1. EnsureRegistered(task, t, r, anchors)
      BY <1>1, <1>2, Zenon
    <2> QED
      BY <1>1, <1>3, <2>1, BeginsOn, Zenon
  <1>5. OwnerOK'
    BY <1>1, <1>4, OwnerStays, MemoryFacts, Zenon
  <1>6. PICK s : s = anchors[current].session /\ s \in Sessions
    BY <1>1, MemoryFacts, Zenon DEF HeapOK
  <1>7. file' = file \/ file' = WriteTokenFile(file, s, current)
    BY <1>6, Zenon DEF Spawn
  <1>8. file' \in [Sessions -> Tokens \cup {NoToken}]
    BY <1>7, MemoryFacts, Zenon DEF WriteTokenFile
  <1>9. OnlyAnchorsFile => OnlyAnchorsFile'
    <2> SUFFICES ASSUME OnlyAnchorsFile, NEW x \in Sessions, file'[x] # NoToken
                 PROVE  file'[x] = current /\ anchors[current].session = x
      BY <1>1, <1>4, MemoryFacts, Zenon DEF OnlyAnchorsFile
    <2>1. CASE file' = file
      BY <2>1, Zenon DEF OnlyAnchorsFile
    <2>2. CASE file' = WriteTokenFile(file, s, current)
      <3>1. file'[s] = current /\ (x # s => file'[x] = file[x])
        BY <1>6, <2>2, MemoryFacts, Zenon DEF WriteTokenFile
      <3> QED
        BY <1>6, <3>1, Zenon DEF OnlyAnchorsFile
    <2> QED
      BY <1>7, <2>1, <2>2, Zenon
  <1> QED
    BY <1>1, <1>4, <1>5, <1>8, <1>9, Zenon DEF Keeps, MemoryOK, OmpInv, TypeOK

LEMMA SecretsRequestStep ==
    ASSUME OmpInv, NEW t \in Tasks, NEW i \in Instances, SecretsRequest(t, i)
    PROVE  Keeps
  <1>1. /\ task[t].pc = "idle" /\ daemon' = daemon /\ late' = late /\ ready' = ready
        /\ failures' = failures /\ i \in Sessions /\ instances[i] \in Instance
    BY MemoryFacts, OmpAssumption, Zenon DEF SecretsRequest
  <1>2. CASE current # NoToken
    <2>1. PICK r : r = [Fresh("tool", current) EXCEPT !.by = i]
      BY Zenon
    <2>2. /\ EnsureRegistered(task, t, r, anchors)
          /\ instances' = instances /\ current' = current /\ file' = file /\ minted' = minted
      BY <1>2, <2>1, Zenon DEF SecretsRequest
    <2>3. Called(r, anchors) /\ Carried(t, r)
      BY <1>1, <1>2, <2>1, <2>2, FreshCalled, MemoryFacts, Zenon
    <2>4. /\ Goes /\ CloserOK'
          /\ \A k \in Tokens : anchors'[k].aborted = anchors[k].aborted
      <3>1. UNCHANGED <<daemon, late, ready, current, minted>>
        BY <1>1, <2>2, Zenon
      <3> QED
        BY <1>1, <1>2, <2>2, <2>3, <3>1, BeginsOn, Zenon
    <2> QED
      BY <1>1, <2>2, <2>4, LocalKeeps, MemoryFacts, Zenon DEF Local
  <1>3. CASE current = NoToken
    <2>1. PICK s, a : s = instances[i].session /\ a = OwningState(instances[i])
      BY Zenon
    <2>2. /\ s # None /\ CreateAnchor(s) /\ Becomes(i, a)
          /\ EnsureRegistered(task, t, [Fresh("tool", current') EXCEPT !.by = i],
                              [anchors EXCEPT ![current'].session = s])
      <3>1. instances' = [instances EXCEPT ![i].isOwner = TRUE]
        BY <1>3, Zenon DEF SecretsRequest
      <3>2. Becomes(i, a)
        BY <2>1, <3>1, MemoryFacts, Zenon DEF Becomes, OwningState
      <3> QED
        BY <1>3, <2>1, <3>2, Zenon DEF SecretsRequest
    <2>3. s \in Sessions /\ a \in Instance
      <3>1. a \in Instance
        BY <1>1, <2>1, OwningIsOwner, Zenon
      <3> QED
        BY <1>1, <2>1, <2>2, <3>1, Zenon DEF Instance
    <2>4. /\ instances' \in [Instances -> Instance]
          /\ \A j \in Instances : j # i => instances'[j] = instances[j]
      BY <2>2, <2>3, OneInstance, Zenon
    <2>5. /\ Goes /\ CloserOK' /\ current' # NoToken /\ current' \in Tokens
          /\ ~anchors'[current'].aborted /\ minted' \in 0..MaxTokens
          /\ file' \in [Sessions -> Tokens \cup {NoToken}]
          /\ OnlyAnchorsFile => OnlyAnchorsFile'
      <3>1. PICK kind, r : /\ kind = "tool" /\ kind \in {"shell", "tool"}
                           /\ r = [Fresh(kind, current') EXCEPT !.by = i]
        BY Zenon
      <3>2. UNCHANGED <<daemon, late, ready>>
        BY <1>1, Zenon
      <3> QED
        BY <1>1, <1>3, <2>2, <2>3, <3>1, <3>2, BeginsAnew, Zenon
    <2>6. OwnerOK'
      BY <1>3, <2>4, <2>5, NewOwner, Zenon
    <2> QED
      BY <1>1, <2>4, <2>5, <2>6, Zenon DEF Keeps, MemoryOK, OmpInv, TypeOK
  <1> QED
    BY <1>2, <1>3, Zenon

LEMMA AbortedAside ==
    ASSUME OmpInv, NEW t \in Tasks, task[t].pc = "idle", NEW k, NEW gone, NEW f,
           f = Aborted(k, gone)
    PROVE  /\ Aside(f) /\ f[t] = task[t]
           /\ k = current => \A u \in Tasks : f[u].pc \notin RequestPcs
  <1>1. Idle \in Task /\ task \in [Tasks -> Task] /\ Idle.pc = "idle"
    BY RecordTypes, MemoryFacts, Zenon
  <1>2. f \in [Tasks -> Task]
    BY <1>1, Zenon DEF Aborted
  <1>3. ASSUME NEW u \in Tasks
        PROVE  f[u] = IF /\ task[u].pc \in {"request_hello", "request"}
                         /\ task[u].token = k \/ task[u].by \in gone
                      THEN Idle ELSE task[u]
    BY <1>3, Zenon DEF Aborted
  <1>4. f[t] = task[t]
    BY <1>3, Zenon
  <1>5. Aside(f)
    BY <1>2, <1>3, Zenon DEF Aside, RequestPcs
  <1>6. ASSUME k = current, NEW u \in Tasks PROVE f[u].pc \notin RequestPcs
    <2>1. task[u].pc \in RequestPcs => task[u].token = current
      BY TaskFacts, Zenon DEF TaskOK
    <2> QED
      BY <1>1, <1>3, <1>6, <2>1, Zenon DEF RequestPcs
  <1> QED
    BY <1>4, <1>5, <1>6, Zenon

(* A live owner means that nobody tears the anchor down yet. *)
LEMMA OwnerFacts ==
    ASSUME OmpInv, NEW i \in Instances, Owner(i)
    PROVE  /\ current # NoToken /\ ~anchors[current].aborted
           /\ \A u \in Tasks : ~Closes(u)
           /\ \A j \in Instances : Owner(j) => j = i
  <1>1. current # NoToken /\ ~anchors[current].aborted /\ \A j \in Instances : Owner(j) => j = i
    BY Zenon DEF OmpInv, OwnerOK
  <1> QED
    BY <1>1, TaskFacts, Zenon DEF TaskOK, Closes

(* A hook that awaits nothing, and may abort requests. *)
LEMMA AbortGoes ==
    ASSUME OmpInv, NEW t \in Tasks, task[t].pc = "idle", NEW f, Aside(f), f[t] = task[t],
           Follows(anchors'), Relied(f, t, anchors'), Sees(anchors'), Proceed(f),
           StaysReady(t, f), daemon' = daemon, late' = late, HandsOn
    PROVE  Goes /\ CloserOK'
  <1>1. PICK p : p = task[t] /\ p \in Task /\ p.pc = "idle"
    BY MemoryFacts, Zenon
  <1>2. [f EXCEPT ![t] = p] = f
    BY <1>1, Zenon DEF Aside
  <1>3. Proceed([f EXCEPT ![t] = p])
    BY <1>2, Zenon
  <1>4. OneMoves(t, p)
    BY <1>1, <1>3, ProceedOne, Zenon
  <1>5. \A u \in Tasks \ {t} : task'[u] = f[u]
    BY Zenon DEF Proceed
  <1>6. TaskOK(t, p, wire'[t], anchors', current', minted')
    BY <1>1, <1>4, IdleOK, Zenon DEF OneMoves, NewCall, HelloPcs, CommandPcs
  <1>7. task[t].pc \notin RunPcs /\ p.pc \notin ClosingPcs
    BY <1>1, Zenon DEF RunPcs, RegistrarPcs, UndoPcs, ClosingPcs
  <1>8. Turn
    <2>1. PICK h : h = anchors'
      BY Zenon
    <2> QED
      BY <1>4, <1>5, <1>6, <1>7, <2>1, OneTurn, Zenon
  <1>9. Advances(t)
    BY <1>1, <1>4, Zenon DEF OneMoves, Advances, Undisturbed, EnsuringPcs, RegistrarPcs, RequestPcs
  <1>10. Passes(t)
    BY Zenon DEF Passes, RegistrarPcs
  <1>11. Goes
    BY <1>4, <1>8, <1>9, <1>10, OneGoes, Zenon DEF Sees, Follows
  <1>12. CloserOK'
    BY <1>4, <1>7, OneCloser, Zenon DEF OmpInv
  <1> QED
    BY <1>11, <1>12, Zenon

(* A hook that tears down the anchor it finds. *)
LEMMA TearGoes ==
    ASSUME OmpInv, NEW t \in Tasks, task[t].pc = "idle", NEW f, Aside(f), current # NoToken,
           Follows(anchors'), Relied(f, t, anchors'), Sees(anchors'), NEW p \in Task,
           Proceed([f EXCEPT ![t] = p]), StaysReady(t, f), daemon' = daemon, late' = late,
           p.pc = "unregister_hello", p.session = anchors[current].session,
           current \in 1..minted', anchors'[current].aborted,
           anchors'[current].session = anchors[current].session,
           \/ p.kind = "rekey" /\ p.registering \in 1..minted'
           \/ p.kind = "close" /\ p.token = current /\ current' = current,
           \A u \in Tasks : ~Closes(u)
    PROVE  Goes /\ CloserOK'
  <1>1. OneMoves(t, p)
    <2>1. p.pc # task[t].pc
      BY Zenon
    <2> QED
      BY <2>1, ProceedOne, Zenon
  <1>2. \A u \in Tasks \ {t} : task'[u] = f[u]
    BY Zenon DEF Proceed, Aside
  <1>3. Retired(p.session, anchors', minted')
    BY Zenon DEF Retired
  <1>4. /\ p.kind \in {"close", "rekey"}
        /\ p.kind = "close" =>
              p.token = current' /\ current' # NoToken /\ anchors'[current'].aborted
        /\ p.kind = "rekey" => p.registering \in 1..minted'
    BY Zenon
  <1>5. TaskOK(t, p, wire'[t], anchors', current', minted')
    BY <1>3, <1>4, Zenon
       DEF TaskOK, AnchorPcs, EnsuringPcs, RegistrarPcs, RunPcs, UndoPcs, RequestPcs
  <1>6. task[t].pc \notin RunPcs
    BY Zenon DEF RunPcs, RegistrarPcs, UndoPcs
  <1>7. Turn
    <2>1. PICK h : h = anchors'
      BY Zenon
    <2> QED
      BY <1>1, <1>2, <1>5, <1>6, <2>1, OneTurn, Zenon
  <1>8. Advances(t)
    BY <1>1, Zenon DEF OneMoves, Advances, Undisturbed, EnsuringPcs, RegistrarPcs, RequestPcs
  <1>9. Passes(t) /\ HandsOn
    BY <1>1, Zenon DEF Passes, RegistrarPcs, HandsOn, OneMoves
  <1>10. Goes
    BY <1>1, <1>7, <1>8, <1>9, OneGoes, Zenon DEF Sees, Follows
  <1>11. CloserOK'
    BY <1>1, OneCloser, Zenon DEF OmpInv
  <1> QED
    BY <1>10, <1>11, Zenon

RekeyOf(r, s) == [r EXCEPT !.kind = "rekey", !.pc = "unregister_hello", !.session = s]
CloseOf(i, s, k) == [i EXCEPT !.kind = "close", !.pc = "unregister_hello",
                              !.session = s, !.token = k]

LEMMA RekeyState ==
    ASSUME NEW r \in Task, NEW s \in Sessions, NEW p, p = RekeyOf(r, s)
    PROVE  /\ p \in Task /\ p.kind = "rekey" /\ p.pc = "unregister_hello" /\ p.session = s
           /\ p.registering = r.registering
  BY Zenon DEF Task, RekeyOf, HelloPcs

LEMMA CloseState ==
    ASSUME NEW r \in Task, NEW s \in Sessions, NEW k \in Tokens, NEW p, p = CloseOf(r, s, k)
    PROVE  /\ p \in Task /\ p.kind = "close" /\ p.pc = "unregister_hello" /\ p.session = s
           /\ p.token = k
  BY Zenon DEF Task, CloseOf, HelloPcs

(* Task t unregisters the old anchor, or registers the new one at once. *)
Rekeys(t, r, h) ==
    IF anchors[current].registered
    THEN /\ Proceed([Aborted(current, {}) EXCEPT ![t] = RekeyOf(r, anchors[current].session)])
         /\ anchors' = h
    ELSE EnsureRegistered(Aborted(current, {}), t, r, h)

LEMMA InfoChangedGoes ==
    ASSUME OmpInv, NEW t \in Tasks, task[t].pc = "idle", NEW s \in Sessions, Owner(Root),
           s # anchors[current].session, ReplaceAnchor(s), NEW h, h = Replaced(s),
           NEW r, r = Fresh("shell", current'), StillReady, daemon' = daemon, late' = late,
           Rekeys(t, r, h)
    PROVE  /\ Goes /\ CloserOK' /\ current' # NoToken /\ current' \in Tokens
           /\ ~anchors'[current'].aborted /\ anchors'[current'].session = s
  <1>1. /\ minted < MaxTokens /\ minted' = minted + 1 /\ current' = minted'
        /\ Root \in Instances /\ Root \in Sessions
    BY OmpAssumption, Zenon DEF ReplaceAnchor
  <1>2. /\ current # NoToken /\ ~anchors[current].aborted /\ \A u \in Tasks : ~Closes(u)
    BY <1>1, OwnerFacts, Zenon
  <1>3. /\ Follows(h) /\ Sees(h) /\ current' \in 1..minted'
        /\ current \in 1..minted' /\ h[current].aborted
        /\ h[current].session = anchors[current].session
        /\ ~h[current'].aborted /\ h[current'].session = s
    BY <1>1, <1>2, HeapReplaced
  <1>4. current' # NoToken /\ current' \in Tokens
    BY <1>1, <1>3, MemoryFacts DEF NoToken, Tokens
  <1>5. PICK f : f = Aborted(current, {})
    BY Zenon
  <1>6. Aside(f) /\ Relied(f, t, h) /\ StaysReady(t, f)
    BY <1>2, <1>5, AbortedAside, BeginFacts, Zenon DEF Relied
  <1>7. /\ r \in Task /\ r.registering = current' /\ Called(r, h) /\ Carried(t, r)
    BY <1>1, <1>3, <1>4, FreshCalled, Zenon
  <1>8. CASE anchors[current].registered
    <2>1. PICK p : p = RekeyOf(r, anchors[current].session)
      BY Zenon
    <2>2. anchors[current].session \in Sessions
      BY <1>2, MemoryFacts, Zenon DEF HeapOK
    <2>3. /\ p \in Task /\ p.kind = "rekey" /\ p.pc = "unregister_hello"
          /\ p.session = anchors[current].session /\ p.registering = current'
      BY <1>7, <2>1, <2>2, RekeyState
    <2>4. Proceed([f EXCEPT ![t] = p]) /\ anchors' = h
      BY <1>5, <1>8, <2>1, Zenon DEF Rekeys
    <2>5. p.kind = "rekey" /\ p.registering \in 1..minted'
      BY <1>3, <2>3, Zenon
    <2>6. Goes /\ CloserOK'
      BY <1>2, <1>3, <1>6, <2>3, <2>4, <2>5, TearGoes, Zenon
    <2> QED
      BY <1>3, <1>4, <2>4, <2>6, Zenon
  <1>9. CASE ~anchors[current].registered
    <2>1. EnsureRegistered(f, t, r, h)
      BY <1>5, <1>9, Zenon DEF Rekeys
    <2>2. BeliefKept(r, h)
      BY <1>9, Zenon DEF BeliefKept, Believes
    <2>3. /\ Goes /\ CloserOK'
          /\ \A k \in Tokens : /\ anchors'[k].aborted = h[k].aborted
                               /\ anchors'[k].session = h[k].session
      BY <1>3, <1>6, <1>7, <2>1, <2>2, BeginGoes, ZenonT(30)
    <2> QED
      BY <1>3, <1>4, <2>3, Zenon
  <1> QED
    BY <1>8, <1>9, Zenon

LEMMA SessionInfoChangedStep ==
    ASSUME OmpInv, NEW t \in Tasks, NEW s \in (Sessions \ Instances) \cup {Root},
           SessionInfoChanged(t, s)
    PROVE  Keeps
  <1>1. PICK a : a = NamedState(instances[Root], s)
    BY Zenon
  <1>2. /\ s \in Sessions /\ Root \in Instances /\ Root \in Sessions
        /\ instances[Root] \in Instance
    BY OmpAssumption, MemoryFacts, Zenon
  <1>3. /\ a \in Instance /\ a.aborted = instances[Root].aborted
        /\ a.isOwner = instances[Root].isOwner
    BY <1>1, <1>2, NamedIsSame, Zenon
  <1>4. Becomes(Root, a)
    <2>1. instances' = [instances EXCEPT ![Root].id = s]
      BY Zenon DEF SessionInfoChanged
    <2> QED
      BY <1>1, <1>2, <2>1, MemoryFacts, Zenon DEF Becomes, NamedState
  <1>5. /\ instances' \in [Instances -> Instance] /\ instances'[Root] = a
        /\ \A j \in Instances : j # Root => instances'[j] = instances[j]
    BY <1>2, <1>3, <1>4, OneInstance, Zenon
  <1>6. \A j \in Instances : Owner(j)' <=> Owner(j)
    BY <1>3, <1>5, Zenon DEF Owner
  <1>7. /\ task[t].pc = "idle" /\ ~instances[Root].aborted
        /\ daemon' = daemon /\ late' = late /\ failures' = failures
    BY Zenon DEF SessionInfoChanged
  <1>8. CASE UNCHANGED <<task, wire, ready, anchors, current, file, minted>>
    <2>1. Goes /\ CloserOK'
      BY <1>7, <1>8, NothingGoes, Zenon
    <2>2. OwnerOK'
      BY <1>6, <1>8, NoNewOwner, Zenon
    <2>3. OnlyAnchorsFile => OnlyAnchorsFile'
      BY <1>8, <2>1, FileStays, Zenon DEF Goes, Turn
    <2> QED
      BY <1>5, <1>7, <1>8, <2>1, <2>2, <2>3, Zenon DEF Keeps, MemoryOK, OmpInv, TypeOK
  <1>9. CASE ~UNCHANGED <<task, wire, ready, anchors, current, file, minted>>
    <2>1. PICK h, r : h = Replaced(s) /\ r = Fresh("shell", current')
      BY Zenon
    <2>2. /\ Owner(Root) /\ s # anchors[current].session /\ ReplaceAnchor(s) /\ StillReady
          /\ Rekeys(t, r, h)
      BY <1>9, <2>1, Zenon
         DEF SessionInfoChanged, Owner, RekeyOf, Replacement, Replaced, Rekeys
    <2>3. /\ Goes /\ CloserOK' /\ current' # NoToken /\ current' \in Tokens
          /\ ~anchors'[current'].aborted /\ anchors'[current'].session = s
      BY <1>2, <1>7, <2>1, <2>2, InfoChangedGoes, Zenon
    <2>4. OwnerOK'
      <3>1. \A j \in Instances : Owner(j) => j = Root
        BY <1>2, <2>2, OwnerFacts, Zenon
      <3> QED
        BY <1>6, <2>3, <3>1, Zenon DEF OwnerOK
    <2>5. PICK o, n, g : /\ o = anchors[current].session /\ n = minted'
                         /\ g = WriteTokenFile(file, s, n)
      BY Zenon
    <2>6. /\ file' = RemoveTokenFile(g, o) /\ current' = n /\ minted' \in 0..MaxTokens
          /\ n \in Tokens
      <3>1. minted' = minted + 1 /\ minted < MaxTokens
        BY <2>2, Zenon DEF ReplaceAnchor
      <3>2. minted' \in 0..MaxTokens
        BY <3>1, MemoryFacts
      <3> QED
        BY <2>2, <2>3, <2>5, <3>2, Zenon DEF ReplaceAnchor
    <2>7. /\ g \in [Sessions -> Tokens \cup {NoToken}] /\ g[s] = n
          /\ \A x \in Sessions : x # s => g[x] = file[x]
      BY <1>2, <2>5, <2>6, MemoryFacts, Zenon DEF WriteTokenFile
    <2>8. o \in Sessions
      <3>1. current # NoToken
        BY <1>2, <2>2, OwnerFacts, Zenon
      <3> QED
        BY <2>5, <3>1, MemoryFacts, Zenon DEF HeapOK
    <2>9. /\ file' \in [Sessions -> Tokens \cup {NoToken}] /\ file'[o] = NoToken
          /\ \A x \in Sessions : x # o => file'[x] = g[x]
      BY <2>6, <2>7, <2>8, Zenon DEF RemoveTokenFile
    <2>10. OnlyAnchorsFile => OnlyAnchorsFile'
      <3> SUFFICES ASSUME OnlyAnchorsFile, NEW x \in Sessions, file'[x] # NoToken
                   PROVE  file'[x] = current' /\ anchors'[current'].session = x
        BY Zenon DEF OnlyAnchorsFile
      <3>1. x # o /\ file'[x] = g[x]
        BY <2>9, Zenon
      <3>2. x = s
        BY <2>5, <2>7, <3>1, Zenon DEF OnlyAnchorsFile
      <3> QED
        BY <2>3, <2>6, <2>7, <3>1, <3>2, Zenon
    <2> QED
      BY <1>5, <1>7, <2>3, <2>4, <2>6, <2>9, <2>10, Zenon
         DEF Keeps, MemoryOK, OmpInv, TypeOK
  <1> QED
    BY <1>8, <1>9, Zenon

(* The owner shuts down. *)
LEMMA OwnerShutsDown ==
    ASSUME OmpInv, NEW t \in Tasks, task[t].pc = "idle", NEW i \in Instances, Owner(i),
           anchors' = [anchors EXCEPT ![current].aborted = TRUE], StillReady,
           daemon' = daemon, late' = late, minted' = minted,
           IF anchors[current].registered
           THEN /\ Proceed([Aborted(current, {i}) EXCEPT
                              ![t] = CloseOf(Idle, anchors[current].session, current)])
                /\ UNCHANGED <<current, file>>
           ELSE Proceed(Aborted(current, {i})) /\ DropAnchor(current)
    PROVE  /\ Goes /\ CloserOK' /\ current' \in Tokens \cup {NoToken}
           /\ file' \in [Sessions -> Tokens \cup {NoToken}]
           /\ OnlyAnchorsFile => OnlyAnchorsFile'
  <1>1. /\ current # NoToken /\ ~anchors[current].aborted /\ \A u \in Tasks : ~Closes(u)
        /\ current \in Tokens /\ current \in 1..minted
    BY OwnerFacts, MemoryFacts, Zenon
  <1>2. current' \in {current, NoToken}
    BY Zenon DEF DropAnchor
  <1>3. PICK h : h = [anchors EXCEPT ![current].aborted = TRUE] /\ anchors' = h
    BY Zenon
  <1>4. /\ Follows(h) /\ Sees(h) /\ h[current].aborted
        /\ h[current].session = anchors[current].session
    BY <1>1, <1>2, <1>3, HeapRetired, Zenon
  <1>5. PICK f : f = Aborted(current, {i})
    BY Zenon
  <1>6. Aside(f) /\ f[t] = task[t] /\ Relied(f, t, h) /\ StaysReady(t, f)
    BY <1>1, <1>5, AbortedAside, BeginFacts, Zenon DEF Relied
  <1>7. anchors[current].session \in Sessions
    BY <1>1, MemoryFacts, Zenon DEF HeapOK
  <1>8. CASE anchors[current].registered
    <2>1. PICK p : p = CloseOf(Idle, anchors[current].session, current)
      BY Zenon
    <2>2. /\ p \in Task /\ p.kind = "close" /\ p.pc = "unregister_hello"
          /\ p.session = anchors[current].session /\ p.token = current
      BY <1>1, <1>7, <2>1, RecordTypes, CloseState
    <2>3. Proceed([f EXCEPT ![t] = p]) /\ current' = current /\ file' = file
      BY <1>5, <1>8, <2>1, Zenon
    <2>4. Goes /\ CloserOK'
      BY <1>1, <1>3, <1>4, <1>6, <2>2, <2>3, TearGoes, Zenon
    <2>5. OnlyAnchorsFile => OnlyAnchorsFile'
      BY <2>3, <2>4, FileStays, Zenon DEF Goes, Turn
    <2> QED
      BY <1>1, <2>3, <2>4, <2>5, MemoryFacts, Zenon
  <1>9. CASE ~anchors[current].registered
    <2>1. Proceed(f) /\ DropAnchor(current)
      BY <1>5, <1>9, Zenon
    <2>2. HandsOn
      BY <1>9, Zenon DEF HandsOn, Believes
    <2>3. Goes /\ CloserOK'
      BY <1>3, <1>4, <1>6, <2>1, <2>2, AbortGoes, Zenon
    <2>4. /\ file' \in [Sessions -> Tokens \cup {NoToken}]
          /\ file'[anchors[current].session] = NoToken
          /\ \A x \in Sessions : x # anchors[current].session => file'[x] = file[x]
      BY <1>7, <2>1, MemoryFacts, Zenon DEF DropAnchor, RemoveTokenFile
    <2>5. OnlyAnchorsFile => OnlyAnchorsFile'
      BY <2>4, Zenon DEF OnlyAnchorsFile
    <2> QED
      BY <2>1, <2>3, <2>4, <2>5, Zenon DEF DropAnchor
  <1> QED
    BY <1>8, <1>9, Zenon

LEMMA SessionShutdownStep ==
    ASSUME OmpInv, NEW t \in Tasks, NEW i \in Instances, SessionShutdown(t, i)
    PROVE  Keeps
  <1>1. PICK a : a = GoneState(instances[i])
    BY Zenon
  <1>2. instances[i] \in Instance
    BY MemoryFacts, Zenon
  <1>3. a \in Instance /\ a.aborted /\ a.isOwner = instances[i].isOwner
    BY <1>1, <1>2, GoneIsGone, Zenon
  <1>4. Becomes(i, a)
    <2>1. instances' = [instances EXCEPT ![i].aborted = TRUE]
      BY Zenon DEF SessionShutdown
    <2> QED
      BY <1>1, <1>2, <2>1, MemoryFacts, Zenon DEF Becomes, GoneState
  <1>5. /\ instances' \in [Instances -> Instance] /\ instances'[i] = a
        /\ \A j \in Instances : j # i => instances'[j] = instances[j]
    BY <1>3, <1>4, OneInstance, Zenon
  <1>6. \A j \in Instances : Owner(j)' => Owner(j) /\ j # i
    BY <1>3, <1>5, Zenon DEF Owner
  <1>7. /\ task[t].pc = "idle" /\ ~instances[i].aborted /\ StillReady
        /\ daemon' = daemon /\ late' = late /\ failures' = failures /\ minted' = minted
    BY Zenon DEF SessionShutdown
  <1>8. CASE ~instances[i].isOwner \/ current = NoToken
    <2>1. PICK f : f = Aborted(NoToken, {i})
      BY Zenon
    <2>2. Proceed(f) /\ anchors' = anchors /\ current' = current /\ file' = file
      BY <1>8, <2>1, Zenon DEF SessionShutdown
    <2>3. Aside(f) /\ f[t] = task[t] /\ StaysReady(t, f)
      BY <1>7, <2>1, AbortedAside, BeginFacts, Zenon
    <2>4. Follows(anchors') /\ Sees(anchors') /\ HandsOn
      BY <1>7, <2>2, HeapSame, BelievesStill, Zenon
    <2>5. Relied(f, t, anchors')
      <3>1. ASSUME NEW u \in Tasks, f[u].pc \in RequestPcs PROVE ~anchors[current].aborted
        <4>1. task[u].pc \in RequestPcs
          BY <2>3, <3>1, RecordTypes, Zenon DEF Aside, RequestPcs
        <4> QED
          BY <4>1, TaskFacts, Zenon DEF TaskOK
      <3> QED
        BY <2>2, <3>1, Zenon DEF Relied
    <2>6. Goes /\ CloserOK'
      BY <1>7, <2>2, <2>3, <2>4, <2>5, AbortGoes, Zenon
    <2>7. OwnerOK'
      BY <1>6, <2>2, NoNewOwner, Zenon
    <2>8. OnlyAnchorsFile => OnlyAnchorsFile'
      BY <2>2, <2>6, FileStays, Zenon DEF Goes, Turn
    <2> QED
      BY <1>5, <1>7, <2>2, <2>6, <2>7, <2>8, Zenon DEF Keeps, MemoryOK, OmpInv, TypeOK
  <1>9. CASE ~(~instances[i].isOwner \/ current = NoToken)
    <2>1. /\ Owner(i) /\ anchors' = [anchors EXCEPT ![current].aborted = TRUE]
          /\ IF anchors[current].registered
             THEN /\ Proceed([Aborted(current, {i}) EXCEPT
                                ![t] = CloseOf(Idle, anchors[current].session, current)])
                  /\ UNCHANGED <<current, file>>
             ELSE Proceed(Aborted(current, {i})) /\ DropAnchor(current)
      BY <1>7, <1>9, Zenon DEF SessionShutdown, Owner, CloseOf
    <2>2. /\ Goes /\ CloserOK' /\ current' \in Tokens \cup {NoToken}
          /\ file' \in [Sessions -> Tokens \cup {NoToken}]
          /\ OnlyAnchorsFile => OnlyAnchorsFile'
      BY <1>7, <2>1, OwnerShutsDown, Zenon
    <2>3. OwnerOK'
      <3>1. \A j \in Instances : ~Owner(j)'
        BY <1>6, <2>1, OwnerFacts, Zenon
      <3> QED
        BY <3>1, Zenon DEF OwnerOK
    <2> QED
      BY <1>5, <1>7, <2>2, <2>3, Zenon DEF Keeps, MemoryOK, OmpInv, TypeOK
  <1> QED
    BY <1>8, <1>9, Zenon

LEMMA BeginStep ==
    ASSUME OmpInv, NEW t \in Tasks, Begin(t)
    PROVE  Keeps
  BY SpawnStep, SessionStartStep, SecretsRequestStep, SessionShutdownStep,
     SessionInfoChangedStep, Zenon DEF Begin

=============================================================================
