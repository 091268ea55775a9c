----------------------------- MODULE OmpProofs ------------------------------
(***************************************************************************)
(* The omp extension, for any number of instances, concurrent hooks,       *)
(* anchors and daemon processes: requests are for the present anchor, its  *)
(* token file is the only one, nothing sent for other anchors ends its     *)
(* registration, the one retry heals every restart from before the call,   *)
(* and without failures a retired anchor leaves nothing at the daemon.     *)
(*                                                                         *)
(* OmpLoopProofs has the invariants and the steps of the event loop; here  *)
(* are the steps of the daemon and of the connections, and the theorems.   *)
(***************************************************************************)
EXTENDS OmpLoopProofs

-----------------------------------------------------------------------------
(* Steps of the daemon and of the connections. *)

SameMemory == UNCHANGED <<instances, anchors, current, file, minted>>

(* The tasks go on as they were, but for their history. *)
TasksStay ==
    /\ task' \in [Tasks -> Task]
    /\ \A v \in Tasks :
          /\ task'[v].pc = task[v].pc /\ task'[v].session = task[v].session
          /\ task'[v].token = task[v].token /\ task'[v].registering = task[v].registering
          /\ task'[v].owner = task[v].owner /\ task'[v].retried = task[v].retried
          /\ task'[v].kind = task[v].kind
          /\ task[v].disturbed => task'[v].disturbed

Marked(r, d) == [r EXCEPT !.disturbed = d]

LEMMA MarkedTask ==
    ASSUME NEW r \in Task, NEW d \in BOOLEAN, NEW p, p = Marked(r, d)
    PROVE  /\ p \in Task /\ p.pc = r.pc /\ p.session = r.session
           /\ p.token = r.token /\ p.registering = r.registering
           /\ p.owner = r.owner /\ p.retried = r.retried /\ p.kind = r.kind
           /\ p.disturbed = d
  BY Zenon DEF Task, Marked

LEMMA DisturbStays ==
    ASSUME OmpInv, NEW T, Disturb(T)
    PROVE  /\ TasksStay
           /\ \A v \in Tasks : task[v].token \in T => task'[v].disturbed
  <1>1. ASSUME NEW v \in Tasks
        PROVE  /\ task'[v] \in Task
               /\ task'[v].pc = task[v].pc /\ task'[v].session = task[v].session
               /\ task'[v].token = task[v].token /\ task'[v].registering = task[v].registering
               /\ task'[v].owner = task[v].owner /\ task'[v].retried = task[v].retried
               /\ task'[v].kind = task[v].kind
               /\ task[v].disturbed \/ task[v].token \in T => task'[v].disturbed
    <2>1. task[v] \in Task
      BY <1>1, TaskFacts, Zenon
    <2>2. PICK d \in BOOLEAN : d = (task[v].disturbed \/ task[v].token \in T)
      BY Zenon
    <2>3. PICK p : p = Marked(task[v], d) /\ task'[v] = p
      BY <1>1, <2>1, <2>2, Zenon DEF Disturb, Task, Marked
    <2>4. /\ p \in Task /\ p.pc = task[v].pc /\ p.session = task[v].session
          /\ p.token = task[v].token /\ p.registering = task[v].registering
          /\ p.owner = task[v].owner /\ p.retried = task[v].retried
          /\ p.kind = task[v].kind /\ p.disturbed = d
      BY <2>1, <2>3, MarkedTask
    <2> QED
      BY <2>2, <2>3, <2>4, Zenon
  <1>2. task' \in [Tasks -> Task]
    BY <1>1, Zenon DEF Disturb
  <1> QED
    BY <1>1, <1>2, Zenon DEF TasksStay

LEMMA Unmoved == ASSUME OmpInv, task' = task PROVE TasksStay
  BY MemoryFacts, Zenon DEF TasksStay

(* What such a step must leave for the extension's invariant. *)
LEMMA StayKeepsInv ==
    ASSUME OmpInv, SameMemory, failures' \in 0..MaxFaults, TasksStay,
           daemon' \in Daemon, late' \subseteq Command, wire' \in [Tasks -> Call],
           ready' \subseteq Tasks, DaemonOK', \A m \in late' : CommandOK(m),
           \A v \in Tasks : /\ CallOK(wire[v])'
                            /\ wire[v].phase = "none" => wire'[v].phase = "none",
           \A v \in ready' : wire'[v].phase = "replied"
    PROVE  OmpInv'
  <1>1. /\ instances' = instances /\ anchors' = anchors /\ current' = current
        /\ file' = file /\ minted' = minted
    BY Zenon DEF SameMemory
  <1>2. TypeOK'
    BY <1>1, Zenon DEF OmpInv, TypeOK, LinkTypeOK, TasksStay
  <1>3. ASSUME NEW v \in Tasks
        PROVE  TaskOK(v, task'[v], wire'[v], anchors', current', minted')
    <2>1. TaskOK(v, task[v], wire[v], anchors, current, minted)
      BY TaskFacts, Zenon
    <2> QED
      BY <1>1, <2>1, Zenon DEF TaskOK, TasksStay, Working
  <1>4. ASSUME NEW k \in 1..minted PROVE Registrar(k)'
    <2>1. Registrar(k) /\ anchors[k] \in SharedAnchor
      BY MemoryFacts, Zenon DEF OmpInv
    <2>2. anchors[k].registration # None => anchors[k].registration \in Tasks
      BY <2>1, Zenon DEF SharedAnchor
    <2> QED
      BY <1>1, <2>1, <2>2, Zenon DEF Registrar, TasksStay
  <1>5. OwnerOK'
    BY <1>1, OwnerStays, Zenon
  <1>6. CloserOK'
    BY ZenonT(30) DEF OmpInv, CloserOK, Closes, TasksStay
  <1>7. HeapOK(anchors, current, minted)' /\ \A m \in late' : CommandOK(m)'
    BY <1>1, MemoryFacts, Zenon DEF CommandOK
  <1> QED
    BY <1>1, <1>2, <1>3, <1>4, <1>5, <1>6, <1>7, Zenon DEF OmpInv

LEMMA StayHeals ==
    ASSUME HealInv, TasksStay,
           \A t \in Tasks : Undisturbed(t)' =>
              /\ daemon.token[task[t].session] = task[t].token =>
                    /\ daemon'.token[task[t].session] = task[t].token
                    /\ task[t].pc = "request" =>
                          \/ wire'[t].reply = wire[t].reply
                          \/ wire'[t].reply # "unknown_token"
              /\ \A u \in Tasks : Stale(u)' /\ task[u].registering = task[t].token => Stale(u)
    PROVE  HealInv'
  <1> SUFFICES ASSUME NEW t \in Tasks, Undisturbed(t)' PROVE HealOK(t)'
    BY Zenon DEF HealInv, HealOK
  <1>1. Undisturbed(t) /\ HealOK(t)
    BY Zenon DEF HealInv, TasksStay, Undisturbed
  <1>2. \A u \in Tasks : Stale(u)' => task'[u].registering # task'[t].token
    BY <1>1, Zenon DEF HealOK, TasksStay
  <1>3. task'[t].retried /\ task'[t].pc \in RequestPcs =>
           daemon'.token[task'[t].session] = task'[t].token
    BY <1>1, Zenon DEF HealOK, TasksStay
  <1>4. task'[t].retried /\ task'[t].pc = "request" => wire'[t].reply # "unknown_token"
    BY <1>1, Zenon DEF HealOK, TasksStay, RequestPcs
  <1> QED
    BY <1>2, <1>3, <1>4, Zenon DEF HealOK

LEMMA FileRemains ==
    ASSUME SameMemory
    PROVE  OnlyAnchorsFile => OnlyAnchorsFile'
  BY Zenon DEF SameMemory, OnlyAnchorsFile

(* What any step keeps. *)
StillRegistered ==
    \A k \in Tokens :
       /\ k = current /\ ~anchors[k].aborted
       /\ \A j \in 1..(k - 1) : anchors[j].session # anchors[k].session
       /\ daemon.token[anchors[k].session] = k
       /\ daemon'.instance = daemon.instance
       => daemon'.token[anchors[k].session] = k

AllInv == OmpInv /\ HealInv /\ SeenInv /\ CleanInv /\ OnlyAnchorsFile

LEMMA DaemonSame == ASSUME daemon' = daemon PROVE StillRegistered
  BY Zenon DEF StillRegistered

LEMMA KeepsStep ==
    ASSUME AllInv, Keeps
    PROVE  AllInv' /\ StillRegistered
  BY KeepsAll, DaemonSame, Zenon DEF AllInv, Keeps, Goes, Turn

LEMMA FileVanishesStep ==
    ASSUME AllInv, NEW s \in Sessions, FileVanishes(s)
    PROVE  AllInv' /\ StillRegistered
  <1>1. /\ file' = [file EXCEPT ![s] = NoToken] /\ UNCHANGED linkVars
        /\ instances' = instances /\ anchors' = anchors /\ current' = current
        /\ minted' = minted /\ failures' = failures
    BY Zenon DEF FileVanishes
  <1>2. /\ daemon' = daemon /\ task' = task /\ wire' = wire /\ late' = late /\ ready' = ready
    BY <1>1, Zenon DEF linkVars
  <1>3. /\ file' \in [Sessions -> Tokens \cup {NoToken}] /\ file'[s] = NoToken
        /\ \A x \in Sessions : x # s => file'[x] = file[x]
    BY <1>1, MemoryFacts, Zenon DEF AllInv
  <1>4. Keeps
    <2>1. Goes /\ CloserOK'
      BY <1>1, <1>2, NothingGoes, Zenon DEF AllInv
    <2>2. OwnerOK'
      BY <1>1, OwnerStays, Zenon DEF AllInv
    <2>3. OnlyAnchorsFile => OnlyAnchorsFile'
      BY <1>1, <1>3, Zenon DEF OnlyAnchorsFile
    <2> QED
      BY <1>1, <1>3, <2>1, <2>2, <2>3, Zenon
         DEF Keeps, MemoryOK, AllInv, OmpInv, TypeOK
  <1> QED
    BY <1>4, KeepsStep, Zenon

LEMMA PollStep ==
    ASSUME AllInv, Poll, UNCHANGED local
    PROVE  AllInv' /\ StillRegistered
  <1>1. /\ daemon' = daemon /\ task' = task /\ wire' = wire /\ late' = late
        /\ ready' = {t \in Tasks : wire[t].phase = "replied"}
    BY Zenon DEF Poll
  <1>2. SameMemory /\ failures' = failures /\ current' = current /\ anchors' = anchors
        /\ minted' = minted
    BY Zenon DEF local, SameMemory
  <1>3. OmpInv'
    BY <1>1, <1>2, Unmoved, StayKeepsInv, Zenon
       DEF AllInv, OmpInv, TypeOK, LinkTypeOK, DaemonOK
  <1>4. HealInv'
    BY <1>1, Zenon DEF AllInv, HealInv, HealOK, Undisturbed, Stale
  <1>5. SeenInv'
    BY <1>1, <1>2, Zenon DEF AllInv, SeenInv
  <1>6. CleanInv'
    <2>1. \A t \in Tasks : Proper(t)' <=> Proper(t)
      BY <1>1, Zenon DEF Proper
    <2>2. \A j, s : Going(j, s)' <=> Going(j, s)
      BY <1>1, Zenon DEF Going
    <2> QED
      BY <1>1, <1>2, <2>1, <2>2, Zenon DEF AllInv, CleanInv, Believes
  <1> QED
    BY <1>1, <1>2, <1>3, <1>4, <1>5, <1>6, FileRemains, DaemonSame, Zenon DEF AllInv

(* The command that task t has sent. *)
Line(t) == [session |-> task[t].session,
            token |-> IF task[t].pc = "register" THEN task[t].registering ELSE NoToken]

LEMMA LineOK ==
    ASSUME OmpInv, NEW t \in Tasks, task[t].pc \in {"register", "unregister", "undo"}
    PROVE  /\ Line(t) \in Command /\ CommandOK(Line(t))
           /\ Line(t).session = task[t].session
           /\ task[t].pc = "register" => Line(t).token = task[t].registering
           /\ task[t].pc # "register" => Line(t).token = NoToken
  <1>1. TaskOK(t, task[t], wire[t], anchors, current, minted) /\ 1..minted \subseteq Tokens
    BY TaskFacts, MemoryFacts, Zenon
  <1>2. PICK m : m = Line(t)
    BY Zenon
  <1>3. m.session = task[t].session /\ m.token = IF task[t].pc = "register"
                                                 THEN task[t].registering ELSE NoToken
    BY <1>2, Zenon DEF Line
  <1>4. \A k \in 1..minted : anchors[k].session \in Sessions /\ k # NoToken
    BY MemoryFacts DEF HeapOK, NoToken
  <1>5. CASE task[t].pc = "register"
    <2>1. Working(task[t], anchors, minted)
      BY <1>1, <1>5, Zenon DEF TaskOK, AnchorPcs, EnsuringPcs, RegistrarPcs
    <2>2. m.token \in 1..minted /\ m.session = anchors[m.token].session
      BY <1>3, <1>5, <2>1, Zenon DEF Working
    <2>3. CommandOK(m) /\ m.session \in Sessions /\ m.token \in Tokens
      BY <1>1, <1>4, <2>2, Zenon DEF CommandOK
    <2>4. m \in Command
      BY <1>2, <1>3, <2>3, Zenon DEF Line, Command
    <2> QED
      BY <1>2, <1>3, <1>5, <2>3, <2>4, Zenon
  <1>6. CASE task[t].pc # "register"
    <2>1. Retired(task[t].session, anchors, minted)
      <3>1. CASE task[t].pc = "unregister"
        BY <1>1, <3>1, Zenon DEF TaskOK, ClosingPcs
      <3>2. CASE task[t].pc = "undo"
        <4>1. Working(task[t], anchors, minted) /\ anchors[task[t].registering].aborted
          BY <1>1, <3>2, Zenon DEF TaskOK, AnchorPcs, UndoPcs
        <4> QED
          BY <4>1, Zenon DEF Working, Retired
      <3> QED
        BY <1>6, <3>1, <3>2, Zenon
    <2>2. m.token = NoToken /\ Retired(m.session, anchors, minted)
      BY <1>3, <1>6, <2>1, Zenon
    <2>3. CommandOK(m) /\ m.session \in Sessions
      BY <1>4, <2>2, Zenon DEF CommandOK, Retired
    <2>4. m \in Command
      BY <1>2, <1>3, <2>2, <2>3, Zenon DEF Line, Command
    <2> QED
      BY <1>2, <1>3, <1>6, <2>2, <2>3, <2>4, Zenon
  <1> QED
    BY <1>5, <1>6, Zenon

FailedFrom(w) == [w EXCEPT !.phase = "replied", !.reply = "failed"]

LEMMA FailedCall ==
    ASSUME NEW w \in Call, NEW f, f = FailedFrom(w)
    PROVE  f \in Call /\ f.phase = "replied" /\ f.reply = "failed"
  BY Zenon DEF Call, Replies, FailedFrom

LEMMA FailsStep ==
    ASSUME AllInv, NEW t \in Tasks, Fails(t)
    PROVE  AllInv' /\ StillRegistered
  <1>1. /\ daemon' = daemon /\ task' = task /\ ready' = ready
        /\ wire[t].phase \in {"sent", "replied"} /\ t \notin ready
        /\ failures' = failures + 1 /\ failures + daemon.instance - 1 < MaxFaults
        /\ SameMemory /\ current' = current /\ anchors' = anchors /\ minted' = minted
    BY Zenon DEF Fails, LineFails, Faults, SameMemory
  <1>2. OmpInv /\ wire \in [Tasks -> Call] /\ TasksStay
    BY <1>1, Unmoved, Zenon DEF AllInv, OmpInv, TypeOK, LinkTypeOK
  <1>3. PICK w : w = FailedFrom(NoCall)
    BY Zenon
  <1>4. w \in Call /\ w.phase = "replied" /\ w.reply = "failed"
    BY <1>3, RecordTypes, FailedCall, Zenon
  <1>5. wire' = [wire EXCEPT ![t] = w]
    BY <1>3, Zenon DEF Fails, LineFails, FailedFrom
  <1>6. /\ wire' \in [Tasks -> Call] /\ wire'[t] = w
        /\ \A v \in Tasks \ {t} : wire'[v] = wire[v]
    BY <1>2, <1>4, <1>5, Zenon
  <1>7. ASSUME NEW m \in late' PROVE m \in Command /\ CommandOK(m)
    <2>1. CASE m \in late
      BY <1>2, <2>1, Zenon DEF OmpInv, TypeOK, LinkTypeOK
    <2>2. CASE m \notin late
      <3>1. task[t].pc \in {"register", "unregister", "undo"} /\ m = Line(t)
        BY <1>7, <2>2, Zenon DEF Fails, LineFails, Line
      <3> QED
        BY <1>2, <3>1, LineOK, Zenon
    <2> QED
      BY <2>1, <2>2, Zenon
  <1>8. failures \in 0..MaxFaults /\ daemon \in Daemon /\ daemon.instance \in 1..MaxInstances
    BY <1>2, Zenon DEF OmpInv, TypeOK, LinkTypeOK, Daemon
  <1>9. failures' \in 0..MaxFaults /\ failures' # 0
    BY <1>1, <1>8, LinkAssumption, OmpAssumption
  <1>10. OmpInv'
    <2>1. late' \subseteq Command /\ \A m \in late' : CommandOK(m)
      BY <1>7, Zenon
    <2>2. /\ ready' \subseteq Tasks /\ DaemonOK'
          /\ \A v \in ready' : v \in Tasks \ {t} /\ wire[v].phase = "replied"
      BY <1>1, <1>2, Zenon DEF OmpInv, TypeOK, LinkTypeOK, DaemonOK
    <2>3. \A v \in Tasks : /\ CallOK(wire[v])'
                           /\ wire[v].phase = "none" => wire'[v].phase = "none"
      <3>1. \A v \in Tasks \ {t} : CallOK(wire[v])' /\ wire'[v].phase = wire[v].phase
        BY <1>2, <1>6, Zenon DEF OmpInv, CallOK
      <3>2. CallOK(wire[t])' /\ wire[t].phase # "none"
        BY <1>1, <1>4, <1>6, Zenon DEF CallOK
      <3> QED
        BY <3>1, <3>2, Zenon
    <2>4. \A v \in ready' : wire'[v].phase = "replied"
      BY <1>6, <2>2, Zenon
    <2> QED
      BY <1>1, <1>2, <1>6, <1>8, <1>9, <2>1, <2>2, <2>3, <2>4, StayKeepsInv, Zenon
  <1>11. HealInv'
    <2>1. \A u \in Tasks : Stale(u)' => Stale(u)
      BY <1>1, <1>4, <1>6, Zenon DEF Stale
    <2>2. \A v \in Tasks : wire'[v].reply = wire[v].reply \/ wire'[v].reply # "unknown_token"
      BY <1>4, <1>6, Zenon
    <2> QED
      BY <1>1, <1>2, <2>1, <2>2, StayHeals, Zenon DEF AllInv
  <1>12. SeenInv'
    <2>1. \A v \in Tasks : wire'[v].reply = "hello" => wire'[v] = wire[v]
      BY <1>4, <1>6, Zenon
    <2> QED
      BY <1>1, <2>1, Zenon DEF AllInv, SeenInv
  <1>13. CleanInv'
    BY <1>9, Zenon DEF CleanInv
  <1> QED
    BY <1>1, <1>10, <1>11, <1>12, <1>13, FileRemains, DaemonSame, Zenon DEF AllInv

(* The daemon performs command m. *)
LEMMA Performed ==
    ASSUME OmpInv, NEW m \in Command, Perform(m)
    PROVE  /\ TasksStay
           /\ daemon' \in Daemon /\ daemon'.instance = daemon.instance
           /\ daemon'.token[m.session] = m.token
           /\ \A s \in Sessions \ {m.session} : daemon'.token[s] = daemon.token[s]
           /\ \A v \in Tasks : task[v].token = daemon.token[m.session]
                               /\ task[v].token \notin {m.token, NoToken}
                               => task'[v].disturbed
  <1>1. daemon \in Daemon
    BY Zenon DEF OmpInv, TypeOK, LinkTypeOK
  <1>2. PICK T : T = {daemon.token[m.session]} \ {m.token, NoToken}
    BY Zenon
  <1>3. Disturb(T) /\ daemon' = [daemon EXCEPT !.token[m.session] = m.token]
    BY <1>2, Zenon DEF Perform
  <1>4. TasksStay /\ \A v \in Tasks : task[v].token \in T => task'[v].disturbed
    BY <1>3, DisturbStays, Zenon
  <1>5. /\ daemon' \in Daemon /\ daemon'.instance = daemon.instance
        /\ daemon'.token[m.session] = m.token
        /\ \A s \in Sessions \ {m.session} : daemon'.token[s] = daemon.token[s]
    BY <1>1, <1>3, Zenon DEF Daemon, Command
  <1> QED
    BY <1>2, <1>4, <1>5, Zenon

LEMMA PerformedOK ==
    ASSUME OmpInv, SameMemory, NEW m \in Command, CommandOK(m), Perform(m)
    PROVE  DaemonOK' /\ StillRegistered
  <1>1. /\ daemon'.token[m.session] = m.token /\ m.session \in Sessions
        /\ \A s \in Sessions \ {m.session} : daemon'.token[s] = daemon.token[s]
    BY Performed, Zenon DEF Command
  <1>2. anchors' = anchors /\ minted' = minted
    BY Zenon DEF SameMemory
  <1>3. DaemonOK'
    <2> SUFFICES ASSUME NEW s \in Sessions, daemon'.token[s] # NoToken
                 PROVE  daemon'.token[s] \in 1..minted /\ anchors[daemon'.token[s]].session = s
      BY <1>2, Zenon DEF DaemonOK
    <2>1. CASE s = m.session
      BY <1>1, <2>1, Zenon DEF CommandOK
    <2>2. CASE s # m.session
      BY <1>1, <2>2, Zenon DEF OmpInv, DaemonOK
    <2> QED
      BY <2>1, <2>2, Zenon
  <1>4. ASSUME NEW k \in Tokens, k = current, ~anchors[k].aborted,
               \A j \in 1..(k - 1) : anchors[j].session # anchors[k].session,
               daemon.token[anchors[k].session] = k
        PROVE  daemon'.token[anchors[k].session] = k
    <2>1. k = minted /\ k \in 1..minted /\ k # NoToken
      <3>1. k # NoToken
        BY <1>4 DEF Tokens, NoToken
      <3> QED
        BY <1>4, <3>1, MemoryFacts, Zenon
    <2>2. \A j \in 1..minted : anchors[j].session = anchors[k].session => j = k
      <3>1. \A j \in 1..minted : j = k \/ j \in 1..(k - 1)
        BY <2>1, MemoryFacts
      <3> QED
        BY <1>4, <3>1, Zenon
    <2>3. m.session = anchors[k].session => m.token = k
      BY <1>4, <2>2, Zenon DEF CommandOK, Retired
    <2>4. anchors[k].session \in Sessions
      BY <2>1, MemoryFacts, Zenon DEF HeapOK
    <2> QED
      BY <1>1, <1>4, <2>3, <2>4, Zenon
  <1> QED
    BY <1>3, <1>4, Zenon DEF StillRegistered

(* The only task whose call changes, if any, has sent command m. *)
LEMMA PerformHeals ==
    ASSUME OmpInv, HealInv, NEW m \in Command, Perform(m),
           \A v \in Tasks : \/ wire'[v] = wire[v]
                            \/ /\ task[v].pc # "request"
                               /\ task[v].pc = "register" =>
                                     task[v].session = m.session /\ task[v].registering = m.token
    PROVE  HealInv'
  <1>1. /\ TasksStay /\ daemon'.token[m.session] = m.token
        /\ \A s \in Sessions \ {m.session} : daemon'.token[s] = daemon.token[s]
        /\ \A v \in Tasks : task[v].token = daemon.token[m.session]
                            /\ task[v].token \notin {m.token, NoToken}
                            => task'[v].disturbed
    BY Performed, Zenon
  <1>2. ASSUME NEW t \in Tasks, Undisturbed(t)'
        PROVE  /\ task[t].token # NoToken
               /\ task[t].token = daemon.token[m.session] => task[t].token = m.token
    BY <1>1, <1>2, Zenon DEF Undisturbed, TasksStay
  <1>3. ASSUME NEW t \in Tasks, Undisturbed(t)',
               daemon.token[task[t].session] = task[t].token
        PROVE  /\ daemon'.token[task[t].session] = task[t].token
               /\ task[t].pc = "request" => wire'[t].reply = wire[t].reply
    <2>1. task[t].pc \in AnchorPcs
      BY <1>1, <1>3, Zenon DEF Undisturbed, TasksStay, AnchorPcs
    <2>2. task[t].session \in Sessions
      BY <2>1, TaskFacts, MemoryFacts, Zenon DEF TaskOK, Working, HeapOK
    <2> QED
      BY <1>1, <1>2, <1>3, <2>2, Zenon
  <1>4. ASSUME NEW t \in Tasks, Undisturbed(t)', NEW u \in Tasks, Stale(u)',
               task[u].registering = task[t].token
        PROVE  Stale(u)
    <2>1. /\ task[u].pc = "register" /\ wire'[u].reply = "ok"
          /\ daemon'.token[task[u].session] # task[u].registering
      BY <1>1, <1>4, Zenon DEF Stale, TasksStay
    <2>2. task[u].session \in Sessions
      <3>1. task[u].pc \in AnchorPcs
        BY <2>1, Zenon DEF AnchorPcs, EnsuringPcs, RegistrarPcs
      <3> QED
        BY <3>1, TaskFacts, MemoryFacts, Zenon DEF TaskOK, Working, HeapOK
    <2>3. wire'[u] = wire[u]
      BY <1>1, <2>1, Zenon
    <2>4. daemon.token[task[u].session] # task[u].registering
      BY <1>1, <1>2, <1>4, <2>1, <2>2, Zenon
    <2> QED
      BY <2>1, <2>3, <2>4, Zenon DEF Stale
  <1> QED
    BY <1>1, <1>3, <1>4, StayHeals, Zenon

LEMMA HandleLateStep ==
    ASSUME AllInv, NEW m \in late, HandleLate(m), UNCHANGED local
    PROVE  AllInv' /\ StillRegistered
  <1>1. /\ late' = late \ {m} /\ Perform(m) /\ wire' = wire /\ ready' = ready
        /\ SameMemory /\ failures' = failures /\ anchors' = anchors
    BY Zenon DEF HandleLate, local, SameMemory
  <1>2. OmpInv /\ HealInv /\ m \in Command /\ CommandOK(m)
    BY Zenon DEF AllInv, OmpInv, TypeOK, LinkTypeOK
  <1>3. TasksStay /\ daemon' \in Daemon /\ daemon'.instance = daemon.instance
    BY <1>1, <1>2, Performed, Zenon
  <1>4. DaemonOK' /\ StillRegistered
    BY <1>1, <1>2, PerformedOK, Zenon
  <1>5. OmpInv'
    BY <1>1, <1>2, <1>3, <1>4, StayKeepsInv, Zenon DEF OmpInv, TypeOK, LinkTypeOK, CallOK
  <1>6. HealInv'
    BY <1>1, <1>2, PerformHeals, Zenon
  <1>7. SeenInv'
    BY <1>1, <1>3, Zenon DEF AllInv, SeenInv
  <1>8. CleanInv'
    BY <1>1, <1>3, Zenon DEF AllInv, CleanInv
  <1> QED
    BY <1>1, <1>4, <1>5, <1>6, <1>7, <1>8, FileRemains, Zenon DEF AllInv

LEMMA RepliedCall ==
    ASSUME OmpInv, NEW t \in Tasks, NEW reply \in Replies \ {"none"}, Replied(t, reply)
    PROVE  /\ wire' \in [Tasks -> Call]
           /\ wire'[t].phase = "replied" /\ wire'[t].reply = reply
           /\ reply = "hello" => wire'[t].instance = daemon.instance
           /\ \A v \in Tasks \ {t} : wire'[v] = wire[v]
           /\ \A v \in Tasks : /\ CallOK(wire[v])'
                               /\ wire[v].phase = "replied" => wire'[v].phase = "replied"
  <1>1. PICK w : w = [phase |-> "replied", reply |-> reply,
                      instance |-> IF reply = "hello" THEN daemon.instance ELSE 0]
    BY Zenon
  <1>2. /\ w \in Call /\ w.phase = "replied" /\ w.reply = reply
        /\ reply = "hello" => w.instance = daemon.instance
    <2>1. daemon.instance \in 0..MaxInstances /\ 0 \in 0..MaxInstances
      <3>1. daemon.instance \in 1..MaxInstances
        BY Zenon DEF OmpInv, TypeOK, LinkTypeOK, Daemon
      <3> QED
        BY <3>1, LinkAssumption
    <2> QED
      BY <1>1, <2>1, Zenon DEF Call
  <1>3. wire \in [Tasks -> Call] /\ \A v \in Tasks : CallOK(wire[v])
    BY Zenon DEF OmpInv, TypeOK, LinkTypeOK
  <1>4. wire' = [wire EXCEPT ![t] = w]
    BY <1>1, Zenon DEF Replied
  <1>5. /\ wire' \in [Tasks -> Call] /\ wire'[t] = w
        /\ \A v \in Tasks \ {t} : wire'[v] = wire[v]
    BY <1>2, <1>3, <1>4, Zenon
  <1>6. CallOK(w)
    BY <1>2, Zenon DEF CallOK
  <1> QED
    BY <1>2, <1>3, <1>5, <1>6, Zenon DEF CallOK

(* The daemon answers task t. *)
LEMMA Answered ==
    ASSUME AllInv, NEW t \in Tasks, NEW reply \in Replies \ {"none"}, Replied(t, reply),
           wire[t].phase = "sent", UNCHANGED local, late' = late, ready' = ready, TasksStay,
           daemon' \in Daemon, daemon'.instance = daemon.instance, DaemonOK', HealInv',
           StillRegistered,
           task[t].pc \in HelloPcs => reply = "hello",
           task[t].pc \in {"register", "undo", "unregister"} => reply = "ok",
           task[t].pc \notin {"idle", "joined"},
           \A s \in Sessions :
              \/ daemon'.token[s] = NoToken
              \/ /\ daemon'.token[s] = daemon.token[s]
                 /\ task[t].pc \notin {"undo", "unregister"} \/ task[t].session # s
              \/ task[t].pc = "register" /\ daemon'.token[s] = task[t].registering
    PROVE  AllInv' /\ StillRegistered
  <1>1. /\ OmpInv /\ SameMemory /\ failures' = failures /\ anchors' = anchors
        /\ current' = current
    BY Zenon DEF AllInv, local, SameMemory
  <1>2. /\ wire' \in [Tasks -> Call]
        /\ wire'[t].phase = "replied" /\ wire'[t].reply = reply
        /\ reply = "hello" => wire'[t].instance = daemon.instance
        /\ \A v \in Tasks \ {t} : wire'[v] = wire[v]
        /\ \A v \in Tasks : /\ CallOK(wire[v])'
                            /\ wire[v].phase = "replied" => wire'[v].phase = "replied"
    BY <1>1, RepliedCall, Zenon
  <1>3. OmpInv'
    <2>1. \A v \in Tasks : wire[v].phase = "none" => wire'[v].phase = "none"
      <3>1. wire[t].phase # "none"
        BY Zenon
      <3> QED
        BY <1>2, <3>1, Zenon
    <2>2. /\ failures' \in 0..MaxFaults /\ late' \subseteq Command /\ ready' \subseteq Tasks
          /\ \A m \in late' : CommandOK(m)
          /\ \A v \in ready' : wire'[v].phase = "replied"
      BY <1>1, <1>2, Zenon DEF OmpInv, TypeOK, LinkTypeOK
    <2> QED
      BY <1>1, <1>2, <2>1, <2>2, StayKeepsInv, Zenon
  <1>4. SeenInv'
    <2>1. daemon.instance \in 1..daemon.instance
      BY <1>1 DEF OmpInv, TypeOK, LinkTypeOK, Daemon
    <2>2. ASSUME NEW v \in Tasks, wire'[v].reply = "hello"
          PROVE  wire'[v].instance \in 1..daemon.instance
      BY <1>2, <2>1, <2>2, Zenon DEF AllInv, SeenInv
    <2> QED
      BY <1>1, <2>2, Zenon DEF AllInv, SeenInv
  <1>5. CleanInv'
    <2> SUFFICES ASSUME failures = 0, daemon.instance = 1, CleanInv PROVE CleanInv'
      BY <1>1, Zenon DEF AllInv, CleanInv
    <2>1. \A v \in Tasks : Proper(v)'
      <3>1. Proper(t)'
        BY <1>2, Zenon DEF Proper, TasksStay
      <3>2. ASSUME NEW v \in Tasks \ {t} PROVE Proper(v)'
        <4>1. Proper(v) /\ wire'[v] = wire[v] /\ task'[v].pc = task[v].pc
          BY <1>2, Zenon DEF CleanInv, TasksStay
        <4> QED
          BY <4>1, Zenon DEF Proper
      <3> QED
        BY <3>1, <3>2, Zenon
    <2>2. ASSUME NEW s \in Sessions, daemon'.token[s] # NoToken
          PROVE  \/ Going(daemon.token[s], s)'
                 \/ daemon'.token[s] = current' /\ Believes'
      <3>1. CASE task[t].pc = "register" /\ daemon'.token[s] = task[t].registering
        BY <3>1, ZenonT(30) DEF Going, TasksStay, RegistrarPcs
      <3>2. CASE /\ daemon'.token[s] = daemon.token[s]
                 /\ task[t].pc \notin {"undo", "unregister"} \/ task[t].session # s
        <4>1. CASE daemon.token[s] = current /\ Believes
          BY <1>1, <3>2, <4>1, Zenon DEF Believes
        <4>2. CASE Going(daemon.token[s], s)
          <5>1. PICK v \in Tasks :
                   \/ task[v].pc \in RegistrarPcs /\ task[v].registering = daemon.token[s]
                   \/ /\ task[v].session = s
                      /\ \/ task[v].pc \in {"undo_hello", "unregister_hello"}
                         \/ task[v].pc \in {"undo", "unregister"} /\ wire[v].phase = "sent"
            BY <4>2, Zenon DEF Going
          <5>2. task[v].session = s /\ task[v].pc \in {"undo", "unregister"} =>
                   wire'[v] = wire[v]
            BY <1>2, <3>2, Zenon
          <5> QED
            BY <3>2, <5>1, <5>2, ZenonT(30) DEF Going, TasksStay
        <4> QED
          BY <2>2, <3>2, <4>1, <4>2, Zenon DEF CleanInv
      <3> QED
        BY <2>2, <3>1, <3>2, Zenon
    <2> QED
      BY <2>1, <2>2, Zenon DEF CleanInv
  <1> QED
    BY <1>1, <1>3, <1>4, <1>5, FileRemains, Zenon DEF AllInv

LEMMA HandleStep ==
    ASSUME AllInv, NEW t \in Tasks, Handle(t), UNCHANGED local
    PROVE  AllInv' /\ StillRegistered
  <1>1. /\ wire[t].phase = "sent" /\ late' = late /\ ready' = ready /\ OmpInv /\ HealInv
        /\ daemon \in Daemon /\ DaemonOK
        /\ anchors' = anchors /\ minted' = minted /\ SameMemory
    BY Zenon DEF Handle, AllInv, OmpInv, TypeOK, LinkTypeOK, local, SameMemory
  <1>2. ASSUME task' = task, daemon' = daemon
        PROVE  TasksStay /\ daemon' \in Daemon /\ DaemonOK' /\ StillRegistered
    BY <1>1, <1>2, Unmoved, DaemonSame, Zenon DEF DaemonOK
  <1>3. CASE HandleHello(t)
    <2>1. PICK reply \in Replies \ {"none"} : reply = "hello"
      BY Zenon DEF Replies
    <2>2. /\ task[t].pc \in HelloPcs /\ Replied(t, reply) /\ daemon' = daemon /\ task' = task
      BY <1>3, <2>1, Zenon DEF HandleHello
    <2>3. task[t].pc \notin {"idle", "joined", "register", "undo", "unregister", "request"}
      BY <2>2, Zenon DEF HelloPcs
    <2>4. HealInv'
      <3>1. /\ wire'[t].reply = "hello" /\ \A v \in Tasks \ {t} : wire'[v] = wire[v]
        BY <1>1, <2>1, <2>2, RepliedCall, Zenon
      <3>2. \A u \in Tasks : Stale(u)' => Stale(u)
        BY <2>2, <2>3, <3>1, Zenon DEF Stale
      <3>3. \A v \in Tasks : \/ wire'[v].reply = wire[v].reply
                             \/ wire'[v].reply # "unknown_token"
        BY <3>1, Zenon
      <3> QED
        BY <1>1, <1>2, <2>2, <3>2, <3>3, StayHeals, Zenon
    <2>5. \A s \in Sessions :
             /\ daemon'.token[s] = daemon.token[s]
             /\ task[t].pc \notin {"undo", "unregister"} \/ task[t].session # s
      BY <2>2, <2>3, Zenon
    <2> QED
      BY <1>1, <1>2, <2>1, <2>2, <2>3, <2>4, <2>5, Answered, Zenon
  <1>4. CASE HandleRequest(t)
    <2>1. PICK reply \in Replies \ {"none"} :
             /\ reply = IF \E s \in Sessions : daemon.token[s] = task[t].token
                        THEN "answered" ELSE "unknown_token"
      BY DEF Replies
    <2>2. /\ task[t].pc = "request" /\ Replied(t, reply) /\ daemon' = daemon /\ task' = task
      BY <1>4, <2>1, Zenon DEF HandleRequest
    <2>3. task[t].pc \notin {"idle", "joined", "register", "undo", "unregister"} \cup HelloPcs
      BY <2>2, Zenon DEF HelloPcs
    <2>4. HealInv'
      <3>1. /\ wire'[t].reply = reply /\ \A v \in Tasks \ {t} : wire'[v] = wire[v]
        BY <1>1, <2>2, RepliedCall, Zenon
      <3>2. \A u \in Tasks : Stale(u)' => Stale(u)
        BY <2>2, <2>3, <3>1, Zenon DEF Stale
      <3>3. task[t].session \in Sessions
        <4>1. task[t].pc \in AnchorPcs
          BY <2>2, Zenon DEF AnchorPcs, RequestPcs
        <4> QED
          BY <1>1, <4>1, TaskFacts, MemoryFacts, Zenon DEF TaskOK, Working, HeapOK
      <3>4. daemon.token[task[t].session] = task[t].token => reply = "answered"
        BY <2>1, <3>3, Zenon
      <3>5. \A v \in Tasks : daemon.token[task[v].session] = task[v].token =>
                                \/ wire'[v].reply = wire[v].reply
                                \/ wire'[v].reply # "unknown_token"
        BY <3>1, <3>4, Zenon
      <3> QED
        BY <1>1, <1>2, <2>2, <3>2, <3>5, StayHeals, Zenon
    <2>5. \A s \in Sessions :
             /\ daemon'.token[s] = daemon.token[s]
             /\ task[t].pc \notin {"undo", "unregister"} \/ task[t].session # s
      BY <2>2, <2>3, Zenon
    <2>6. daemon'.instance = daemon.instance
      BY <2>2, Zenon
    <2> QED
      BY <1>1, <1>2, <2>2, <2>3, <2>4, <2>5, <2>6, Answered, Zenon
  <1>5. CASE HandleRegister(t) \/ HandleUnregister(t)
    <2>1. PICK reply \in Replies \ {"none"} : reply = "ok"
      BY Zenon DEF Replies
    <2>2. /\ task[t].pc \in {"register", "unregister", "undo"} /\ Replied(t, reply)
          /\ Perform(Line(t))
      BY <1>5, <2>1, Zenon DEF HandleRegister, HandleUnregister, Line
    <2>3. PICK m : m = Line(t)
      BY Zenon
    <2>4. /\ m \in Command /\ CommandOK(m) /\ m.session = task[t].session /\ Perform(m)
          /\ task[t].pc = "register" => m.token = task[t].registering
          /\ task[t].pc # "register" => m.token = NoToken
      BY <1>1, <2>2, <2>3, LineOK, Zenon
    <2>5. /\ TasksStay
          /\ daemon' \in Daemon /\ daemon'.instance = daemon.instance
          /\ daemon'.token[m.session] = m.token
          /\ \A s \in Sessions \ {m.session} : daemon'.token[s] = daemon.token[s]
      BY <1>1, <2>4, Performed, Zenon
    <2>6. DaemonOK' /\ StillRegistered
      BY <1>1, <2>4, PerformedOK, Zenon
    <2>7. task[t].pc \notin {"idle", "joined", "request"} \cup HelloPcs
      BY <2>2, Zenon DEF HelloPcs
    <2>8. HealInv'
      <3>1. \A v \in Tasks \ {t} : wire'[v] = wire[v]
        BY <1>1, <2>2, RepliedCall, Zenon
      <3> QED
        BY <1>1, <2>4, <2>7, <3>1, PerformHeals, Zenon
    <2>9. ASSUME NEW s \in Sessions
          PROVE  \/ daemon'.token[s] = NoToken
                 \/ /\ daemon'.token[s] = daemon.token[s]
                    /\ task[t].pc \notin {"undo", "unregister"} \/ task[t].session # s
                 \/ task[t].pc = "register" /\ daemon'.token[s] = task[t].registering
      BY <2>4, <2>5, Zenon
    <2> QED
      BY <1>1, <2>1, <2>2, <2>5, <2>6, <2>7, <2>8, <2>9, Answered, Zenon
  <1> QED
    BY <1>3, <1>4, <1>5, Zenon DEF Handle

LEMMA RestartStep ==
    ASSUME AllInv, Restart, UNCHANGED local
    PROVE  AllInv' /\ StillRegistered
  <1>1. /\ wire' = wire /\ late' = late /\ ready' = ready /\ Disturb(Tokens) /\ OmpInv
        /\ daemon.instance < MaxInstances
        /\ daemon' = [instance |-> daemon.instance + 1,
                      token |-> [s \in Sessions |-> NoToken]]
        /\ SameMemory /\ failures' = failures /\ anchors' = anchors
    BY Zenon DEF Restart, AllInv, local, SameMemory
  <1>2. daemon.instance \in 1..MaxInstances /\ MaxInstances \in Nat
    BY <1>1, LinkAssumption, Zenon DEF OmpInv, TypeOK, LinkTypeOK, Daemon
  <1>3. /\ daemon'.instance = daemon.instance + 1
        /\ \A s \in Sessions : daemon'.token[s] = NoToken
    BY <1>1, Zenon
  <1>4. /\ daemon'.instance \in 1..MaxInstances /\ daemon'.instance # daemon.instance
        /\ daemon'.instance # 1
        /\ \A i \in 1..daemon.instance : i \in 1..daemon'.instance
        /\ \A i \in 0..daemon.instance : i \in 0..daemon'.instance
    <2>1. PICK a, b : a = daemon.instance /\ b = daemon'.instance
      BY Zenon
    <2>2. a \in 1..MaxInstances /\ b = a + 1 /\ a < MaxInstances /\ MaxInstances \in Nat
      BY <1>1, <1>2, <1>3, <2>1, Zenon
    <2>3. /\ b \in 1..MaxInstances /\ b # a /\ b # 1
          /\ \A i \in 1..a : i \in 1..b
          /\ \A i \in 0..a : i \in 0..b
      BY <2>2
    <2> QED
      BY <2>1, <2>3, Zenon
  <1>5. daemon' \in Daemon
    BY <1>1, <1>3, <1>4, Zenon DEF Daemon
  <1>6. TasksStay /\ \A v \in Tasks : task[v].token \in Tokens => task'[v].disturbed
    BY <1>1, DisturbStays, Zenon
  <1>7. DaemonOK'
    BY <1>3, Zenon DEF DaemonOK
  <1>8. OmpInv'
    BY <1>1, <1>5, <1>6, <1>7, StayKeepsInv, Zenon DEF OmpInv, TypeOK, LinkTypeOK, CallOK
  <1>9. HealInv'
    <2> SUFFICES ASSUME NEW t \in Tasks PROVE ~Undisturbed(t)'
      BY Zenon DEF HealInv, HealOK
    <2>1. task[t].token \in Tokens \cup {NoToken}
      BY <1>1, TaskFacts, Zenon DEF Task
    <2> QED
      BY <1>6, <2>1, Zenon DEF Undisturbed, TasksStay
  <1>10. SeenInv'
    BY <1>1, <1>4, Zenon DEF AllInv, SeenInv
  <1>11. CleanInv'
    BY <1>4, Zenon DEF CleanInv
  <1>12. StillRegistered
    BY <1>4, Zenon DEF StillRegistered
  <1> QED
    BY <1>1, <1>8, <1>9, <1>10, <1>11, <1>12, FileRemains, Zenon DEF AllInv

-----------------------------------------------------------------------------
(* The theorems. *)

LEMMA InitAll ==
    ASSUME Init
    PROVE  AllInv
  <1>1. /\ daemon = [instance |-> 1, token |-> [s \in Sessions |-> NoToken]]
        /\ task = [t \in Tasks |-> Idle] /\ wire = [t \in Tasks |-> NoCall]
        /\ late = {} /\ ready = {} /\ anchors = [k \in Tokens |-> NoAnchor]
        /\ current = NoToken /\ file = [s \in Sessions |-> NoToken]
        /\ minted = 0 /\ failures = 0
    BY Zenon DEF Init, LinkInit
  <1>2. /\ \A t \in Tasks : /\ task[t] = Idle /\ task[t].pc = "idle" /\ wire[t] = NoCall
                            /\ wire[t].phase = "none" /\ wire[t].reply = "none"
        /\ \A k \in Tokens : anchors[k] = NoAnchor /\ anchors[k].brokerInstance = 0
        /\ \A s \in Sessions : daemon.token[s] = NoToken /\ file[s] = NoToken
        /\ daemon.instance = 1
    BY <1>1, RecordTypes, AnchorTypes, ZenonT(30)
  <1>3. instances \in [Instances -> Instance] /\ \A i \in Instances : ~Owner(i)
    BY OmpAssumption, LinkAssumption, Zenon DEF Init, Instance, Owner
  <1>4. daemon \in Daemon
    BY <1>1, LinkAssumption DEF Daemon
  <1>5. minted \in 0..MaxTokens /\ failures \in 0..MaxFaults
    BY <1>1, LinkAssumption, OmpAssumption
  <1>6. TypeOK
    BY <1>1, <1>3, <1>4, <1>5, RecordTypes, AnchorTypes, Zenon DEF TypeOK, LinkTypeOK
  <1>7. 1..minted = {} /\ \A k : k \in 1..minted => FALSE
    BY <1>1
  <1>8. HeapOK(anchors, current, minted)
    BY <1>1, <1>2, <1>7, Zenon DEF HeapOK
  <1>9. \A t \in Tasks : TaskOK(t, task[t], wire[t], anchors, current, minted)
    BY <1>2, IdleOK, Zenon
  <1>10. OwnerOK /\ CloserOK /\ DaemonOK
    BY <1>2, <1>3, Zenon DEF OwnerOK, CloserOK, DaemonOK, Closes, ClosingPcs
  <1>11. \A t \in Tasks : CallOK(wire[t])
    BY <1>2, Zenon DEF CallOK
  <1>12. OmpInv
    BY <1>1, <1>6, <1>7, <1>8, <1>9, <1>10, <1>11, Zenon DEF OmpInv
  <1>13. HealInv
    BY <1>2, Zenon DEF HealInv, HealOK, Undisturbed, EnsuringPcs, RegistrarPcs, RequestPcs
  <1>14. SeenInv
    BY <1>2 DEF SeenInv
  <1>15. CleanInv
    BY <1>1, <1>2, Zenon DEF CleanInv, Proper
  <1> QED
    BY <1>2, <1>12, <1>13, <1>14, <1>15, Zenon DEF AllInv, OnlyAnchorsFile

LEMMA NextKeepsAll ==
    ASSUME AllInv, Next
    PROVE  AllInv' /\ StillRegistered
  <1>1. CASE \E t \in Tasks : Begin(t) \/ Resume(t)
    BY <1>1, BeginStep, ResumeStep, KeepsStep, Zenon DEF AllInv
  <1>2. CASE \E t \in Tasks : Fails(t) \/ Outside(Handle(t))
    BY <1>2, FailsStep, HandleStep, Zenon DEF Outside
  <1>3. CASE \E s \in Sessions : FileVanishes(s)
    BY <1>3, FileVanishesStep, Zenon
  <1>4. CASE Outside(Poll)
    BY <1>4, PollStep, Zenon DEF Outside
  <1>5. CASE \E m \in late : Outside(HandleLate(m))
    BY <1>5, HandleLateStep, Zenon DEF Outside
  <1>6. CASE Outside(Restart)
    BY <1>6, RestartStep, Zenon DEF Outside
  <1> QED
    BY <1>1, <1>2, <1>3, <1>4, <1>5, <1>6, Zenon DEF Next

LEMMA StutterKeepsAll ==
    ASSUME AllInv, UNCHANGED vars
    PROVE  AllInv' /\ StillRegistered
  <1>1. /\ UNCHANGED <<daemon, task, wire, late, ready, anchors, current, minted>>
        /\ instances' = instances /\ file' = file /\ failures' = failures
        /\ current' = current /\ anchors' = anchors
    BY Zenon DEF vars, linkVars, local
  <1>2. Goes /\ CloserOK'
    BY <1>1, NothingGoes, Zenon DEF AllInv
  <1>3. OwnerOK'
    BY <1>1, OwnerStays, Zenon DEF AllInv
  <1>4. OnlyAnchorsFile => OnlyAnchorsFile'
    BY <1>1, Zenon DEF OnlyAnchorsFile
  <1>5. Keeps
    BY <1>1, <1>2, <1>3, <1>4, Zenon DEF Keeps, MemoryOK, AllInv, OmpInv, TypeOK
  <1> QED
    BY <1>5, KeepsStep, Zenon

(* The inductive invariant holds in every reachable state. *)
THEOREM OmpInvariant == Spec => []AllInv
  <1>1. Init => AllInv
    BY InitAll, Zenon
  <1>2. AllInv /\ [Next]_vars => AllInv'
    BY NextKeepsAll, StutterKeepsAll, Zenon
  <1> QED
    BY <1>1, <1>2, PTL DEF Spec

(* The closures, the anchors, the token files, the tasks and their calls   *)
(* keep their types: in particular no anchor is created beyond the bound   *)
(* and registration names a task.                                          *)
THEOREM OmpTypeOKHolds == Spec => []TypeOK
  <1>1. AllInv => TypeOK
    BY Zenon DEF AllInv, OmpInv
  <1> QED
    BY <1>1, OmpInvariant, PTL

(* Every request under way is for the anchor that is the process's one and *)
(* whose signal has not fired: retiring an anchor ends its requests, and   *)
(* no registration that settles later starts one for it.                   *)
THEOREM RequestsOnLiveAnchorHolds == Spec => []RequestsOnLiveAnchor
  <1>1. AllInv => RequestsOnLiveAnchor
    BY TaskFacts, Zenon DEF AllInv, RequestsOnLiveAnchor, TaskOK, RequestPcs
  <1> QED
    BY <1>1, OmpInvariant, PTL

(* No token file outlives its anchor, whatever order shutdowns, re-keys,   *)
(* restored files and new anchors come in.                                 *)
THEOREM OnlyAnchorsFileHolds == Spec => []OnlyAnchorsFile
  <1>1. AllInv => OnlyAnchorsFile
    BY Zenon DEF AllInv
  <1> QED
    BY <1>1, OmpInvariant, PTL

(* UNKNOWN_TOKEN after the retry means a restart, or a dropped token,      *)
(* since the tool has its token.                                           *)
THEOREM RetryHealsHolds == Spec => []RetryHeals
  <1>1. ASSUME AllInv PROVE RetryHeals
    <2> SUFFICES ASSUME NEW t \in Tasks, task[t].pc = "request", task[t].retried,
                        wire[t].reply = "unknown_token", ~task[t].disturbed
                 PROVE  FALSE
      BY Zenon DEF RetryHeals
    <2>1. task[t].pc \in RequestPcs
      BY Zenon DEF RequestPcs
    <2>2. task[t].token # NoToken
      BY <1>1, <2>1, TaskFacts, Zenon DEF AllInv, TaskOK, AnchorPcs, Working
    <2> QED
      BY <1>1, <2>1, <2>2, Zenon DEF AllInv, HealInv, HealOK, Undisturbed
  <1> QED
    BY <1>1, OmpInvariant, PTL

(* Without failures and restarts the daemon keeps nothing of a retired     *)
(* anchor once the extension is quiet: a registration that came too late   *)
(* is taken back, a teardown reaches the daemon.                           *)
THEOREM RetiredIsGoneHolds == Spec => []RetiredIsGone
  <1>1. ASSUME AllInv PROVE RetiredIsGone
    <2> SUFFICES ASSUME Quiet, failures = 0, daemon.instance = 1, NEW s \in Sessions
                 PROVE  daemon.token[s] \in {NoToken, current}
      BY Zenon DEF RetiredIsGone
    <2>1. ~Going(daemon.token[s], s)
      BY Zenon DEF Quiet, Going, RegistrarPcs
    <2> QED
      BY <1>1, <2>1, Zenon DEF AllInv, CleanInv
  <1> QED
    BY <1>1, OmpInvariant, PTL

(* Nothing that was sent for other anchors, late commands included,        *)
(* displaces or drops the registration of the present anchor.              *)
THEOREM AnchorRegistrationKeptHolds == Spec => AnchorRegistrationKept
  <1>1. AllInv /\ [Next]_vars => StillRegistered
    BY NextKeepsAll, StutterKeepsAll, Zenon
  <1>2. AllInv /\ [Next]_vars => [StillRegistered]_vars
    BY <1>1, Zenon
  <1>3. Spec => [][StillRegistered]_vars
    BY <1>2, OmpInvariant, PTL DEF Spec
  <1> QED
    BY <1>3, Zenon DEF AnchorRegistrationKept, StillRegistered

=============================================================================
