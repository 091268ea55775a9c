---------------------------- MODULE EditorProofs ----------------------------
(***************************************************************************)
(* What the edit commands never do, for any number of processes, names and *)
(* roots and any bounds of the pipes: the inductive invariant of the files *)
(* in place, one lemma for each group of actions, and the theorems.  Three *)
(* further invariants rest on it: what is left of a plaintext (PlainInv),  *)
(* who can have put a file in another's place (TurnInv), and what a        *)
(* command had seen before it made a second file for a name (ScanInv).     *)
(***************************************************************************)
EXTENDS Editor, TLAPS

Targets == HumanFiles \cup AgentFiles

TempOf(path, p) == Path(path.root, path.tier, TempFileName(p))

-----------------------------------------------------------------------------
(* Paths. *)

LEMMA StrippedFacts ==
    ASSUME NEW s
    PROVE  /\ Len(s) = 2 => Len(Stripped(s)) = 1 /\ Stripped(s)[1] = s[1]
           /\ Len(s) = 3 => /\ Len(Stripped(s)) = 2
                            /\ Stripped(s)[1] = s[1] /\ Stripped(s)[2] = s[2]
  <1>1. ASSUME NEW k \in {1, 2}
        PROVE  Len(SubSeq(s, 1, k)) = k /\ \A i \in 1..k : SubSeq(s, 1, k)[i] = s[i]
    <2> DEFINE S == {s[i] : i \in 1..k}
    <2>1. \A i \in 1..k : s[i] \in S
      BY Zenon
    <2> HIDE DEF S
    <2> QED
      BY <2>1
  <1>2. /\ Len(s) = 2 => Stripped(s) = SubSeq(s, 1, 1)
        /\ Len(s) = 3 => Stripped(s) = SubSeq(s, 1, 2)
    <2>1. \A k : k = Len(s) - 1 => Stripped(s) = SubSeq(s, 1, k)
      BY Zenon DEF Stripped
    <2>2. (Len(s) = 2 => 1 = Len(s) - 1) /\ (Len(s) = 3 => 2 = Len(s) - 1)
      OBVIOUS
    <2> QED
      BY <2>1, <2>2, Zenon
  <1>3. 1 \in {1, 2} /\ 2 \in {1, 2} /\ 1 \in 1..1 /\ 1 \in 1..2 /\ 2 \in 1..2
    OBVIOUS
  <1>4. /\ Len(SubSeq(s, 1, 1)) = 1 /\ SubSeq(s, 1, 1)[1] = s[1]
        /\ Len(SubSeq(s, 1, 2)) = 2
        /\ SubSeq(s, 1, 2)[1] = s[1] /\ SubSeq(s, 1, 2)[2] = s[2]
    BY <1>1, <1>3, Zenon
  <1> QED
    BY <1>2, <1>4, Zenon

LEMMA NameOfKey ==
    ASSUME NEW n \in Names, NEW f, f = FileName(n) \/ f = LocalFileName(n)
    PROVE  ParseHumanFileName(f).kind = "Key" /\ ParseHumanFileName(f).name = n
  <1>1. CASE f = FileName(n)
    <2>1. Len(f) = 2 /\ f[1] = n /\ f[2] = "env"
      BY <1>1 DEF FileName
    <2>2. PICK s : s = Stripped(f)
      BY Zenon
    <2>3. Len(s) = 1 /\ s[1] = n
      BY <2>1, <2>2, StrippedFacts, Zenon
    <2>4. EndsWith(f, "env") /\ ~EndsWith(s, "local")
      BY <2>1, <2>3 DEF EndsWith
    <2> QED
      BY <2>2, <2>3, <2>4, Zenon DEF ParseHumanFileName
  <1>2. CASE f = LocalFileName(n)
    <2>1. Len(f) = 3 /\ f[1] = n /\ f[2] = "local" /\ f[3] = "env"
      BY <1>2 DEF LocalFileName
    <2>2. PICK s, r : s = Stripped(f) /\ r = Stripped(s)
      BY Zenon
    <2>3. Len(s) = 2 /\ s[1] = n /\ s[2] = "local"
      BY <2>1, <2>2, StrippedFacts, Zenon
    <2>4. Len(r) = 1 /\ r[1] = n
      BY <2>2, <2>3, StrippedFacts, Zenon
    <2>5. EndsWith(f, "env") /\ EndsWith(s, "local")
      BY <2>1, <2>3 DEF EndsWith
    <2> QED
      BY <2>2, <2>4, <2>5, Zenon DEF ParseHumanFileName
  <1> QED
    BY <1>1, <1>2, Zenon

LEMMA TargetFacts ==
    ASSUME NEW path \in Targets
    PROVE  /\ path \in Paths
           /\ path.root \in RootSet /\ path.tier \in {"human", "agent"}
           /\ path \in HumanFiles <=> path.tier = "human"
  BY DEF Targets, Paths, HumanFiles, AgentFiles, HumanFile, AgentFile, Path

LEMMA TempFacts ==
    ASSUME NEW path \in Targets, NEW p \in Procs
    PROVE  TempOf(path, p) \in Paths \ Targets
  <1>1. TempOf(path, p) \in Paths
    BY TargetFacts DEF TempOf, Paths, Temps
  <1>2. TempOf(path, p).file = <<"", p>>
    BY Zenon DEF TempOf, Path, TempFileName
  <1>3. ASSUME NEW t \in Targets PROVE t.file # <<"", p>>
    <2>1. \E n : t.file = <<n, "env">> \/ t.file = <<n, "local", "env">>
      BY DEF Targets, HumanFiles, AgentFiles, HumanFile, AgentFile, Path, FileName,
             LocalFileName
    <2>2. p # "env"
      BY EditorAssumption, Zenon
    <2>3. ASSUME NEW n PROVE <<n, "env">> # <<"", p>>
      BY <2>2, Zenon
    <2>4. ASSUME NEW n PROVE <<n, "local", "env">> # <<"", p>>
      <3>1. Len(<<n, "local", "env">>) = 3 /\ Len(<<"", p>>) = 2
        BY Zenon
      <3> QED
        BY <3>1, Zenon
    <2> QED
      BY <2>1, <2>3, <2>4, Zenon
  <1> QED
    BY <1>1, <1>2, <1>3, Zenon

LEMMA TempsDiffer ==
    ASSUME NEW s, NEW t, NEW p \in Procs, NEW q \in Procs, p # q
    PROVE  TempOf(s, p) # TempOf(t, q)
  <1>1. TempOf(s, p).file = <<"", p>> /\ TempOf(t, q).file = <<"", q>>
    BY Zenon DEF TempOf, Path, TempFileName
  <1>2. <<"", p>> # <<"", q>>
    BY Zenon
  <1> QED
    BY <1>1, <1>2, Zenon

LEMMA TempIgnored ==
    ASSUME NEW p \in Procs
    PROVE  ParseHumanFileName(TempFileName(p)) = Ignored
  <1>1. ~EndsWith(<<"", p>>, "env")
    BY EditorAssumption DEF EndsWith
  <1> QED
    BY <1>1, Zenon DEF ParseHumanFileName, TempFileName

LEMMA CandidatesAreKeys ==
    ASSUME NEW d \in [Paths -> File \cup {Absent}], NEW n
    PROVE  /\ Candidates(d, n) \subseteq HumanFiles
           /\ \A c \in Candidates(d, n) : Exists(d, c)
  <1> SUFFICES ASSUME NEW c \in Candidates(d, n) PROVE c \in HumanFiles /\ Exists(d, c)
    BY Zenon
  <1>1. /\ c \in Paths /\ c.tier = "human" /\ Exists(d, c)
        /\ ParseHumanFileName(c.file).kind = "Key"
    BY Zenon DEF Candidates, Listed
  <1>2. CASE c \in Temps
    <2>1. PICK p \in Procs : c.file = TempFileName(p)
      BY <1>2 DEF Temps, Path
    <2>2. ParseHumanFileName(c.file).kind = "Ignored"
      BY <2>1, TempIgnored DEF Ignored
    <2> QED
      BY <1>1, <2>2, ZenonT(30)
  <1>3. CASE c \in AgentFiles
    BY <1>1, <1>3 DEF AgentFiles, AgentFile, Path
  <1> QED
    BY <1>1, <1>2, <1>3, ZenonT(30) DEF Paths

LEMMA EditPaths ==
    ASSUME NEW d \in [Paths -> File \cup {Absent}], NEW n \in Names, NEW source,
           NEW local \in BOOLEAN, NEW piped \in BOOLEAN
    PROVE  /\ EditHumanPath(d, n, source, local, piped) \subseteq HumanFiles
           /\ Candidates(d, n) # {} =>
                \A c \in EditHumanPath(d, n, source, local, piped) : Exists(d, c)
           /\ EditAgentPath(source, local) \subseteq AgentFiles
  <1>1. SelectRoot(source) \subseteq RootSet
    BY Zenon DEF SelectRoot
  <1>2. EditAgentPath(source, local) \subseteq AgentFiles
    BY <1>1 DEF EditAgentPath, AgentFiles
  <1>3. NewHumanPath(n, source, local \/ piped) \subseteq HumanFiles
    BY <1>1 DEF NewHumanPath, HumanFiles
  <1>4. \A c : ExistingHumanPath(c, source, local) \subseteq {c}
    BY Zenon DEF ExistingHumanPath
  <1>5. CASE Candidates(d, n) = {}
    BY <1>2, <1>3, <1>5, Zenon DEF EditHumanPath
  <1>6. CASE Candidates(d, n) # {}
    <2>1. EditHumanPath(d, n, source, local, piped)
            = UNION {ExistingHumanPath(c, source, local) : c \in Candidates(d, n)}
      BY <1>6, Zenon DEF EditHumanPath
    <2>2. EditHumanPath(d, n, source, local, piped) \subseteq Candidates(d, n)
      BY <1>4, <2>1
    <2> QED
      BY <1>2, <2>2, CandidatesAreKeys, Zenon
  <1> QED
    BY <1>5, <1>6, Zenon

-----------------------------------------------------------------------------
(* The inductive invariant. *)

PipedPcs == {"input", "lock", "look", "encrypt", "store", "write", "persist", "exit"}
LockedPcs == PipedPcs \ {"input", "lock"}
CreatePcs == {"create", "editing", "check", "seal", "sealing", "install", "drop"}
OverPcs == {"exit", "drop", "done", "killed"}

Shape ==
    /\ disk \in [Paths -> File \cup {Absent}]
    /\ proc \in [Procs -> Proc]
    /\ plain \in [Procs -> Plain]
    /\ lock \in [RootSet -> Procs \cup {None}]

(* What process p relies on, r being its record: its path, its lock, the   *)
(* file that sops edits, and the temporary file on its way to the path.    *)
Relies(p, r, d, l, good) ==
    /\ r.pc \in PipedPcs => r.path \in HumanFiles
    /\ r.pc \in CreatePcs \cup {"sops"} => r.path \in Targets
    /\ r.pc \in LockedPcs => l[r.path.root] = p
    /\ r.pc = "sops" => Exists(d, r.path)
    /\ r.pc = "seal" /\ r.path.tier = "human" => good
    /\ r.pc \in {"write", "persist", "sealing", "install"} =>
          /\ d[TempOf(r.path, p)] \in File
          /\ d[TempOf(r.path, p)].inode = p
          /\ r.path.tier = "human" => d[TempOf(r.path, p)].good
          /\ r.pc \in {"persist", "install"} => d[TempOf(r.path, p)].whole

(* A file in place is whole, and was put there by a process that is done   *)
(* with it.                                                                *)
InPlace(path, f, pr) ==
    f # Absent =>
        /\ f.whole
        /\ path.tier = "human" /\ f.by = f.inode => f.good
        /\ f.inode = "before" \/ pr[f.inode].pc \in OverPcs

EditInv ==
    /\ Shape
    /\ \A p \in Procs : Relies(p, proc[p], disk, lock, plain[p].good)
    /\ \A path \in Targets : InPlace(path, disk[path], proc)

LEMMA EditInvInit == Init => EditInv
  <1> SUFFICES ASSUME Init PROVE EditInv
    BY Zenon
  <1>1. PICK human \in SUBSET HumanFiles :
           disk = [p \in Paths |->
                     IF p \in human THEN OldFile({ParseHumanFileName(p.file).name})
                     ELSE Absent]
    BY Zenon DEF Init
  <1>2. ASSUME NEW p \in HumanFiles
        PROVE  ParseHumanFileName(p.file).name \in Names
    <2>1. PICK n \in Names : p.file = FileName(n) \/ p.file = LocalFileName(n)
      BY DEF HumanFiles, HumanFile, Path
    <2> QED
      BY <2>1, NameOfKey, Zenon
  <1>3. \A p \in human : OldFile({ParseHumanFileName(p.file).name}) \in File
    BY <1>2, Zenon DEF OldFile, File, Writers
  <1>4. disk \in [Paths -> File \cup {Absent}]
    BY <1>1, <1>3, Zenon
  <1>5. /\ proc \in [Procs -> Proc] /\ plain \in [Procs -> Plain]
        /\ lock \in [RootSet -> Procs \cup {None}]
        /\ \A p \in Procs : proc[p].pc = "new"
    BY Zenon DEF Init, NewProc, NoPlain, Proc, Plain
  <1>6. \A p \in Procs : Relies(p, proc[p], disk, lock, plain[p].good)
    BY <1>5, Zenon DEF Relies, PipedPcs, LockedPcs, CreatePcs
  <1>7. ASSUME NEW path \in Targets, disk[path] # Absent
        PROVE  InPlace(path, disk[path], proc)
    <2>1. disk[path] = OldFile({ParseHumanFileName(path.file).name})
      BY <1>1, <1>7, TargetFacts, ZenonT(30)
    <2>2. \A names : OldFile(names).whole /\ OldFile(names).good
                      /\ OldFile(names).inode = "before"
      BY Zenon DEF OldFile
    <2> QED
      BY <2>1, <2>2, Zenon DEF InPlace
  <1>8. \A path \in Targets : InPlace(path, disk[path], proc)
    BY <1>7, Zenon DEF InPlace
  <1> QED
    BY <1>4, <1>5, <1>6, <1>8, Zenon DEF EditInv, Shape

-----------------------------------------------------------------------------
(* Steps.  A step of p leaves the others' records and locks alone. *)

Alone(p) ==
    /\ \A q \in Procs \ {p} : proc'[q] = proc[q] /\ plain'[q].good = plain[q].good
    /\ \A r \in RootSet : lock[r] \in Procs \ {p} => lock'[r] = lock[r]
    /\ proc[p].pc \in OverPcs => proc'[p].pc \in OverPcs

LEMMA StepKeeps ==
    ASSUME EditInv, Shape', NEW p \in Procs, Alone(p),
           Relies(p, proc'[p], disk', lock', plain'[p].good),
           \A path \in Targets :
              \/ disk'[path] = disk[path]
              \/ disk'[path] # Absent /\ InPlace(path, disk'[path], proc'),
           \A q \in Procs \ {p}, path \in Targets :
              disk'[TempOf(path, q)] = disk[TempOf(path, q)]
    PROVE  EditInv'
  <1>1. ASSUME NEW q \in Procs, q # p
        PROVE  Relies(q, proc'[q], disk', lock', plain'[q].good)
    <2>1. Relies(q, proc[q], disk, lock, plain[q].good) /\ proc'[q] = proc[q]
          /\ plain'[q].good = plain[q].good
      BY <1>1, Zenon DEF EditInv, Alone
    <2> DEFINE r == proc[q]
    <2>2. HumanFiles \subseteq Targets
      BY Zenon DEF Targets
    <2>3. r.pc \in LockedPcs => lock'[r.path.root] = q
      <3>1. r.pc \in LockedPcs => r.path.root \in RootSet /\ lock[r.path.root] = q
        BY <2>1, <2>2, TargetFacts, ZenonT(30) DEF Relies, LockedPcs
      <3> QED
        BY <1>1, <3>1, ZenonT(30) DEF Alone
    <2>4. r.pc = "sops" => Exists(disk', r.path)
      BY <2>1, Zenon DEF Relies, Exists
    <2>5. r.pc \in {"write", "persist", "sealing", "install"} =>
             disk'[TempOf(r.path, q)] = disk[TempOf(r.path, q)]
      BY <1>1, <2>1, <2>2, ZenonT(30) DEF Relies, PipedPcs, CreatePcs
    <2> QED
      BY <2>1, <2>3, <2>4, <2>5, ZenonT(30) DEF Relies
  <1>2. ASSUME NEW path \in Targets, disk'[path] = disk[path]
        PROVE  InPlace(path, disk'[path], proc')
    <2>1. InPlace(path, disk[path], proc) /\ disk[path] \in File \cup {Absent}
      BY TargetFacts, Zenon DEF EditInv, Shape
    <2>2. disk[path] # Absent => disk[path].inode \in Procs \cup {"before"}
      BY <2>1, ZenonT(30) DEF File, Writers
    <2>3. \A q \in Procs : proc[q].pc \in OverPcs => proc'[q].pc \in OverPcs
      BY ZenonT(30) DEF Alone
    <2> QED
      BY <1>2, <2>1, <2>2, <2>3, ZenonT(30) DEF InPlace
  <1> QED
    BY <1>1, <1>2, ZenonT(30) DEF EditInv

LEMMA QuietKeeps ==
    ASSUME EditInv, NEW p \in Procs, disk' = disk, Shape', Alone(p),
           Relies(p, proc'[p], disk', lock', plain'[p].good)
    PROVE  EditInv'
  BY StepKeeps, ZenonT(30)

LEMMA UnchangedKeeps ==
    ASSUME EditInv, UNCHANGED <<disk, proc, plain, lock>>
    PROVE  EditInv'
  BY Zenon DEF EditInv, Shape

LEMMA GotoFacts ==
    ASSUME Shape, NEW p \in Procs, NEW pc, Goto(p, pc), [proc[p] EXCEPT !.pc = pc] \in Proc
    PROVE  /\ proc' \in [Procs -> Proc]
           /\ proc'[p].pc = pc /\ proc'[p].path = proc[p].path
           /\ \A q \in Procs \ {p} : proc'[q] = proc[q]
  BY Zenon DEF Shape, Goto, Proc

LEMMA EndFacts ==
    ASSUME Shape, NEW p \in Procs, NEW pc \in {"done", "killed"}, End(p, pc),
           NEW d, NEW l, NEW good
    PROVE  /\ proc' \in [Procs -> Proc]
           /\ proc'[p].pc = pc
           /\ \A q \in Procs \ {p} : proc'[q] = proc[q]
           /\ Relies(p, proc'[p], d, l, good)
  <1>1. /\ proc' \in [Procs -> Proc] /\ proc'[p].pc = pc
        /\ \A q \in Procs \ {p} : proc'[q] = proc[q]
    BY Zenon DEF Shape, End, NewProc, Proc
  <1> QED
    BY <1>1, ZenonT(30) DEF Relies, PipedPcs, LockedPcs, CreatePcs

LEMMA UnlockedFacts ==
    ASSUME Shape, NEW p \in Procs
    PROVE  /\ Unlocked(p) \in [RootSet -> Procs \cup {None}]
           /\ \A r \in RootSet : lock[r] \in Procs \ {p} => Unlocked(p)[r] = lock[r]
  BY Zenon DEF Shape, Unlocked

(* A write to the command's own temporary file. *)
LEMMA TempWritten ==
    ASSUME Shape, NEW p \in Procs, NEW path \in Targets, NEW f \in File \cup {Absent},
           disk' = [disk EXCEPT ![TempOf(path, p)] = f]
    PROVE  /\ disk' \in [Paths -> File \cup {Absent}]
           /\ disk'[TempOf(path, p)] = f
           /\ \A t \in Targets : disk'[t] = disk[t]
           /\ \A q \in Procs \ {p}, t \in Targets :
                 disk'[TempOf(t, q)] = disk[TempOf(t, q)]
  <1>1. TempOf(path, p) \in Paths \ Targets
    BY TempFacts, Zenon
  <1>2. /\ disk' \in [Paths -> File \cup {Absent}]
        /\ disk'[TempOf(path, p)] = f
        /\ \A t \in Paths \ {TempOf(path, p)} : disk'[t] = disk[t]
    BY <1>1, Zenon DEF Shape
  <1>3. \A t \in Targets : t \in Paths \ {TempOf(path, p)}
    BY <1>1, TargetFacts, ZenonT(30)
  <1>4. \A q \in Procs \ {p}, t \in Targets : TempOf(t, q) \in Paths \ {TempOf(path, p)}
    BY TempFacts, TempsDiffer, ZenonT(30)
  <1> QED
    BY <1>2, <1>3, <1>4, ZenonT(30)

(* A rename onto the path. *)
LEMMA RenamedFacts ==
    ASSUME Shape, NEW p \in Procs, proc[p].path \in Targets, disk' = Renamed(p)
    PROVE  /\ disk' \in [Paths -> File \cup {Absent}]
           /\ disk'[proc[p].path] = disk[TempOf(proc[p].path, p)]
           /\ \A t \in Targets \ {proc[p].path} : disk'[t] = disk[t]
           /\ \A q \in Procs \ {p}, t \in Targets :
                 disk'[TempOf(t, q)] = disk[TempOf(t, q)]
  <1> DEFINE path == proc[p].path
             temp == TempOf(path, p)
  <1>1. path \in Paths /\ temp \in Paths \ Targets /\ temp # path
    BY TempFacts, TargetFacts, Zenon
  <1>2. disk' = [[disk EXCEPT ![path] = disk[temp]] EXCEPT ![temp] = Absent]
    BY Zenon DEF Renamed, Temp, TempOf, Root
  <1> HIDE DEF path, temp
  <1>3. /\ disk' \in [Paths -> File \cup {Absent}]
        /\ disk'[path] = disk[temp]
        /\ \A t \in Paths \ {path, temp} : disk'[t] = disk[t]
    BY <1>1, <1>2, ZenonT(30) DEF Shape
  <1>4. \A t \in Targets \ {path} : t \in Paths \ {path, temp}
    BY <1>1, TargetFacts, Zenon
  <1>5. \A q \in Procs \ {p}, t \in Targets : TempOf(t, q) \in Paths \ {path, temp}
    <2>1. path \in Targets
      BY Zenon DEF path
    <2>2. \A q \in Procs \ {p}, t \in Targets : TempOf(t, q) \in Paths \ Targets
      BY TempFacts, Zenon
    <2>3. \A q \in Procs \ {p}, t \in Targets : TempOf(t, q) # temp
      BY TempsDiffer, Zenon DEF temp
    <2> QED
      BY <2>1, <2>2, <2>3, ZenonT(30)
  <1> QED
    BY <1>3, <1>4, <1>5, ZenonT(30) DEF path, temp

-----------------------------------------------------------------------------
(* One lemma for each group of actions: the invariant is kept, and what is *)
(* in place changes only as ReplacedUnderLock allows.                      *)

Guarded ==
    \A path \in HumanFiles \cup AgentFiles :
        Exists(disk, path) /\ disk'[path] # disk[path] =>
           /\ Exists(disk', path)
           /\ \E p \in Procs : /\ proc[p].path = path
                               /\ \/ At(p, "sops")
                                  \/ At(p, "persist") /\ lock[path.root] = p

LEMMA GuardedIfSame ==
    ASSUME \A t \in Targets : disk'[t] = disk[t]
    PROVE  Guarded
  BY Zenon DEF Guarded, Targets

LEMMA BeginStep ==
    ASSUME EditInv, NEW p \in Procs, At(p, "new"), NEW path \in Targets,
           NEW pc \in {"input", "create", "sops"}, NEW saw \in SUBSET Paths,
           pc = "input" => path \in HumanFiles, pc = "sops" => Exists(disk, path),
           Begin(p, path, pc, saw)
    PROVE  EditInv' /\ Guarded
  <1>1. /\ proc' \in [Procs -> Proc]
        /\ proc'[p].pc = pc /\ proc'[p].path = path
        /\ \A q \in Procs \ {p} : proc'[q] = proc[q]
    <2> DEFINE new == [proc[p] EXCEPT !.pc = pc, !.path = path, !.saw = saw]
    <2>1. path \in Paths /\ proc \in [Procs -> Proc] /\ proc[p] \in Proc
      BY TargetFacts, Zenon DEF EditInv, Shape
    <2>2. new \in Proc /\ new.pc = pc /\ new.path = path
      BY <2>1, Zenon DEF Proc
    <2>3. proc' = [proc EXCEPT ![p] = new]
      BY Zenon DEF Begin
    <2> QED
      BY <2>1, <2>2, <2>3, ZenonT(30)
  <1>2. UNCHANGED <<disk, plain, lock>>
    BY Zenon DEF Begin
  <1>3. disk' = disk /\ Shape'
    BY <1>1, <1>2, ZenonT(30) DEF EditInv, Shape
  <1>4. Alone(p)
    BY <1>1, <1>2, ZenonT(30) DEF Alone, At, OverPcs
  <1>5. Relies(p, proc'[p], disk', lock', plain'[p].good)
    BY <1>1, <1>3, Zenon DEF Relies, PipedPcs, LockedPcs, CreatePcs
  <1> QED
    BY <1>3, <1>4, <1>5, QuietKeeps, GuardedIfSame, ZenonT(30)

LEMMA EndStep ==
    ASSUME EditInv, NEW p \in Procs, NEW pc \in {"done", "killed"}, End(p, pc),
           disk' = disk, plain' \in [Procs -> Plain],
           \A q \in Procs \ {p} : plain'[q] = plain[q],
           lock' = lock \/ lock' = Unlocked(p)
    PROVE  EditInv' /\ Guarded
  <1>1. Shape
    BY Zenon DEF EditInv
  <1>2. /\ proc' \in [Procs -> Proc] /\ proc'[p].pc = pc
        /\ \A q \in Procs \ {p} : proc'[q] = proc[q]
        /\ Relies(p, proc'[p], disk', lock', plain'[p].good)
    BY <1>1, EndFacts, Zenon
  <1>3. /\ lock' \in [RootSet -> Procs \cup {None}]
        /\ \A r \in RootSet : lock[r] \in Procs \ {p} => lock'[r] = lock[r]
    BY <1>1, UnlockedFacts, ZenonT(30) DEF Shape
  <1>4. Shape' /\ Alone(p)
    BY <1>1, <1>2, <1>3, ZenonT(30) DEF Shape, Alone, OverPcs
  <1> QED
    BY <1>2, <1>4, QuietKeeps, GuardedIfSame, ZenonT(30)

(* A failure of a piped command that has its temporary file. *)
LEMMA FailStep ==
    ASSUME EditInv, NEW p \in Procs, proc[p].path \in Targets, FailPiped(p),
           disk' = [disk EXCEPT ![TempOf(proc[p].path, p)] = Absent], plain' = plain
    PROVE  EditInv' /\ Guarded
  <1>1. Shape
    BY Zenon DEF EditInv
  <1>2. /\ proc' \in [Procs -> Proc] /\ proc'[p].pc = "done"
        /\ \A q \in Procs \ {p} : proc'[q] = proc[q]
        /\ Relies(p, proc'[p], disk', lock', plain'[p].good)
    BY <1>1, EndFacts, Zenon DEF FailPiped
  <1>3. /\ disk' \in [Paths -> File \cup {Absent}]
        /\ \A t \in Targets : disk'[t] = disk[t]
        /\ \A q \in Procs \ {p}, t \in Targets :
              disk'[TempOf(t, q)] = disk[TempOf(t, q)]
    BY <1>1, TempWritten, Zenon
  <1>4. Shape' /\ Alone(p)
    BY <1>1, <1>2, <1>3, UnlockedFacts, ZenonT(30) DEF Shape, Alone, OverPcs, FailPiped
  <1> QED
    BY <1>2, <1>3, <1>4, StepKeeps, GuardedIfSame, Zenon

LEMMA StartStep ==
    ASSUME EditInv, NEW p \in Procs, Start(p)
    PROVE  EditInv' /\ Guarded
  <1>1. disk \in [Paths -> File \cup {Absent}] /\ plain \in [Procs -> Plain]
    BY Zenon DEF EditInv, Shape
  <1>2. CASE Refuse(p)
    BY <1>1, <1>2, EndStep, ZenonT(30) DEF Refuse
  <1>3. ASSUME NEW source \in Sources, NEW local \in BOOLEAN, EditAgent(p, source, local)
        PROVE  EditInv' /\ Guarded
    <2>1. PICK path \in EditAgentPath(source, local) :
             Begin(p, path, IF Exists(disk, path) THEN "sops" ELSE "create", {})
      BY <1>3, ZenonT(30) DEF EditAgent
    <2>2. path \in Targets
      <3>1. SelectRoot(source) \subseteq RootSet
        BY Zenon DEF SelectRoot
      <3> QED
        BY <2>1, <3>1 DEF EditAgentPath, AgentFiles, Targets
    <2>3. CASE Exists(disk, path)
      <3>1. Begin(p, path, "sops", {})
        BY <2>1, <2>3, Zenon
      <3> QED
        BY <1>3, <2>2, <2>3, <3>1, BeginStep DEF EditAgent
    <2>4. CASE ~Exists(disk, path)
      <3>1. Begin(p, path, "create", {})
        BY <2>1, <2>4, Zenon
      <3> QED
        BY <1>3, <2>2, <3>1, BeginStep DEF EditAgent
    <2> QED
      BY <2>3, <2>4, ZenonT(30)
  <1>4. ASSUME NEW source \in Sources, NEW local \in BOOLEAN, NEW n \in Names,
               NEW piped \in BOOLEAN, EditHuman(p, n, source, local, piped)
        PROVE  EditInv' /\ Guarded
    <2> DEFINE saw == Candidates(disk, n)
               pc  == IF piped THEN "input" ELSE IF saw # {} THEN "sops" ELSE "create"
    <2>1. PICK path \in EditHumanPath(disk, n, source, local, piped) :
             Begin(p, path, pc, saw)
      BY <1>4, Zenon DEF EditHuman
    <2>2. path \in HumanFiles /\ (saw # {} => Exists(disk, path))
      BY <1>1, <2>1, EditPaths, Zenon
    <2>3. path \in Targets /\ saw \in SUBSET Paths
      BY <1>1, <2>2, CandidatesAreKeys, ZenonT(30) DEF Targets, Paths
    <2>4. pc \in {"input", "create", "sops"} /\ (pc = "sops" => saw # {})
      BY Zenon
    <2> HIDE DEF pc, saw
    <2> QED
      BY <1>4, <2>1, <2>2, <2>3, <2>4, BeginStep, Zenon DEF EditHuman
  <1> QED
    BY <1>2, <1>3, <1>4, ZenonT(30) DEF Start

(* Where p is in a route, its path is a target. *)
LEMMA PathOf ==
    ASSUME EditInv, NEW p \in Procs
    PROVE  /\ Shape /\ Relies(p, proc[p], disk, lock, plain[p].good)
           /\ proc[p].pc \in PipedPcs \cup CreatePcs \cup {"sops"} => proc[p].path \in Targets
           /\ proc[p].pc \in PipedPcs => proc[p].path.tier = "human"
           /\ Temp(p) = TempOf(proc[p].path, p)
  BY TargetFacts, Zenon DEF EditInv, Relies, Targets, Temp, TempOf, Root

(* A step that only moves p on, and perhaps takes the lock. *)
LEMMA GotoStep ==
    ASSUME EditInv, NEW p \in Procs, NEW pc, disk' = disk,
           proc' \in [Procs -> Proc], \A q \in Procs \ {p} : proc'[q] = proc[q],
           proc'[p].pc = pc, proc'[p].path = proc[p].path,
           proc[p].pc \notin OverPcs,
           plain' \in [Procs -> Plain], \A q \in Procs \ {p} : plain'[q] = plain[q],
           lock' \in [RootSet -> Procs \cup {None}],
           \A r \in RootSet : lock[r] \in Procs \ {p} => lock'[r] = lock[r],
           Relies(p, proc'[p], disk, lock', plain'[p].good)
    PROVE  EditInv' /\ Guarded
  <1>1. Shape' /\ Alone(p)
    BY Zenon DEF EditInv, Shape, Alone
  <1> QED
    BY <1>1, QuietKeeps, GuardedIfSame, ZenonT(30)

(* A step of p that writes its temporary file. *)
LEMMA TempStep ==
    ASSUME EditInv, NEW p \in Procs, proc[p].path \in Targets,
           NEW f \in File \cup {Absent},
           disk' = [disk EXCEPT ![TempOf(proc[p].path, p)] = f],
           proc' \in [Procs -> Proc], \A q \in Procs \ {p} : proc'[q] = proc[q],
           proc[p].pc \notin OverPcs, plain' = plain, lock' = lock,
           Relies(p, proc'[p], disk', lock, plain[p].good)
    PROVE  EditInv' /\ Guarded
  <1>1. Shape
    BY Zenon DEF EditInv
  <1>2. /\ disk' \in [Paths -> File \cup {Absent}]
        /\ \A t \in Targets : disk'[t] = disk[t]
        /\ \A q \in Procs \ {p}, t \in Targets :
              disk'[TempOf(t, q)] = disk[TempOf(t, q)]
    BY <1>1, TempWritten, ZenonT(30)
  <1>3. Shape' /\ Alone(p)
    BY <1>1, <1>2, ZenonT(30) DEF Shape, Alone
  <1> QED
    BY <1>2, <1>3, StepKeeps, GuardedIfSame, Zenon

(* A step of p that renames its temporary file to its path. *)
LEMMA RenameStep ==
    ASSUME EditInv, NEW p \in Procs, At(p, "persist") \/ At(p, "install"),
           disk' = Renamed(p), At(p, "install") => ~Exists(disk, proc[p].path),
           proc' \in [Procs -> Proc], \A q \in Procs \ {p} : proc'[q] = proc[q],
           proc'[p].path = proc[p].path,
           proc'[p].pc = IF At(p, "persist") THEN "exit" ELSE "drop",
           plain' = plain, lock' = lock
    PROVE  EditInv' /\ Guarded
  <1> DEFINE path == proc[p].path
             f    == disk[TempOf(path, p)]
  <1>1. /\ Shape /\ Relies(p, proc[p], disk, lock, plain[p].good)
        /\ path \in Targets
    BY PathOf, ZenonT(30) DEF At, PipedPcs, CreatePcs
  <1>2. f \in File /\ f.inode = p /\ f.whole /\ (path.tier = "human" => f.good)
    BY <1>1, ZenonT(30) DEF Relies, At
  <1>3. /\ disk' \in [Paths -> File \cup {Absent}] /\ disk'[path] = f
        /\ \A t \in Targets \ {path} : disk'[t] = disk[t]
        /\ \A q \in Procs \ {p}, t \in Targets :
              disk'[TempOf(t, q)] = disk[TempOf(t, q)]
    BY <1>1, RenamedFacts, ZenonT(30)
  <1> HIDE DEF path, f
  <1>4. f # Absent
    <2>1. f.state = "file" /\ Absent.state = "absent"
      BY <1>2, ZenonT(30) DEF File, Absent
    <2> QED
      BY <2>1, ZenonT(30)
  <1>5. proc'[p].pc \in {"exit", "drop"} /\ proc'[p].pc \in OverPcs
    BY Zenon DEF OverPcs
  <1>6. InPlace(path, disk'[path], proc')
    BY <1>2, <1>3, <1>5, ZenonT(30) DEF InPlace
  <1>7. Shape' /\ Alone(p)
    BY <1>1, <1>3, <1>5, ZenonT(30) DEF Shape, Alone
  <1>8. Relies(p, proc'[p], disk', lock', plain'[p].good)
    BY <1>1, ZenonT(30) DEF Relies, At, PipedPcs, LockedPcs, CreatePcs
  <1>9. Guarded
    <2>1. ASSUME NEW t \in Targets, Exists(disk, t), disk'[t] # disk[t]
          PROVE  /\ Exists(disk', t) /\ proc[p].path = t
                 /\ At(p, "persist") /\ lock[t.root] = p
      <3>1. t = path
        BY <1>3, <2>1, ZenonT(30)
      <3>2. Exists(disk', t)
        BY <1>3, <1>4, <3>1, ZenonT(30) DEF Exists
      <3>3. At(p, "persist")
        BY <2>1, <3>1, ZenonT(30) DEF path
      <3>4. lock[t.root] = p
        BY <1>1, <3>1, <3>3, ZenonT(30) DEF path, At, Relies, PipedPcs, LockedPcs
      <3> QED
        BY <3>1, <3>2, <3>3, <3>4, ZenonT(30) DEF path
    <2> QED
      BY <2>1, ZenonT(30) DEF Guarded, Targets
  <1>10. \A t \in Targets : \/ disk'[t] = disk[t]
                            \/ disk'[t] # Absent /\ InPlace(t, disk'[t], proc')
    BY <1>3, <1>4, <1>6, ZenonT(30)
  <1> QED
    BY <1>3, <1>7, <1>8, <1>9, <1>10, StepKeeps, ZenonT(30)

LEMMA WrittenFacts ==
    ASSUME NEW p \in Procs, NEW good \in BOOLEAN, NEW names \in SUBSET Names
    PROVE  /\ Written(p, FALSE, good, names) \in File
           /\ Written(p, FALSE, good, names).inode = p
           /\ Written(p, FALSE, good, names).good = good
  BY Zenon DEF Written, File, Writers

LEMMA WholeFacts ==
    ASSUME NEW f \in File
    PROVE  LET g == [f EXCEPT !.whole = TRUE]
           IN  g \in File /\ g.inode = f.inode /\ g.good = f.good /\ g.whole
  BY Zenon DEF File

-----------------------------------------------------------------------------
(* The actions. *)

LEMMA PipedQuietStep ==
    ASSUME EditInv, NEW p \in Procs,
           ReadPipedAssignment(p) \/ TakeLock(p) \/ LookAndSpawn(p) \/ Encrypted(p) \/ Exit(p)
    PROVE  EditInv' /\ Guarded
  <1> DEFINE path == proc[p].path
  <1>1. /\ Shape /\ Relies(p, proc[p], disk, lock, plain[p].good)
        /\ proc[p].pc \in PipedPcs => path \in Targets
    BY PathOf, Zenon
  <1>2. /\ proc \in [Procs -> Proc] /\ plain \in [Procs -> Plain]
        /\ lock \in [RootSet -> Procs \cup {None}]
    BY <1>1, Zenon DEF Shape
  <1>3. ASSUME End(p, "done"), UNCHANGED <<disk, plain>>,
               lock' = lock \/ lock' = Unlocked(p)
        PROVE  EditInv' /\ Guarded
    BY <1>2, <1>3, EndStep, ZenonT(30)
  <1>4. CASE ReadPipedAssignment(p)
    <2>1. CASE Goto(p, "lock")
      <3>1. /\ proc' \in [Procs -> Proc] /\ proc'[p].pc = "lock" /\ proc'[p].path = path
            /\ \A q \in Procs \ {p} : proc'[q] = proc[q]
        <4>1. [proc[p] EXCEPT !.pc = "lock"] \in Proc
          BY <1>2, ZenonT(30) DEF Proc
        <4> QED
          BY <1>1, <2>1, <4>1, GotoFacts, ZenonT(30)
      <3>2. UNCHANGED <<disk, plain, lock>> /\ proc[p].pc = "input"
        BY <1>4, Zenon DEF ReadPipedAssignment, At
      <3>3. Relies(p, proc'[p], disk, lock', plain'[p].good)
        BY <1>1, <3>1, <3>2, ZenonT(30) DEF Relies, PipedPcs, LockedPcs, CreatePcs
      <3>4. proc[p].pc \notin OverPcs
        BY <3>2, Zenon DEF OverPcs
      <3> QED
        BY <1>2, <3>1, <3>2, <3>3, <3>4, GotoStep, ZenonT(30)
    <2> QED
      BY <1>3, <1>4, <2>1, ZenonT(30) DEF ReadPipedAssignment
  <1>5. CASE TakeLock(p)
    <2>1. /\ proc' \in [Procs -> Proc] /\ proc'[p].pc = "look" /\ proc'[p].path = path
          /\ \A q \in Procs \ {p} : proc'[q] = proc[q]
      <3>1. [proc[p] EXCEPT !.pc = "look"] \in Proc
        BY <1>2, ZenonT(30) DEF Proc
      <3> QED
        BY <1>1, <1>5, <3>1, GotoFacts, ZenonT(30) DEF TakeLock
    <2>2. UNCHANGED <<disk, plain>> /\ proc[p].pc = "lock" /\ lock[path.root] = None
          /\ lock' = [lock EXCEPT ![path.root] = p]
      BY <1>5, Zenon DEF TakeLock, At, Root
    <2>3. path \in HumanFiles /\ path.root \in RootSet
      BY <1>1, <2>2, TargetFacts, Zenon DEF Relies, PipedPcs
    <2>4. /\ lock' \in [RootSet -> Procs \cup {None}] /\ lock'[path.root] = p
          /\ \A r \in RootSet : lock[r] \in Procs \ {p} => lock'[r] = lock[r]
      BY <1>2, <2>2, <2>3, EditorAssumption, ZenonT(30)
    <2>5. Relies(p, proc'[p], disk, lock', plain'[p].good)
      BY <1>1, <2>1, <2>2, <2>3, <2>4, Zenon DEF Relies, PipedPcs, LockedPcs, CreatePcs
    <2>6. proc[p].pc \notin OverPcs
      BY <2>2, Zenon DEF OverPcs
    <2> QED
      BY <1>2, <2>1, <2>2, <2>4, <2>5, <2>6, GotoStep, Zenon
  <1>6. CASE LookAndSpawn(p)
    <2>1. CASE FailPiped(p)
      BY <1>3, <1>6, <2>1, ZenonT(30) DEF LookAndSpawn, FailPiped
    <2>2. CASE /\ proc' = [proc EXCEPT ![p].pc = "encrypt",
                                       ![p].rotated = Exists(disk, proc[p].path)]
               /\ UNCHANGED lock
      <3>1. /\ proc' \in [Procs -> Proc] /\ proc'[p].pc = "encrypt"
            /\ proc'[p].path = path
            /\ \A q \in Procs \ {p} : proc'[q] = proc[q]
        <4> DEFINE found == Exists(disk, path)
                   new == [proc[p] EXCEPT !.pc = "encrypt", !.rotated = found]
        <4>1. found \in BOOLEAN
          BY Zenon DEF Exists
        <4>2. proc' = [proc EXCEPT ![p] = new]
          BY <1>2, <2>2, Zenon
        <4> HIDE DEF found
        <4>3. new \in Proc /\ new.pc = "encrypt" /\ new.path = path
          BY <1>2, <4>1, ZenonT(30) DEF Proc
        <4> HIDE DEF new
        <4> QED
          BY <1>2, <4>2, <4>3, ZenonT(30)
      <3>2. UNCHANGED <<disk, plain, lock>> /\ proc[p].pc = "look"
        BY <1>6, <2>2, Zenon DEF LookAndSpawn, At
      <3>3. Relies(p, proc'[p], disk, lock', plain'[p].good)
        BY <1>1, <3>1, <3>2, ZenonT(30) DEF Relies, PipedPcs, LockedPcs, CreatePcs
      <3>4. proc[p].pc \notin OverPcs
        BY <3>2, Zenon DEF OverPcs
      <3> QED
        BY <1>2, <3>1, <3>2, <3>3, <3>4, GotoStep, ZenonT(30)
    <2> QED
      BY <1>6, <2>1, <2>2, ZenonT(30) DEF LookAndSpawn
  <1>7. CASE Encrypted(p)
    <2>1. CASE FailPiped(p)
      BY <1>3, <1>7, <2>1, ZenonT(30) DEF Encrypted, FailPiped
    <2>2. CASE Goto(p, "store") /\ UNCHANGED lock
      <3>1. /\ proc' \in [Procs -> Proc] /\ proc'[p].pc = "store" /\ proc'[p].path = path
            /\ \A q \in Procs \ {p} : proc'[q] = proc[q]
        <4>1. [proc[p] EXCEPT !.pc = "store"] \in Proc
          BY <1>2, ZenonT(30) DEF Proc
        <4> QED
          BY <1>1, <2>2, <4>1, GotoFacts, ZenonT(30)
      <3>2. UNCHANGED <<disk, plain, lock>> /\ proc[p].pc = "encrypt"
        BY <1>7, <2>2, Zenon DEF Encrypted, At
      <3>3. Relies(p, proc'[p], disk, lock', plain'[p].good)
        BY <1>1, <3>1, <3>2, ZenonT(30) DEF Relies, PipedPcs, LockedPcs, CreatePcs
      <3>4. proc[p].pc \notin OverPcs
        BY <3>2, Zenon DEF OverPcs
      <3> QED
        BY <1>2, <3>1, <3>2, <3>3, <3>4, GotoStep, ZenonT(30)
    <2> QED
      BY <1>7, <2>1, <2>2, ZenonT(30) DEF Encrypted
  <1>8. CASE Exit(p)
    BY <1>3, <1>8, Zenon DEF Exit
  <1> QED
    BY <1>4, <1>5, <1>6, <1>7, <1>8, ZenonT(30)

LEMMA MakeTempStep ==
    ASSUME EditInv, NEW p \in Procs, MakeTemp(p)
    PROVE  EditInv' /\ Guarded
  <1> DEFINE path == proc[p].path
             f    == Written(p, FALSE, TRUE, {NameOf(path)})
  <1>1. /\ Shape /\ Relies(p, proc[p], disk, lock, plain[p].good)
        /\ path \in Targets /\ path \in HumanFiles /\ Temp(p) = TempOf(path, p)
        /\ proc[p].pc = "store" /\ plain' = plain
    BY PathOf, Zenon DEF MakeTemp, At, PipedPcs, Relies
  <1>2. CASE UNCHANGED disk /\ FailPiped(p)
    BY <1>1, <1>2, EndStep, ZenonT(30) DEF FailPiped, Shape
  <1>3. CASE /\ disk' = [disk EXCEPT ![Temp(p)] = f]
             /\ Goto(p, "write") /\ UNCHANGED lock
    <2>1. NameOf(path) \in Names
      <3>1. PICK n \in Names : path.file = FileName(n) \/ path.file = LocalFileName(n)
        BY <1>1 DEF HumanFiles, HumanFile, Path
      <3> QED
        BY <3>1, NameOfKey, ZenonT(30) DEF NameOf
    <2>2. f \in File /\ f.inode = p /\ f.good
      <3>1. {NameOf(path)} \in SUBSET Names
        BY <2>1, Zenon
      <3> QED
        BY <3>1, WrittenFacts, Zenon
    <2> HIDE DEF f
    <2>3. /\ proc' \in [Procs -> Proc] /\ proc'[p].pc = "write" /\ proc'[p].path = path
          /\ \A q \in Procs \ {p} : proc'[q] = proc[q]
      <3>1. [proc[p] EXCEPT !.pc = "write"] \in Proc
        BY <1>1, ZenonT(30) DEF Shape, Proc
      <3> QED
        BY <1>1, <1>3, <3>1, GotoFacts, ZenonT(30)
    <2>4. disk' = [disk EXCEPT ![TempOf(path, p)] = f] /\ f \in File \cup {Absent}
      BY <1>1, <1>3, <2>2, Zenon
    <2>5. disk'[TempOf(path, p)] = f
      <3>1. TempOf(path, p) \in Paths /\ DOMAIN disk = Paths
        BY <1>1, TempFacts, ZenonT(30) DEF Shape
      <3> QED
        BY <2>4, <3>1, ZenonT(30)
    <2>6. Relies(p, proc'[p], disk', lock, plain[p].good)
      BY <1>1, <2>2, <2>3, <2>5, ZenonT(30) DEF Relies, PipedPcs, LockedPcs, CreatePcs
    <2>7. proc[p].pc \notin OverPcs
      BY <1>1, Zenon DEF OverPcs
    <2> QED
      BY <1>1, <1>3, <2>3, <2>4, <2>6, <2>7, TempStep, Zenon
  <1> QED
    BY <1>2, <1>3, ZenonT(30) DEF MakeTemp

LEMMA WriteTempStep ==
    ASSUME EditInv, NEW p \in Procs, WriteTemp(p)
    PROVE  EditInv' /\ Guarded
  <1> DEFINE path == proc[p].path
             temp == TempOf(path, p)
             f    == [disk[temp] EXCEPT !.whole = TRUE]
  <1>1. /\ Shape /\ Relies(p, proc[p], disk, lock, plain[p].good)
        /\ path \in Targets /\ Temp(p) = temp
        /\ proc[p].pc = "write" /\ plain' = plain
    BY PathOf, Zenon DEF WriteTemp, At, PipedPcs
  <1>2. CASE disk' = [disk EXCEPT ![Temp(p)] = Absent] /\ FailPiped(p)
    BY <1>1, <1>2, FailStep, Zenon
  <1>3. CASE /\ disk' = [disk EXCEPT ![Temp(p)].whole = TRUE]
             /\ Goto(p, "persist") /\ UNCHANGED lock
    <2>1. /\ proc' \in [Procs -> Proc] /\ proc'[p].pc = "persist" /\ proc'[p].path = path
          /\ \A q \in Procs \ {p} : proc'[q] = proc[q]
      <3>1. [proc[p] EXCEPT !.pc = "persist"] \in Proc
        BY <1>1, ZenonT(30) DEF Shape, Proc
      <3> QED
        BY <1>1, <1>3, <3>1, GotoFacts, ZenonT(30)
    <2>2. /\ disk[temp] \in File /\ disk[temp].inode = p
          /\ path.tier = "human" => disk[temp].good
      BY <1>1, Zenon DEF Relies
    <2>3. f \in File /\ f.inode = p /\ f.whole /\ f.good = disk[temp].good
      BY <2>2, WholeFacts, Zenon
    <2>4. disk' = [disk EXCEPT ![temp] = f]
      BY <1>1, <1>3, Zenon
    <2> HIDE DEF f
    <2>5. disk'[temp] = f
      <3>1. temp \in Paths /\ DOMAIN disk = Paths
        BY <1>1, TempFacts, Zenon DEF Shape
      <3> QED
        BY <2>4, <3>1, Zenon
    <2>6. Relies(p, proc'[p], disk', lock, plain[p].good)
      BY <1>1, <2>1, <2>2, <2>3, <2>5, ZenonT(30) DEF Relies, PipedPcs, LockedPcs, CreatePcs
    <2>7. proc[p].pc \notin OverPcs
      BY <1>1, Zenon DEF OverPcs
    <2>8. f \in File \cup {Absent}
      BY <2>3, Zenon
    <2> QED
      BY <1>1, <1>3, <2>1, <2>4, <2>6, <2>7, <2>8, TempStep, Zenon
  <1> QED
    BY <1>2, <1>3, Zenon DEF WriteTemp

LEMMA PersistStep ==
    ASSUME EditInv, NEW p \in Procs, Persist(p)
    PROVE  EditInv' /\ Guarded
  <1> DEFINE path == proc[p].path
  <1>1. /\ Shape /\ Relies(p, proc[p], disk, lock, plain[p].good)
        /\ path \in Targets /\ Temp(p) = TempOf(path, p)
        /\ proc[p].pc = "persist" /\ plain' = plain
    BY PathOf, Zenon DEF Persist, At, PipedPcs
  <1>2. CASE disk' = [disk EXCEPT ![Temp(p)] = Absent] /\ FailPiped(p)
    BY <1>1, <1>2, FailStep, Zenon
  <1>3. CASE /\ disk' = Renamed(p)
             /\ proc' = [proc EXCEPT ![p].pc = "exit", ![p].replaced = Holder(path)]
             /\ UNCHANGED lock
    <2>1. Holder(path) \in Writers \cup {None}
      <3>1. disk[path] \in File \cup {Absent}
        BY <1>1, TargetFacts, Zenon DEF Shape
      <3> QED
        BY <3>1, Zenon DEF Holder, Exists, File
    <2>2. /\ proc' \in [Procs -> Proc] /\ proc'[p].pc = "exit" /\ proc'[p].path = path
          /\ \A q \in Procs \ {p} : proc'[q] = proc[q]
      <3> DEFINE new == [proc[p] EXCEPT !.pc = "exit", !.replaced = Holder(path)]
      <3>1. proc' = [proc EXCEPT ![p] = new]
        BY <1>3, Zenon
      <3>2. proc[p] \in Proc /\ proc \in [Procs -> Proc]
        BY <1>1, Zenon DEF Shape
      <3>3. new \in Proc /\ new.pc = "exit" /\ new.path = path
        BY <2>1, <3>2, ZenonT(30) DEF Proc
      <3> HIDE DEF new
      <3> QED
        BY <3>1, <3>2, <3>3, Zenon
    <2>3. At(p, "persist") /\ ~At(p, "install")
      BY <1>1, Zenon DEF At
    <2> QED
      BY <1>1, <1>3, <2>2, <2>3, RenameStep, ZenonT(30)
  <1> QED
    BY <1>2, <1>3, Zenon DEF Persist

(* The create route: steps that keep the disk. *)
LEMMA CreateQuietStep ==
    ASSUME EditInv, NEW p \in Procs, NEW pc \in {"editing", "check", "drop", "seal"},
           proc[p].pc \in CreatePcs \ {"drop"}, Goto(p, pc), disk' = disk, lock' = lock,
           plain' \in [Procs -> Plain], \A q \in Procs \ {p} : plain'[q] = plain[q],
           pc = "seal" /\ proc[p].path.tier = "human" => plain'[p].good
    PROVE  EditInv' /\ Guarded
  <1>1. /\ Shape /\ Relies(p, proc[p], disk, lock, plain[p].good)
        /\ proc[p].path \in Targets
    BY PathOf, Zenon
  <1>2. /\ proc' \in [Procs -> Proc] /\ proc'[p].pc = pc /\ proc'[p].path = proc[p].path
        /\ \A q \in Procs \ {p} : proc'[q] = proc[q]
    <2>1. [proc[p] EXCEPT !.pc = pc] \in Proc
      BY <1>1 DEF Shape, Proc
    <2> QED
      BY <1>1, <2>1, GotoFacts, ZenonT(30)
  <1>3. Relies(p, proc'[p], disk, lock', plain'[p].good)
    BY <1>1, <1>2, Zenon DEF Relies, PipedPcs, LockedPcs, CreatePcs
  <1>4. proc[p].pc \notin OverPcs
    BY Zenon DEF CreatePcs, OverPcs
  <1>5. lock' \in [RootSet -> Procs \cup {None}]
    BY <1>1, Zenon DEF Shape
  <1> QED
    BY <1>2, <1>3, <1>4, <1>5, GotoStep, ZenonT(30)

(* What a drop leaves of the plaintext file. *)
LEMMA DropLeaves ==
    ASSUME NEW p \in Procs, plain \in [Procs -> Plain], Drop(p)
    PROVE  \E name \in {"none", "kept"}, orig \in {"blank", "kept"},
              copy \in {"blank", "text", "kept"} :
             /\ plain' = [plain EXCEPT ![p] = [plain[p] EXCEPT !.name = name, !.orig = orig,
                                                  !.copy = copy, !.good = FALSE, !.names = {}]]
             /\ IF plain[p].edited = "copy" THEN copy # "text" ELSE copy = plain[p].copy
  <1>1. PICK fails \in SUBSET {"name", "orig", "copy"} :
          plain' = [plain EXCEPT ![p] = [@ EXCEPT
                      !.name = IF plain[p].name # "none" /\ "name" \in fails
                               THEN "kept" ELSE "none",
                      !.orig = AfterScrub(plain[p].orig, "orig" \in fails),
                      !.copy = IF plain[p].edited = "copy"
                               THEN AfterScrub(plain[p].copy, "copy" \in fails)
                               ELSE plain[p].copy,
                      !.good = FALSE, !.names = {}]]
    BY Zenon DEF Drop
  <1> DEFINE name == IF plain[p].name # "none" /\ "name" \in fails THEN "kept" ELSE "none"
             orig == AfterScrub(plain[p].orig, "orig" \in fails)
             copy == IF plain[p].edited = "copy"
                     THEN AfterScrub(plain[p].copy, "copy" \in fails) ELSE plain[p].copy
  <1>2. plain' = [plain EXCEPT ![p] = [plain[p] EXCEPT !.name = name, !.orig = orig,
                                         !.copy = copy, !.good = FALSE, !.names = {}]]
    BY <1>1, Zenon
  <1>3. name \in {"none", "kept"} /\ orig \in {"blank", "kept"}
    BY Zenon DEF AfterScrub
  <1>4. /\ copy \in {"blank", "text", "kept"}
        /\ IF plain[p].edited = "copy" THEN copy # "text" ELSE copy = plain[p].copy
    BY SMT DEF AfterScrub, Plain
  <1> HIDE DEF name, orig, copy
  <1> QED
    BY <1>2, <1>3, <1>4, Zenon

LEMMA PlaintextStep ==
    ASSUME EditInv, NEW p \in Procs, CreatePlaintext(p) \/ CheckEdited(p) \/ Drop(p)
    PROVE  EditInv' /\ Guarded
  <1>1. /\ proc \in [Procs -> Proc] /\ plain \in [Procs -> Plain] /\ plain[p] \in Plain
    BY Zenon DEF EditInv, Shape
  <1>2. CASE CreatePlaintext(p)
    <2>1. CASE UNCHANGED plain /\ End(p, "done")
      BY <1>1, <1>2, <2>1, EndStep, Zenon DEF CreatePlaintext
    <2>2. CASE plain' = [plain EXCEPT ![p].name = "orig"] /\ Goto(p, "editing")
      <3>1. plain' \in [Procs -> Plain] /\ \A q \in Procs \ {p} : plain'[q] = plain[q]
        BY <1>1, <2>2, Zenon DEF Plain
      <3>2. proc[p].pc \in CreatePcs \ {"drop"} /\ UNCHANGED <<disk, lock>>
        BY <1>2, Zenon DEF CreatePlaintext, At, CreatePcs
      <3> QED
        BY <2>2, <3>1, <3>2, CreateQuietStep, Zenon
    <2> QED
      BY <1>2, <2>1, <2>2, Zenon DEF CreatePlaintext
  <1>3. CASE CheckEdited(p)
    <2>1. proc[p].pc \in CreatePcs \ {"drop"} /\ UNCHANGED <<disk, lock>>
      BY <1>3, Zenon DEF CheckEdited, At, CreatePcs
    <2>2. CASE UNCHANGED plain /\ Goto(p, "drop")
      BY <1>1, <2>1, <2>2, CreateQuietStep, ZenonT(30)
    <2>3. CASE /\ plain[p].name \in {"orig", "copy"}
               /\ plain' = [plain EXCEPT ![p].edited = plain[p].name]
               /\ Goto(p, IF Validated(p) THEN "seal" ELSE "drop")
      <3>1. /\ plain' \in [Procs -> Plain] /\ \A q \in Procs \ {p} : plain'[q] = plain[q]
            /\ plain'[p].good = plain[p].good
        BY <1>1, <2>3, Zenon DEF Plain
      <3>2. CASE Validated(p)
        <4>1. Goto(p, "seal")
          BY <2>3, <3>2, Zenon
        <4>2. proc[p].path.tier = "human" => plain'[p].good
          BY <3>1, <3>2, Zenon DEF Validated, IsHuman
        <4> QED
          BY <2>1, <3>1, <4>1, <4>2, CreateQuietStep, ZenonT(30)
      <3>3. CASE ~Validated(p)
        <4>1. Goto(p, "drop")
          BY <2>3, <3>3, Zenon
        <4> QED
          BY <2>1, <3>1, <4>1, CreateQuietStep, ZenonT(30)
      <3> QED
        BY <3>2, <3>3, Zenon
    <2> QED
      BY <1>3, <2>2, <2>3, Zenon DEF CheckEdited
  <1>4. CASE Drop(p)
    <2>1. PICK name \in {"none", "kept"}, orig \in {"blank", "kept"},
               copy \in {"blank", "text", "kept"} :
            plain' = [plain EXCEPT ![p] = [plain[p] EXCEPT !.name = name, !.orig = orig,
                                             !.copy = copy, !.good = FALSE, !.names = {}]]
      BY <1>1, <1>4, DropLeaves, Zenon
    <2>2. End(p, "done") /\ UNCHANGED <<disk, lock>>
      BY <1>4, Zenon DEF Drop
    <2> DEFINE new == [plain[p] EXCEPT !.name = name, !.orig = orig, !.copy = copy,
                                       !.good = FALSE, !.names = {}]
    <2>3. new \in Plain
      BY <1>1, <2>1, ZenonT(30) DEF Plain
    <2>4. plain' = [plain EXCEPT ![p] = new]
      BY <2>1, Zenon
    <2> HIDE DEF new
    <2>5. plain' \in [Procs -> Plain] /\ \A q \in Procs \ {p} : plain'[q] = plain[q]
      BY <1>1, <2>3, <2>4, ZenonT(30)
    <2> QED
      BY <2>2, <2>5, EndStep, ZenonT(30)
  <1> QED
    BY <1>2, <1>3, <1>4, Zenon

LEMMA EditorStep ==
    ASSUME EditInv, NEW p \in Procs, NEW left \in {"none", "orig", "copy"},
           NEW good \in BOOLEAN, NEW names \in SUBSET Names, NEW success \in BOOLEAN,
           EditorEnds(p, left, good, names, success)
    PROVE  EditInv' /\ Guarded
  <1> DEFINE orig  == IF left = "copy" THEN plain[p].orig ELSE "text"
             copy  == IF left = "copy" THEN "text" ELSE plain[p].copy
             right == success /\ good
             found == IF success THEN names ELSE {}
             new   == [plain[p] EXCEPT !.name = left, !.orig = orig, !.copy = copy,
                                       !.good = right, !.names = found]
             pc    == IF success THEN "check" ELSE "drop"
  <1>1. plain \in [Procs -> Plain] /\ plain[p] \in Plain
    BY Zenon DEF EditInv, Shape
  <1>2. /\ plain' = [plain EXCEPT ![p] = new] /\ Goto(p, pc)
        /\ UNCHANGED <<disk, lock>> /\ proc[p].pc = "editing"
    BY Zenon DEF EditorEnds, At
  <1>3. /\ {orig, copy} \subseteq {"blank", "text", "kept"}
        /\ right \in BOOLEAN /\ found \in SUBSET Names
    BY <1>1, Zenon DEF Plain
  <1> HIDE DEF orig, copy, right, found
  <1>4. new \in Plain
    BY <1>1, <1>3, Zenon DEF Plain
  <1>5. pc \in {"check", "drop"}
    BY Zenon
  <1> HIDE DEF new, pc
  <1>6. plain' \in [Procs -> Plain] /\ \A q \in Procs \ {p} : plain'[q] = plain[q]
    BY <1>1, <1>2, <1>4, ZenonT(30)
  <1>7. proc[p].pc \in CreatePcs \ {"drop"}
    BY <1>2, ZenonT(30) DEF CreatePcs
  <1> QED
    BY <1>2, <1>5, <1>6, <1>7, CreateQuietStep, ZenonT(30)

(* The create route: the new file. *)
LEMMA SealStep ==
    ASSUME EditInv, NEW p \in Procs, StartSops(p) \/ SopsEnds(p) \/ Install(p)
    PROVE  EditInv' /\ Guarded
  <1> DEFINE path == proc[p].path
             temp == TempOf(path, p)
  <1>1. /\ Shape /\ Relies(p, proc[p], disk, lock, plain[p].good)
        /\ path \in Targets /\ Temp(p) = temp
        /\ proc[p].pc \in {"seal", "sealing", "install"} /\ UNCHANGED <<plain, lock>>
    BY PathOf, Zenon DEF StartSops, SopsEnds, Install, At, CreatePcs
  <1>2. plain \in [Procs -> Plain] /\ temp \in Paths /\ DOMAIN disk = Paths
        /\ proc[p].pc \notin OverPcs /\ Absent \in File \cup {Absent}
    BY <1>1, TempFacts, Zenon DEF Shape, OverPcs
  <1>3. ASSUME NEW pc \in {"sealing", "install", "drop"}, Goto(p, pc)
        PROVE  /\ proc' \in [Procs -> Proc] /\ proc'[p].pc = pc /\ proc'[p].path = path
               /\ \A q \in Procs \ {p} : proc'[q] = proc[q]
    <2>1. [proc[p] EXCEPT !.pc = pc] \in Proc
      BY <1>1, ZenonT(30) DEF Shape, Proc
    <2> QED
      BY <1>1, <1>3, <2>1, GotoFacts, ZenonT(30)
  <1> HIDE DEF temp
  (* The step fails and drops the file. *)
  <1>4. ASSUME disk' = [disk EXCEPT ![temp] = Absent], Goto(p, "drop")
        PROVE  EditInv' /\ Guarded
    <2>1. /\ proc' \in [Procs -> Proc] /\ proc'[p].pc = "drop" /\ proc'[p].path = path
          /\ \A q \in Procs \ {p} : proc'[q] = proc[q]
      BY <1>3, <1>4, Zenon
    <2>2. Relies(p, proc'[p], disk', lock, plain[p].good)
      BY <1>1, <2>1, ZenonT(30) DEF Relies, PipedPcs, LockedPcs, CreatePcs
    <2> QED
      BY <1>1, <1>2, <1>4, <2>1, <2>2, TempStep, ZenonT(30) DEF temp
  (* The file is written, with all that Relies asks of it. *)
  <1>5. ASSUME NEW pc \in {"sealing", "install"}, Goto(p, pc), NEW f \in File,
               disk' = [disk EXCEPT ![temp] = f], f.inode = p,
               path.tier = "human" => f.good, pc = "install" => f.whole
        PROVE  EditInv' /\ Guarded
    <2>1. /\ proc' \in [Procs -> Proc] /\ proc'[p].pc = pc /\ proc'[p].path = path
          /\ \A q \in Procs \ {p} : proc'[q] = proc[q]
      BY <1>3, <1>5, Zenon
    <2>2. disk'[temp] = f
      BY <1>2, <1>5, Zenon
    <2>3. Relies(p, proc'[p], disk', lock, plain[p].good)
      BY <1>1, <1>5, <2>1, <2>2, ZenonT(30) DEF Relies, PipedPcs, LockedPcs, CreatePcs, temp
    <2>4. f \in File \cup {Absent}
      BY Zenon
    <2> QED
      BY <1>1, <1>2, <1>5, <2>1, <2>3, <2>4, TempStep, ZenonT(30) DEF temp
  <1>6. CASE StartSops(p)
    <2> DEFINE f == Written(p, FALSE, plain[p].good, plain[p].names)
    <2>1. CASE UNCHANGED disk /\ Goto(p, "drop")
      <3>1. proc[p].pc \in CreatePcs \ {"drop"}
        BY <1>1, Zenon DEF CreatePcs
      <3> QED
        BY <1>1, <1>2, <2>1, <3>1, CreateQuietStep, Zenon
    <2>2. CASE disk' = [disk EXCEPT ![Temp(p)] = f] /\ Goto(p, "sealing")
      <3>1. plain[p].good \in BOOLEAN /\ plain[p].names \in SUBSET Names
        BY <1>2, Zenon DEF Plain
      <3>2. f \in File /\ f.inode = p /\ f.good = plain[p].good
        BY <3>1, WrittenFacts, ZenonT(30)
      <3>3. path.tier = "human" => f.good
        BY <1>1, <1>6, <3>2, Zenon DEF StartSops, At, Relies
      <3> HIDE DEF f
      <3>4. disk' = [disk EXCEPT ![temp] = f]
        BY <1>1, <2>2, Zenon
      <3> QED
        BY <1>5, <2>2, <3>2, <3>3, <3>4, Zenon
    <2> QED
      BY <1>6, <2>1, <2>2, Zenon DEF StartSops
  <1>7. CASE SopsEnds(p)
    <2> DEFINE f == [disk[temp] EXCEPT !.whole = TRUE]
    <2>1. CASE disk' = [disk EXCEPT ![Temp(p)] = Absent] /\ Goto(p, "drop")
      BY <1>1, <1>4, <2>1, Zenon
    <2>2. CASE disk' = [disk EXCEPT ![Temp(p)].whole = TRUE] /\ Goto(p, "install")
      <3>1. /\ disk[temp] \in File /\ disk[temp].inode = p
            /\ path.tier = "human" => disk[temp].good
        BY <1>1, <1>7, Zenon DEF Relies, SopsEnds, At, temp
      <3>2. f \in File /\ f.inode = p /\ f.whole /\ f.good = disk[temp].good
        BY <3>1, WholeFacts, Zenon
      <3>3. disk' = [disk EXCEPT ![temp] = f]
        BY <1>1, <2>2, Zenon
      <3> HIDE DEF f
      <3> QED
        BY <1>5, <2>2, <3>1, <3>2, <3>3, Zenon
    <2> QED
      BY <1>7, <2>1, <2>2, Zenon DEF SopsEnds
  <1>8. CASE Install(p)
    <2>1. Goto(p, "drop") /\ proc[p].pc = "install" /\ At(p, "install") /\ ~At(p, "persist")
      BY <1>8, Zenon DEF Install, At
    <2>2. CASE Exists(disk, path)
      BY <1>1, <1>4, <1>8, <2>1, <2>2, ZenonT(30) DEF Install
    <2>3. CASE ~Exists(disk, path)
      <3>1. disk' = Renamed(p)
        BY <1>8, <2>3, Zenon DEF Install
      <3>2. /\ proc' \in [Procs -> Proc] /\ proc'[p].pc = "drop" /\ proc'[p].path = path
            /\ \A q \in Procs \ {p} : proc'[q] = proc[q]
        BY <1>3, <2>1, Zenon
      <3> QED
        BY <1>1, <2>1, <2>3, <3>1, <3>2, RenameStep, ZenonT(30)
    <2> QED
      BY <2>2, <2>3, Zenon
  <1> QED
    BY <1>6, <1>7, <1>8, Zenon

LEMMA SopsEditsStep ==
    ASSUME EditInv, NEW p \in Procs, NEW good \in BOOLEAN, NEW names \in SUBSET Names,
           SopsEdits(p, good, names)
    PROVE  EditInv' /\ Guarded
  <1> DEFINE path == proc[p].path
             f    == disk[path]
             g    == [f EXCEPT !.by = p, !.good = good, !.names = names]
  <1>1. /\ Shape /\ path \in Targets /\ Exists(disk, path) /\ At(p, "sops")
        /\ InPlace(path, f, proc) /\ End(p, "done") /\ UNCHANGED <<plain, lock>>
    BY PathOf, Zenon DEF SopsEdits, At, Relies, EditInv
  <1>2. CASE UNCHANGED disk
    BY <1>1, <1>2, EndStep, ZenonT(30) DEF Shape
  <1>3. CASE disk' = [disk EXCEPT ![path] = g]
    <2>1. path \in Paths /\ f \in File
      BY <1>1, TargetFacts, Zenon DEF Shape, Exists
    <2>2. /\ g \in File /\ g.by = p /\ g.inode = f.inode /\ g.whole = f.whole
      BY <2>1, Zenon DEF File, Writers
    <2> HIDE DEF g
    <2>3. /\ disk' \in [Paths -> File \cup {Absent}] /\ disk'[path] = g
          /\ \A t \in Paths \ {path} : disk'[t] = disk[t]
      BY <1>1, <1>3, <2>1, <2>2, ZenonT(30) DEF Shape
    <2>4. g # Absent
      <3>1. g.state = "file" /\ Absent.state = "absent"
        BY <2>2, Zenon DEF File, Absent
      <3> QED
        BY <3>1, Zenon
    <2>5. /\ proc' \in [Procs -> Proc] /\ proc'[p].pc = "done"
          /\ \A q \in Procs \ {p} : proc'[q] = proc[q]
          /\ Relies(p, proc'[p], disk', lock', plain'[p].good)
      BY <1>1, EndFacts, ZenonT(30)
    <2>6. Shape' /\ Alone(p)
      BY <1>1, <2>3, <2>5, Zenon DEF Shape, Alone, OverPcs
    (* A process that edits through sops has installed nothing. *)
    <2>7. InPlace(path, g, proc')
      <3>1. f.whole /\ (f.inode = "before" \/ proc[f.inode].pc \in OverPcs)
        BY <1>1, ZenonT(30) DEF InPlace, Exists
      <3>2. proc[p].pc \notin OverPcs /\ p # "before"
        BY <1>1, EditorAssumption, Zenon DEF At, OverPcs
      <3>3. f.inode # p /\ f.inode \in Procs \cup {"before"}
        BY <2>1, <3>1, <3>2, ZenonT(30) DEF File, Writers
      <3> QED
        BY <2>2, <2>5, <3>1, <3>3, Zenon DEF InPlace
    <2>8. \A t \in Targets : \/ disk'[t] = disk[t]
                             \/ disk'[t] # Absent /\ InPlace(t, disk'[t], proc')
      BY <2>3, <2>4, <2>7, TargetFacts, ZenonT(30)
    <2>9. \A q \in Procs \ {p}, t \in Targets : disk'[TempOf(t, q)] = disk[TempOf(t, q)]
      BY <1>1, <2>3, TempFacts, ZenonT(30)
    <2>10. Guarded
      <3>1. ASSUME NEW t \in Targets, disk'[t] # disk[t]
            PROVE  Exists(disk', t) /\ proc[p].path = t
        BY <2>3, <2>4, <3>1, TargetFacts, ZenonT(30) DEF Exists
      <3> QED
        BY <1>1, <3>1, Zenon DEF Guarded, Targets
    <2> QED
      BY <2>5, <2>6, <2>8, <2>9, <2>10, StepKeeps, Zenon
  <1> QED
    BY <1>2, <1>3, Zenon DEF SopsEdits

LEMMA KillStep ==
    ASSUME EditInv, NEW p \in Procs, Kill(p)
    PROVE  EditInv' /\ Guarded
  BY EndStep, Zenon DEF Kill, EditInv, Shape

-----------------------------------------------------------------------------
(* Every step, and the theorems. *)

LEMMA EditStep == EditInv /\ [Next]_vars => EditInv' /\ Guarded
  <1> SUFFICES ASSUME EditInv, [Next]_vars PROVE EditInv' /\ Guarded
    BY Zenon
  <1>1. ASSUME UNCHANGED <<disk, proc, plain, lock>> PROVE EditInv' /\ Guarded
    BY <1>1, UnchangedKeeps, GuardedIfSame, Zenon
  <1>2. ASSUME NEW p \in Procs, Human(p) PROVE EditInv' /\ Guarded
    <2>1. CASE Start(p)
      BY <2>1, StartStep, Zenon
    <2>2. CASE ReadPipedAssignment(p)
      BY <2>2, PipedQuietStep, ZenonT(30)
    <2>3. CASE Kill(p)
      BY <2>3, KillStep, Zenon
    <2>4. ASSUME NEW good \in BOOLEAN, NEW names \in SUBSET Names, SopsEdits(p, good, names)
          PROVE  EditInv' /\ Guarded
      BY <2>4, SopsEditsStep, Zenon
    <2>5. ASSUME NEW good \in BOOLEAN, NEW names \in SUBSET Names,
                 NEW left \in {"none", "orig", "copy"}, NEW success \in BOOLEAN,
                 EditorEnds(p, left, good, names, success)
          PROVE  EditInv' /\ Guarded
      BY <2>5, EditorStep, Zenon
    <2> QED
      BY <1>2, <2>1, <2>2, <2>3, <2>4, <2>5, ZenonT(30) DEF Human
  <1>3. ASSUME NEW p \in Procs, Works(p) PROVE EditInv' /\ Guarded
    <2>1. CASE TakeLock(p) \/ LookAndSpawn(p) \/ Encrypted(p) \/ Exit(p)
      BY <2>1, PipedQuietStep, ZenonT(30)
    <2>2. CASE MakeTemp(p)
      BY <2>2, MakeTempStep, Zenon
    <2>3. CASE WriteTemp(p)
      BY <2>3, WriteTempStep, Zenon
    <2>4. CASE Persist(p)
      BY <2>4, PersistStep, Zenon
    <2>5. CASE CreatePlaintext(p) \/ CheckEdited(p) \/ Drop(p)
      BY <2>5, PlaintextStep, Zenon
    <2>6. CASE StartSops(p) \/ Install(p) \/ SopsEnds(p)
      BY <2>6, SealStep, Zenon
    <2>7. CASE Feed(p) \/ Drain(p) \/ ChildReads(p) \/ ChildWrites(p) \/ ChildEnds(p)
      <3>1. UNCHANGED <<disk, proc, plain, lock>>
        BY <2>7, ZenonT(30) DEF Feed, Drain, ChildReads, ChildWrites, ChildEnds
      <3> QED
        BY <1>1, <3>1, Zenon
    <2> QED
      BY <1>3, <2>1, <2>2, <2>3, <2>4, <2>5, <2>6, <2>7, ZenonT(30) DEF Works, Command, Child
  <1>4. ASSUME NEW p \in Procs, ChildFails(p) PROVE EditInv' /\ Guarded
    <2>1. UNCHANGED <<disk, proc, plain, lock>>
      BY <1>4, Zenon DEF ChildFails
    <2> QED
      BY <1>1, <2>1, Zenon
  <1>5. CASE UNCHANGED vars
    <2>1. UNCHANGED <<disk, proc, plain, lock>>
      BY <1>5, Zenon DEF vars
    <2> QED
      BY <1>1, <2>1, Zenon
  <1> QED
    BY <1>2, <1>3, <1>4, <1>5, ZenonT(30) DEF Next

(* What is in place is always a whole ciphertext, and a human file that    *)
(* sops has not saved since holds one nonempty assignment, for any number  *)
(* of commands at the same time, killed anywhere (the renames of encrypt   *)
(* and encrypt_bytes, validate_human).                                     *)
THEOREM TargetsCompleteHolds == Spec => []TargetsComplete
  <1>1. EditInv => TargetsComplete
    BY Zenon DEF EditInv, InPlace, TargetsComplete, Targets, Exists
  <1> QED
    BY <1>1, EditInvInit, EditStep, PTL DEF Spec

(* A file in place is never removed, and is replaced only by a command     *)
(* that holds the lock of its directory or saved by the sops that edits it *)
(* (write_piped_human, persist_noclobber in encrypt).                      *)
THEOREM ReplacedUnderLockHolds == Spec => ReplacedUnderLock
  <1>1. EditInv /\ [Next]_vars => [Guarded]_vars
    BY EditStep, Zenon
  <1> QED
    BY <1>1, EditInvInit, EditStep, PTL DEF Spec, ReplacedUnderLock, Guarded

-----------------------------------------------------------------------------
(* The plaintext files. *)

SealPcs == {"seal", "sealing", "install"}
UntouchedPcs == {"new", "create", "sops"} \cup PipedPcs

(* What the plaintext file x of a process at pc can be: none before the    *)
(* editor, no copy that goes unnoticed after it, and scrubbed at the end.  *)
Scrubbed(pc, x) ==
    /\ pc \in UntouchedPcs => x = NoPlain
    /\ pc \in {"editing", "check"} => x.edited = "none"
    /\ pc = "editing" \/ (pc = "check" /\ x.name # "copy") => x.copy = "blank"
    /\ pc \in SealPcs => x.edited # "none"
    /\ pc \in SealPcs \cup {"drop"} /\ x.edited = "orig" => x.copy = "blank"
    /\ pc = "done" => /\ x.name \in {"none", "kept"} /\ x.orig # "text"
                      /\ x.edited # "none" => x.copy # "text"

PlainInv == \A p \in Procs : Scrubbed(proc[p].pc, plain[p])

(* A file that was reopened after the editor stays known as such. *)
EditedStays ==
    \A q \in Procs : plain[q].edited # "none" => plain'[q].edited # "none"

(* From pc a to pc b while the plaintext file stays as it is. *)
PcMoves(a, b) ==
    \/ a \in UntouchedPcs /\ b \in UntouchedPcs \cup {"done"}
    \/ a \in SealPcs /\ b \in SealPcs \cup {"drop"}
    \/ a = "check" /\ b = "drop"
    \/ b = "killed"

LEMMA ScrubbedMoves ==
    ASSUME NEW a, NEW b, NEW x, Scrubbed(a, x), PcMoves(a, b)
    PROVE  Scrubbed(b, x)
  <1> USE DEF UntouchedPcs, PipedPcs, SealPcs
  <1>1. CASE a \in UntouchedPcs /\ b \in UntouchedPcs \cup {"done"}
    BY <1>1, SMT DEF Scrubbed, NoPlain
  <1>2. CASE a \in SealPcs /\ b \in SealPcs \cup {"drop"}
    BY <1>2, SMT DEF Scrubbed
  <1>3. CASE a = "check" /\ b = "drop"
    BY <1>3, SMT DEF Scrubbed
  <1>4. CASE b = "killed"
    BY <1>4, SMT DEF Scrubbed
  <1> QED
    BY <1>1, <1>2, <1>3, <1>4, Zenon DEF PcMoves

LEMMA PlainSame ==
    ASSUME PlainInv, NEW p \in Procs, plain' = plain,
           \A q \in Procs \ {p} : proc'[q] = proc[q],
           PcMoves(proc[p].pc, proc'[p].pc)
    PROVE  PlainInv' /\ EditedStays
  <1>1. Scrubbed(proc'[p].pc, plain'[p])
    BY ScrubbedMoves, Zenon DEF PlainInv
  <1>2. ASSUME NEW q \in Procs \ {p} PROVE Scrubbed(proc'[q].pc, plain'[q])
    BY Zenon DEF PlainInv
  <1> QED
    BY <1>1, <1>2, Zenon DEF PlainInv, EditedStays

LEMMA PlainChanges ==
    ASSUME PlainInv, NEW p \in Procs, plain \in [Procs -> Plain], NEW x,
           plain' = [plain EXCEPT ![p] = x],
           \A q \in Procs \ {p} : proc'[q] = proc[q],
           Scrubbed(proc'[p].pc, x), plain[p].edited # "none" => x.edited # "none"
    PROVE  PlainInv' /\ EditedStays
  <1>1. plain'[p] = x /\ \A q \in Procs \ {p} : plain'[q] = plain[q]
    BY Zenon
  <1>2. ASSUME NEW q \in Procs \ {p} PROVE Scrubbed(proc'[q].pc, plain'[q])
    BY <1>1, Zenon DEF PlainInv
  <1> QED
    BY <1>1, <1>2, Zenon DEF PlainInv, EditedStays

LEMMA PlainInvInit == Init => PlainInv
  BY SMT DEF Init, NewProc, PlainInv, Scrubbed, NoPlain, UntouchedPcs, PipedPcs, SealPcs


(* What Goto and End do to the records. *)
LEMMA GotoKeeps ==
    ASSUME Shape, NEW p \in Procs, NEW pc, Goto(p, pc)
    PROVE  /\ proc'[p].pc = pc /\ proc'[p].path = proc[p].path
           /\ proc'[p].saw = proc[p].saw /\ proc'[p].rotated = proc[p].rotated
           /\ proc'[p].replaced = proc[p].replaced
           /\ \A q \in Procs \ {p} : proc'[q] = proc[q]
  <1>1. proc[p] \in Proc /\ proc' = [proc EXCEPT ![p] = [proc[p] EXCEPT !.pc = pc]]
    BY Zenon DEF Shape, Goto
  <1>2. proc'[p] = [proc[p] EXCEPT !.pc = pc] /\ \A q \in Procs \ {p} : proc'[q] = proc[q]
    BY <1>1, Zenon DEF Shape
  <1> QED
    BY <1>1, <1>2, SMT DEF Proc

LEMMA EndKeeps ==
    ASSUME Shape, NEW p \in Procs, NEW pc, End(p, pc)
    PROVE  /\ proc'[p].pc = pc /\ proc'[p].path = None /\ proc'[p].saw = proc[p].saw
           /\ \A q \in Procs \ {p} : proc'[q] = proc[q]
  <1>1. /\ proc'[p] = [NewProc EXCEPT !.pc = pc, !.saw = proc[p].saw]
        /\ \A q \in Procs \ {p} : proc'[q] = proc[q]
    BY Zenon DEF Shape, End
  <1> QED
    BY <1>1, Zenon DEF NewProc

LEMMA BeginKeeps ==
    ASSUME Shape, NEW p \in Procs, NEW path, NEW pc, NEW saw, Begin(p, path, pc, saw)
    PROVE  /\ proc'[p].pc = pc /\ proc'[p].path = path /\ proc'[p].saw = saw
           /\ \A q \in Procs \ {p} : proc'[q] = proc[q]
           /\ UNCHANGED <<disk, plain, sops, lock>>
  <1> DEFINE new == [proc[p] EXCEPT !.pc = pc, !.path = path, !.saw = saw]
  <1>1. proc[p] \in Proc /\ proc' = [proc EXCEPT ![p] = new]
    BY Zenon DEF Shape, Begin
  <1>2. new.pc = pc /\ new.path = path /\ new.saw = saw
    BY <1>1, Zenon DEF Proc
  <1> HIDE DEF new
  <1> QED
    BY <1>1, <1>2, Zenon DEF Shape, Begin

(* How a step of p that leaves the plaintext files alone moves p on. *)
LEMMA StartPc ==
    ASSUME Shape, NEW p \in Procs, Start(p)
    PROVE  /\ plain' = plain /\ \A q \in Procs \ {p} : proc'[q] = proc[q]
           /\ PcMoves(proc[p].pc, proc'[p].pc)
  <1> USE DEF UntouchedPcs, PipedPcs
  <1>1. CASE Refuse(p)
    BY <1>1, EndKeeps, Zenon DEF Refuse, At, PcMoves
  <1>2. ASSUME NEW path, NEW saw, NEW pc \in {"input", "create", "sops"},
               At(p, "new"), Begin(p, path, pc, saw)
        PROVE  /\ plain' = plain /\ \A q \in Procs \ {p} : proc'[q] = proc[q]
               /\ PcMoves(proc[p].pc, proc'[p].pc)
    BY <1>2, BeginKeeps, Zenon DEF At, PcMoves
  <1>3. ASSUME NEW source \in Sources, NEW local \in BOOLEAN, EditAgent(p, source, local)
        PROVE  /\ plain' = plain /\ \A q \in Procs \ {p} : proc'[q] = proc[q]
               /\ PcMoves(proc[p].pc, proc'[p].pc)
    <2>1. PICK path : Begin(p, path, IF Exists(disk, path) THEN "sops" ELSE "create", {})
      BY <1>3, Zenon DEF EditAgent
    <2>2. (IF Exists(disk, path) THEN "sops" ELSE "create") \in {"input", "create", "sops"}
      BY Zenon
    <2> QED
      BY <1>2, <1>3, <2>1, <2>2, Zenon DEF EditAgent
  <1>4. ASSUME NEW source \in Sources, NEW local \in BOOLEAN, NEW n \in Names,
               NEW piped \in BOOLEAN, EditHuman(p, n, source, local, piped)
        PROVE  /\ plain' = plain /\ \A q \in Procs \ {p} : proc'[q] = proc[q]
               /\ PcMoves(proc[p].pc, proc'[p].pc)
    <2> DEFINE pc == IF piped THEN "input"
                     ELSE IF Candidates(disk, n) # {} THEN "sops" ELSE "create"
    <2>1. PICK path : Begin(p, path, pc, Candidates(disk, n))
      BY <1>4, Zenon DEF EditHuman
    <2>2. pc \in {"input", "create", "sops"}
      BY Zenon
    <2> HIDE DEF pc
    <2> QED
      BY <1>2, <1>4, <2>1, <2>2, Zenon DEF EditHuman
  <1> QED
    BY <1>1, <1>3, <1>4, Zenon DEF Start

LEMMA LookKeeps ==
    ASSUME Shape, NEW p \in Procs, NEW found,
           proc' = [proc EXCEPT ![p].pc = "encrypt", ![p].rotated = found]
    PROVE  /\ proc'[p].pc = "encrypt" /\ proc'[p].rotated = found
           /\ proc'[p].path = proc[p].path /\ proc'[p].saw = proc[p].saw
           /\ \A q \in Procs \ {p} : proc'[q] = proc[q]
  <1> DEFINE new == [proc[p] EXCEPT !.pc = "encrypt", !.rotated = found]
  <1>1. proc[p] \in Proc /\ proc' = [proc EXCEPT ![p] = new]
    BY Zenon DEF Shape
  <1>2. /\ new.pc = "encrypt" /\ new.rotated = found
        /\ new.path = proc[p].path /\ new.saw = proc[p].saw
    BY <1>1, SMT DEF Proc
  <1> HIDE DEF new
  <1> QED
    BY <1>1, <1>2, Zenon DEF Shape

LEMMA ExitKeeps ==
    ASSUME Shape, NEW p \in Procs, NEW holder,
           proc' = [proc EXCEPT ![p].pc = "exit", ![p].replaced = holder]
    PROVE  /\ proc'[p].pc = "exit" /\ proc'[p].replaced = holder
           /\ proc'[p].rotated = proc[p].rotated
           /\ proc'[p].path = proc[p].path /\ proc'[p].saw = proc[p].saw
           /\ \A q \in Procs \ {p} : proc'[q] = proc[q]
  <1> DEFINE new == [proc[p] EXCEPT !.pc = "exit", !.replaced = holder]
  <1>1. proc[p] \in Proc /\ proc' = [proc EXCEPT ![p] = new]
    BY Zenon DEF Shape
  <1>2. /\ new.pc = "exit" /\ new.replaced = holder /\ new.rotated = proc[p].rotated
        /\ new.path = proc[p].path /\ new.saw = proc[p].saw
    BY <1>1, SMT DEF Proc
  <1> HIDE DEF new
  <1> QED
    BY <1>1, <1>2, Zenon DEF Shape

LEMMA PipedPc ==
    ASSUME Shape, NEW p \in Procs,
           \/ ReadPipedAssignment(p) \/ TakeLock(p) \/ LookAndSpawn(p) \/ Encrypted(p)
           \/ MakeTemp(p) \/ WriteTemp(p) \/ Persist(p) \/ Exit(p)
    PROVE  /\ plain' = plain /\ \A q \in Procs \ {p} : proc'[q] = proc[q]
           /\ PcMoves(proc[p].pc, proc'[p].pc)
  <1>1. plain' = plain /\ proc[p].pc \in PipedPcs
    BY Zenon DEF ReadPipedAssignment, TakeLock, LookAndSpawn, Encrypted, MakeTemp, WriteTemp,
                 Persist, Exit, At, PipedPcs
  <1>2. ASSUME NEW pc \in PipedPcs \cup {"done"}, proc'[p].pc = pc
        PROVE  PcMoves(proc[p].pc, proc'[p].pc)
    BY <1>1, <1>2, Zenon DEF PcMoves, UntouchedPcs
  <1>3. ASSUME NEW pc \in {"lock", "look", "store", "write", "persist"}, Goto(p, pc)
        PROVE  /\ \A q \in Procs \ {p} : proc'[q] = proc[q]
               /\ PcMoves(proc[p].pc, proc'[p].pc)
    BY <1>2, <1>3, GotoKeeps, Zenon DEF PipedPcs
  <1>4. ASSUME End(p, "done")
        PROVE  /\ \A q \in Procs \ {p} : proc'[q] = proc[q]
               /\ PcMoves(proc[p].pc, proc'[p].pc)
    BY <1>2, <1>4, EndKeeps, Zenon
  <1>5. CASE ReadPipedAssignment(p) \/ TakeLock(p) \/ Exit(p)
    BY <1>1, <1>3, <1>4, <1>5, Zenon DEF ReadPipedAssignment, TakeLock, Exit
  <1>6. CASE LookAndSpawn(p)
    BY <1>1, <1>2, <1>4, <1>6, LookKeeps, Zenon DEF LookAndSpawn, FailPiped, PipedPcs
  <1>7. CASE Encrypted(p) \/ MakeTemp(p) \/ WriteTemp(p)
    BY <1>1, <1>3, <1>4, <1>7, Zenon DEF Encrypted, MakeTemp, WriteTemp, FailPiped
  <1>8. CASE Persist(p)
    BY <1>1, <1>2, <1>4, <1>8, ExitKeeps, Zenon DEF Persist, FailPiped, PipedPcs
  <1> QED
    BY <1>5, <1>6, <1>7, <1>8, Zenon

LEMMA SealPc ==
    ASSUME Shape, NEW p \in Procs, StartSops(p) \/ SopsEnds(p) \/ Install(p)
    PROVE  /\ plain' = plain /\ \A q \in Procs \ {p} : proc'[q] = proc[q]
           /\ PcMoves(proc[p].pc, proc'[p].pc)
  <1>1. plain' = plain /\ proc[p].pc \in SealPcs
    BY Zenon DEF StartSops, SopsEnds, Install, At, SealPcs
  <1>2. \E pc \in SealPcs \cup {"drop"} : Goto(p, pc)
    BY Zenon DEF StartSops, SopsEnds, Install, SealPcs
  <1> QED
    BY <1>1, <1>2, GotoKeeps, Zenon DEF PcMoves

(* The steps that touch the plaintext file of p. *)
LEMMA PlaintextScrubs ==
    ASSUME Shape, PlainInv, NEW p \in Procs, CreatePlaintext(p) \/ CheckEdited(p) \/ Drop(p)
    PROVE  PlainInv' /\ EditedStays
  <1>1. plain \in [Procs -> Plain] /\ plain[p] \in Plain /\ Scrubbed(proc[p].pc, plain[p])
    BY Zenon DEF Shape, PlainInv
  <1>2. CASE CreatePlaintext(p)
    <2> DEFINE x == [plain[p] EXCEPT !.name = "orig"]
    <2>1. plain[p] = NoPlain /\ proc[p].pc \in UntouchedPcs
      BY <1>1, <1>2, Zenon DEF CreatePlaintext, At, Scrubbed, UntouchedPcs
    <2>2. CASE UNCHANGED plain /\ End(p, "done")
      BY <2>1, <2>2, EndKeeps, PlainSame, Zenon DEF PcMoves
    <2>3. CASE plain' = [plain EXCEPT ![p].name = "orig"] /\ Goto(p, "editing")
      <3>1. Scrubbed("editing", x) /\ x.edited = "none" /\ plain[p].edited = "none"
        <4>1. x.edited = "none" /\ plain[p].edited = "none" /\ x.copy = "blank"
          BY <2>1, SMT DEF NoPlain
        <4> HIDE DEF x
        <4> QED
          BY <4>1, SMT DEF Scrubbed, UntouchedPcs, PipedPcs, SealPcs
      <3>2. plain' = [plain EXCEPT ![p] = x]
        BY <2>3, Zenon
      <3> HIDE DEF x
      <3> QED
        <4>1. proc'[p].pc = "editing" /\ \A q \in Procs \ {p} : proc'[q] = proc[q]
          BY <2>3, GotoKeeps, Zenon
        <4> QED
          BY <1>1, <3>1, <3>2, <4>1, PlainChanges, Zenon
    <2> QED
      BY <1>2, <2>2, <2>3, Zenon DEF CreatePlaintext
  <1>3. CASE CheckEdited(p)
    <2>1. CASE UNCHANGED plain /\ Goto(p, "drop")
      <3>1. proc[p].pc = "check"
        BY <1>3, Zenon DEF CheckEdited, At
      <3>2. proc'[p].pc = "drop" /\ \A q \in Procs \ {p} : proc'[q] = proc[q]
        BY <2>1, GotoKeeps, Zenon
      <3> QED
        BY <2>1, <3>1, <3>2, PlainSame, Zenon DEF PcMoves
    <2>2. CASE /\ plain[p].name \in {"orig", "copy"}
               /\ plain' = [plain EXCEPT ![p].edited = plain[p].name]
               /\ Goto(p, IF Validated(p) THEN "seal" ELSE "drop")
      <3> DEFINE x == [plain[p] EXCEPT !.edited = plain[p].name]
                 pc == IF Validated(p) THEN "seal" ELSE "drop"
      <3>1. plain[p].edited = "none" /\ (plain[p].name # "copy" => plain[p].copy = "blank")
        BY <1>1, <1>3, Zenon DEF Scrubbed, CheckEdited, At
      <3>2. x.edited = plain[p].name /\ x.copy = plain[p].copy
        BY <1>1, SMT DEF Plain
      <3>3. pc \in {"seal", "drop"}
        BY Zenon
      <3>4. plain' = [plain EXCEPT ![p] = x] /\ Goto(p, pc)
        BY <2>2, Zenon
      <3> HIDE DEF x, pc
      <3>5. proc'[p].pc = pc /\ \A q \in Procs \ {p} : proc'[q] = proc[q]
        BY <3>4, GotoKeeps, Zenon
      <3>6. Scrubbed(pc, x)
        BY <2>2, <3>1, <3>2, <3>3, SMT DEF Scrubbed, UntouchedPcs, PipedPcs, SealPcs
      <3>7. Scrubbed(proc'[p].pc, x)
        BY <3>5, <3>6, Zenon
      <3> QED
        BY <1>1, <3>1, <3>4, <3>5, <3>7, PlainChanges, Zenon
    <2> QED
      BY <1>3, <2>1, <2>2, Zenon DEF CheckEdited
  <1>4. CASE Drop(p)
    <2>1. PICK name \in {"none", "kept"}, orig \in {"blank", "kept"},
               copy \in {"blank", "text", "kept"} :
            /\ plain' = [plain EXCEPT ![p] = [plain[p] EXCEPT !.name = name, !.orig = orig,
                                                 !.copy = copy, !.good = FALSE, !.names = {}]]
            /\ IF plain[p].edited = "copy" THEN copy # "text" ELSE copy = plain[p].copy
      BY <1>1, <1>4, DropLeaves, Zenon
    <2> DEFINE x == [plain[p] EXCEPT !.name = name, !.orig = orig, !.copy = copy,
                                     !.good = FALSE, !.names = {}]
    <2>2. /\ plain[p].edited \in {"none", "orig", "copy"}
          /\ plain[p].edited = "orig" => plain[p].copy = "blank"
      BY <1>1, <1>4, Zenon DEF Scrubbed, Plain, Drop, At
    <2>3. plain[p].edited # "none" => copy # "text"
      BY <2>1, <2>2, Zenon
    <2>4. x.name = name /\ x.orig = orig /\ x.copy = copy /\ x.edited = plain[p].edited
      BY <1>1, SMT DEF Plain
    <2>5. plain' = [plain EXCEPT ![p] = x] /\ End(p, "done")
      BY <1>4, <2>1, Zenon DEF Drop
    <2> HIDE DEF x
    <2>6. Scrubbed("done", x)
      BY <2>1, <2>3, <2>4, SMT DEF Scrubbed, UntouchedPcs, PipedPcs, SealPcs
    <2>7. proc'[p].pc = "done" /\ \A q \in Procs \ {p} : proc'[q] = proc[q]
      BY <2>5, EndKeeps, Zenon
    <2>8. Scrubbed(proc'[p].pc, x)
      BY <2>6, <2>7, Zenon
    <2> QED
      BY <1>1, <2>4, <2>5, <2>7, <2>8, PlainChanges, Zenon
  <1> QED
    BY <1>2, <1>3, <1>4, Zenon

LEMMA EditorScrubs ==
    ASSUME Shape, PlainInv, NEW p \in Procs, NEW left \in {"none", "orig", "copy"},
           NEW good \in BOOLEAN, NEW names \in SUBSET Names, NEW success \in BOOLEAN,
           EditorEnds(p, left, good, names, success)
    PROVE  PlainInv' /\ EditedStays
  <1> DEFINE orig == IF left = "copy" THEN plain[p].orig ELSE "text"
             copy == IF left = "copy" THEN "text" ELSE plain[p].copy
             x == [plain[p] EXCEPT !.name = left, !.orig = orig, !.copy = copy,
                                   !.good = success /\ good,
                                   !.names = IF success THEN names ELSE {}]
             pc == IF success THEN "check" ELSE "drop"
  <1>1. plain \in [Procs -> Plain] /\ plain[p] \in Plain /\ Scrubbed(proc[p].pc, plain[p])
    BY Zenon DEF Shape, PlainInv
  <1>2. /\ plain' = [plain EXCEPT ![p] = x] /\ Goto(p, pc) /\ proc[p].pc = "editing"
    BY Zenon DEF EditorEnds, At
  <1>3. plain[p].edited = "none" /\ plain[p].copy = "blank"
    BY <1>1, <1>2, Zenon DEF Scrubbed
  <1>4. left # "copy" => copy = "blank"
    BY <1>3, Zenon
  <1> HIDE DEF copy, orig
  <1>5. x.name = left /\ x.copy = copy /\ x.edited = "none"
    BY <1>1, <1>3, SMT DEF Plain
  <1>6. pc \in {"check", "drop"}
    BY Zenon
  <1> HIDE DEF x, pc
  <1>7. Scrubbed(pc, x)
    BY <1>4, <1>5, <1>6, SMT DEF Scrubbed, UntouchedPcs, PipedPcs, SealPcs
  <1>8. proc'[p].pc = pc /\ \A q \in Procs \ {p} : proc'[q] = proc[q]
    BY <1>2, GotoKeeps, Zenon
  <1>9. Scrubbed(proc'[p].pc, x)
    BY <1>7, <1>8, Zenon
  <1> QED
    BY <1>1, <1>2, <1>3, <1>8, <1>9, PlainChanges, Zenon

LEMMA PlainStep ==
    ASSUME EditInv, PlainInv, [Next]_vars
    PROVE  PlainInv' /\ EditedStays
  <1>0. Shape
    BY Zenon DEF EditInv
  <1>1. ASSUME UNCHANGED <<proc, plain>> PROVE PlainInv' /\ EditedStays
    BY <1>1, Zenon DEF PlainInv, EditedStays
  <1>2. ASSUME NEW p \in Procs, Human(p) PROVE PlainInv' /\ EditedStays
    <2>1. CASE Start(p)
      BY <1>0, <2>1, StartPc, PlainSame, Zenon
    <2>2. CASE ReadPipedAssignment(p)
      BY <1>0, <2>2, PipedPc, PlainSame, Zenon
    <2>3. CASE Kill(p)
      BY <1>0, <2>3, EndKeeps, PlainSame, Zenon DEF Kill, PcMoves
    <2>4. ASSUME NEW good \in BOOLEAN, NEW names \in SUBSET Names, SopsEdits(p, good, names)
          PROVE  PlainInv' /\ EditedStays
      <3>1. plain' = plain /\ proc[p].pc = "sops" /\ End(p, "done")
        BY <2>4, Zenon DEF SopsEdits, At
      <3> QED
        BY <1>0, <3>1, EndKeeps, PlainSame, Zenon DEF PcMoves, UntouchedPcs
    <2>5. ASSUME NEW good \in BOOLEAN, NEW names \in SUBSET Names,
                 NEW left \in {"none", "orig", "copy"}, NEW success \in BOOLEAN,
                 EditorEnds(p, left, good, names, success)
          PROVE  PlainInv' /\ EditedStays
      BY <1>0, <2>5, EditorScrubs, Zenon
    <2> QED
      BY <1>2, <2>1, <2>2, <2>3, <2>4, <2>5, Zenon DEF Human
  <1>3. ASSUME NEW p \in Procs, Works(p) \/ ChildFails(p) PROVE PlainInv' /\ EditedStays
    <2>1. CASE \/ TakeLock(p) \/ LookAndSpawn(p) \/ Encrypted(p) \/ Exit(p)
               \/ MakeTemp(p) \/ WriteTemp(p) \/ Persist(p)
      BY <1>0, <2>1, PipedPc, PlainSame, Zenon
    <2>2. CASE CreatePlaintext(p) \/ CheckEdited(p) \/ Drop(p)
      BY <1>0, <2>2, PlaintextScrubs, Zenon
    <2>3. CASE StartSops(p) \/ Install(p) \/ SopsEnds(p)
      BY <1>0, <2>3, SealPc, PlainSame, Zenon
    <2>4. CASE \/ Feed(p) \/ Drain(p) \/ ChildReads(p) \/ ChildWrites(p) \/ ChildEnds(p)
               \/ ChildFails(p)
      <3>1. UNCHANGED <<proc, plain>>
        BY <2>4, Zenon DEF Feed, Drain, ChildReads, ChildWrites, ChildEnds, ChildFails
      <3> QED
        BY <1>1, <3>1, Zenon
    <2> QED
      BY <1>3, <2>1, <2>2, <2>3, <2>4, Zenon DEF Works, Command, Child
  <1>4. CASE UNCHANGED vars
    BY <1>1, <1>4, Zenon DEF vars
  <1> QED
    BY <1>2, <1>3, <1>4, Zenon DEF Next

(* A command that ends by itself has removed the name of its plaintext     *)
(* file and scrubbed the file that it made and the one that it reopened,   *)
(* each unless that very call failed (PlaintextTemp::drop,                 *)
(* reopen_after_editor).                                                   *)
THEOREM PlaintextScrubbedHolds == Spec => []PlaintextScrubbed
  <1>1. PlainInv => PlaintextScrubbed
    BY Zenon DEF PlainInv, Scrubbed, PlaintextScrubbed, ViaEditor, At
  <1> QED
    BY <1>1, EditInvInit, EditStep, PlainInvInit, PlainStep, PTL DEF Spec

-----------------------------------------------------------------------------
(* The files that a scan finds. *)

LEMMA KeyParses ==
    ASSUME NEW f \in HumanFiles
    PROVE  /\ NameOf(f) \in Names /\ f.tier = "human"
           /\ ParseHumanFileName(f.file).kind = "Key"
  <1>1. PICK n \in Names : f.file = FileName(n) \/ f.file = LocalFileName(n)
    BY DEF HumanFiles, HumanFile, Path
  <1>2. f.tier = "human"
    BY DEF HumanFiles, HumanFile, Path
  <1> QED
    BY <1>1, <1>2, NameOfKey, Zenon DEF NameOf

LEMMA ScanHolds ==
    ASSUME NEW d \in [Paths -> File \cup {Absent}]
    PROVE  ~ScanFails(d)
  <1> SUFFICES ASSUME NEW f \in Listed(d) PROVE ParseHumanFileName(f.file) # Invalid
    BY Zenon DEF ScanFails
  <1>1. f \in Paths /\ f.tier = "human"
    BY Zenon DEF Listed
  <1>2. Invalid.kind = "Invalid" /\ Ignored.kind = "Ignored"
    BY Zenon DEF Invalid, Ignored
  <1>3. "Key" # "Invalid" /\ "Ignored" # "Invalid" /\ "human" # "agent"
    BY Zenon
  <1>4. CASE f \in HumanFiles
    BY <1>2, <1>3, <1>4, KeyParses, Zenon
  <1>5. CASE f \in Temps
    <2>1. PICK p \in Procs : f.file = TempFileName(p)
      BY <1>5 DEF Temps, Path
    <2> QED
      BY <1>2, <1>3, <2>1, TempIgnored, Zenon
  <1>6. CASE f \in AgentFiles
    <2>1. f.tier = "agent"
      BY <1>6 DEF AgentFiles, AgentFile, Path
    <2> QED
      BY <1>1, <1>3, <2>1, Zenon
  <1> QED
    BY <1>1, <1>4, <1>5, <1>6, Zenon DEF Paths

(* What commands leave behind never makes a scan fail: a name that a file  *)
(* can have in secrets.human.d is a key's or is ignored                    *)
(* (parse_human_file_name, the prefix of encrypt's temporary files).       *)
THEOREM ScansSucceedHolds == Spec => []ScansSucceed
  <1>1. EditInv => ScansSucceed
    BY ScanHolds, Zenon DEF EditInv, Shape, ScansSucceed
  <1> QED
    BY <1>1, EditInvInit, EditStep, PTL DEF Spec

(* The human files of one name. *)
LEMMA CandidateNames ==
    ASSUME NEW d \in [Paths -> File \cup {Absent}], NEW n
    PROVE  \A f : f \in Candidates(d, n) <=>
                     f \in HumanFiles /\ Exists(d, f) /\ NameOf(f) = n
  <1>1. ASSUME NEW f \in Candidates(d, n)
        PROVE  f \in HumanFiles /\ Exists(d, f) /\ NameOf(f) = n
    BY <1>1, CandidatesAreKeys, Zenon DEF Candidates, NameOf
  <1>2. ASSUME NEW f \in HumanFiles, Exists(d, f), NameOf(f) = n
        PROVE  f \in Candidates(d, n)
    <2>1. f \in Paths /\ DOMAIN d = Paths
      BY Zenon DEF Paths
    <2> QED
      BY <1>2, <2>1, KeyParses, Zenon DEF Candidates, Listed, NameOf
  <1> QED
    BY <1>1, <1>2, Zenon

(* Where the names load, a key has one file at most. *)
LEMMA SoleCandidate ==
    ASSUME NEW d, ~LoadFails(d), NEW n \in Names, NEW c \in Candidates(d, n)
    PROVE  Candidates(d, n) = {c}
  BY Zenon DEF LoadFails

-----------------------------------------------------------------------------
(* Who put a file in place, and what they had seen. *)

RoutePcs == PipedPcs \cup CreatePcs \cup {"sops"}
TurnPcs == {"encrypt", "store", "write", "persist"}

Edited(pl, w) == w \in Procs /\ pl[w].edited # "none"

(* While a piped command that found no file has its turn, only an editor   *)
(* command can have put one there.                                         *)
TurnOK(p) ==
    ~proc[p].rotated =>
        /\ proc[p].pc \in TurnPcs /\ Exists(disk, proc[p].path)
              => Edited(plain, disk[proc[p].path].inode)
        /\ proc[p].pc = "exit" /\ proc[p].replaced # None => Edited(plain, proc[p].replaced)

TurnInv == \A p \in Procs : TurnOK(p)

Twins(f, g) == f # g /\ NameOf(f) = NameOf(g)

(* A command saw no file but its own.  A file from before has no twin, and *)
(* gets none.                                                              *)
ScanInv ==
    /\ \A p \in Procs : proc[p].pc \in RoutePcs /\ proc[p].path \in HumanFiles
                           => proc[p].saw \subseteq {proc[p].path}
    /\ \A f \in HumanFiles : Exists(disk, f) /\ disk[f].inode \in Procs
                                => proc[disk[f].inode].saw \subseteq {f}
    /\ \A f, g \in HumanFiles :
          Twins(f, g) /\ Exists(disk, f) /\ disk[f].inode = "before" =>
             /\ ~Exists(disk, g)
             /\ \A p \in Procs : proc[p].pc \in RoutePcs => proc[p].path # g

(* What a step of p does to a file in place, and to p's record. *)
Saved(p, t) ==
    /\ t = proc[p].path /\ proc[p].pc = "sops" /\ proc'[p].pc = "done"
    /\ Exists(disk, t) /\ disk'[t].inode = disk[t].inode

Placed(p, t) ==
    /\ t = proc[p].path /\ Exists(disk', t) /\ disk'[t].inode = p
    /\ \/ proc[p].pc = "persist" /\ proc'[p].pc = "exit"
       \/ proc[p].pc = "install" /\ proc'[p].pc = "drop"

Begun(p) ==
    /\ disk' = disk /\ proc[p].pc = "new" /\ proc'[p].pc \in {"input", "create", "sops"}
    /\ proc'[p].path \in HumanFiles =>
          /\ proc'[p].saw = Candidates(disk, NameOf(proc'[p].path))
          /\ proc'[p].saw \subseteq {proc'[p].path}

Went(p) ==
    /\ proc'[p].saw = proc[p].saw
    /\ proc'[p].pc \in RoutePcs => proc[p].pc \in RoutePcs /\ proc'[p].path = proc[p].path
    /\ ~proc'[p].rotated /\ proc'[p].pc \in TurnPcs =>
          \/ ~Exists(disk, proc'[p].path)
          \/ proc[p].pc \in TurnPcs /\ ~proc[p].rotated
    /\ ~proc'[p].rotated /\ proc'[p].pc = "exit" =>
          /\ proc[p].pc = "persist" /\ ~proc[p].rotated
          /\ proc'[p].replaced = Holder(proc[p].path)

Tracks(p) ==
    /\ \A q \in Procs \ {p} : proc'[q] = proc[q]
    /\ \A t \in Targets : disk'[t] = disk[t] \/ Saved(p, t) \/ Placed(p, t)
    /\ Begun(p) \/ Went(p)

LEMMA ScanTracks ==
    ASSUME EditInv, ScanInv, NEW p \in Procs, Tracks(p)
    PROVE  ScanInv'
  <1>0. /\ \A f \in HumanFiles : f \in Targets
        /\ "before" \notin Procs
    BY EditorAssumption, Zenon DEF Targets
  <1>1. ASSUME NEW q \in Procs, proc'[q].pc \in RoutePcs, proc'[q].path \in HumanFiles
        PROVE  proc'[q].saw \subseteq {proc'[q].path}
    BY <1>1, Zenon DEF ScanInv, Tracks, Begun, Went
  <1>2. ASSUME NEW f \in HumanFiles, Exists(disk', f), disk'[f].inode \in Procs
        PROVE  proc'[disk'[f].inode].saw \subseteq {f}
    <2> DEFINE w == disk'[f].inode
    <2>1. CASE Placed(p, f)
      <3>1. /\ f = proc[p].path /\ w = p /\ proc[p].pc \in RoutePcs /\ proc[p].pc # "new"
        BY <2>1, Zenon DEF Placed, RoutePcs, PipedPcs, CreatePcs
      <3>2. proc'[p].saw = proc[p].saw
        BY <3>1, Zenon DEF Tracks, Begun, Went
      <3> QED
        BY <3>1, <3>2, Zenon DEF ScanInv
    <2>2. CASE disk'[f] = disk[f] \/ Saved(p, f)
      <3>1. Exists(disk, f) /\ disk[f].inode = w
        BY <1>2, <2>2, Zenon DEF Saved, Exists
      <3>2. proc[w].saw \subseteq {f} /\ proc[w].pc \in OverPcs
        <4>1. InPlace(f, disk[f], proc)
          BY <1>0, Zenon DEF EditInv
        <4> QED
          BY <1>0, <1>2, <3>1, <4>1, ZenonT(30) DEF ScanInv, InPlace, Exists
      <3>3. w = p => ~Begun(p)
        BY <3>2, SMT DEF Begun, OverPcs
      <3> QED
        BY <1>2, <3>2, <3>3, Zenon DEF Tracks, Went
    <2> QED
      BY <1>0, <2>1, <2>2, Zenon DEF Tracks
  <1>3. ASSUME NEW f \in HumanFiles, NEW g \in HumanFiles, Twins(f, g),
               Exists(disk', f), disk'[f].inode = "before"
        PROVE  /\ ~Exists(disk', g)
               /\ \A q \in Procs : proc'[q].pc \in RoutePcs => proc'[q].path # g
    <2>1. Exists(disk, f) /\ disk[f].inode = "before"
      BY <1>0, <1>3, Zenon DEF Tracks, Saved, Placed, Exists
    <2>2. /\ ~Exists(disk, g)
          /\ \A q \in Procs : proc[q].pc \in RoutePcs => proc[q].path # g
      BY <1>3, <2>1, Zenon DEF ScanInv
    <2>3. ~Saved(p, g) /\ ~Placed(p, g)
      BY <2>2, Zenon DEF Saved, Placed, RoutePcs, PipedPcs, CreatePcs
    <2>4. ~Exists(disk', g)
      BY <1>0, <2>2, <2>3, Zenon DEF Tracks, Exists
    <2>5. ASSUME NEW q \in Procs, proc'[q].pc \in RoutePcs, proc'[q].path = g PROVE FALSE
      <3>1. q = p /\ Begun(p)
        BY <2>2, <2>5, Zenon DEF Tracks, Went
      <3>2. f \in Candidates(disk, NameOf(g))
        BY <1>3, <2>1, CandidateNames, Zenon DEF EditInv, Shape, Twins
      <3>3. f \in {g}
        BY <2>5, <3>1, <3>2, Zenon DEF Begun
      <3> QED
        BY <1>3, <3>3, Zenon DEF Twins
    <2> QED
      BY <2>4, <2>5, Zenon
  <1> QED
    BY <1>1, <1>2, <1>3, Zenon DEF ScanInv, Twins, NameOf

LEMMA TurnTracks ==
    ASSUME EditInv, PlainInv, EditedStays, TurnInv, NEW p \in Procs, Tracks(p)
    PROVE  TurnInv'
  <1>1. \A w : Edited(plain, w) => Edited(plain', w)
    BY Zenon DEF Edited, EditedStays
  <1>2. ASSUME NEW q \in Procs, proc[q].pc \in TurnPcs
        PROVE  /\ proc[q].path \in Targets /\ proc[q].path.root \in RootSet
               /\ lock[proc[q].path.root] = q
    <2>1. proc[q].pc \in LockedPcs /\ proc[q].pc \in PipedPcs
      BY <1>2, SMT DEF TurnPcs, LockedPcs, PipedPcs
    <2> QED
      BY <2>1, PathOf, TargetFacts, Zenon DEF Relies
  <1>3. Placed(p, proc[p].path) => proc[p].pc = "persist" \/ Edited(plain', p)
    <2>1. proc[p].pc = "install" => plain[p].edited # "none"
      BY Zenon DEF PlainInv, Scrubbed, SealPcs
    <2> QED
      BY <2>1, Zenon DEF Placed, EditedStays, Edited
  <1>4. ASSUME NEW q \in Procs \ {p} PROVE TurnOK(q)'
    <2>1. proc'[q] = proc[q] /\ TurnOK(q)
      BY <1>4, Zenon DEF Tracks, TurnInv
    <2>2. ASSUME ~proc[q].rotated, proc[q].pc \in TurnPcs, Exists(disk', proc[q].path)
          PROVE  Edited(plain', disk'[proc[q].path].inode)
      <3> DEFINE t == proc[q].path
      <3>1. t \in Targets /\ lock[t.root] = q
        BY <1>2, <2>2, Zenon
      <3>2. CASE disk'[t] = disk[t] \/ Saved(p, t)
        <4>1. Exists(disk, t) /\ disk'[t].inode = disk[t].inode
          BY <2>2, <3>2, Zenon DEF Saved, Exists
        <4> QED
          BY <1>1, <2>1, <2>2, <4>1, Zenon DEF TurnOK
      <3>3. CASE Placed(p, t)
        <4>1. t = proc[p].path /\ disk'[t].inode = p
          BY <3>3, Zenon DEF Placed
        <4>2. proc[p].pc # "persist"
          BY <1>2, <1>4, <3>1, <4>1, Zenon DEF TurnPcs
        <4> QED
          BY <1>3, <3>3, <4>1, <4>2, Zenon
      <3> QED
        BY <3>1, <3>2, <3>3, Zenon DEF Tracks
    <2> QED
      BY <1>1, <2>1, <2>2, Zenon DEF TurnOK
  <1>5. TurnOK(p)'
    <2>1. TurnOK(p)
      BY Zenon DEF TurnInv
    <2>2. ASSUME ~proc'[p].rotated, proc'[p].pc \in TurnPcs, Exists(disk', proc'[p].path)
          PROVE  Edited(plain', disk'[proc'[p].path].inode)
      <3>0. proc'[p].pc \notin {"input", "create", "sops", "exit", "drop", "done"}
            /\ proc'[p].pc \in RoutePcs
        BY <2>2, SMT DEF TurnPcs, RoutePcs, PipedPcs
      <3>1. Went(p) /\ proc'[p].path = proc[p].path
        BY <3>0, Zenon DEF Tracks, Begun, Went
      <3>2. ~Saved(p, proc[p].path) /\ ~Placed(p, proc[p].path)
        BY <3>0, Zenon DEF Saved, Placed
      <3>3. CASE proc[p].pc \in TurnPcs /\ ~proc[p].rotated
        <4>1. disk'[proc[p].path] = disk[proc[p].path]
          BY <1>2, <3>2, <3>3, Zenon DEF Tracks
        <4> QED
          BY <1>1, <2>1, <2>2, <3>1, <3>3, <4>1, Zenon DEF TurnOK, Exists
      <3>4. CASE ~Exists(disk, proc[p].path)
        <4>1. proc[p].path \in Targets
          BY <3>0, <3>1, PathOf, Zenon DEF Went, RoutePcs
        <4> QED
          BY <2>2, <3>1, <3>2, <3>4, <4>1, Zenon DEF Tracks, Exists
      <3> QED
        BY <2>2, <3>1, <3>3, <3>4, Zenon DEF Went
    <2>3. ASSUME ~proc'[p].rotated, proc'[p].pc = "exit", proc'[p].replaced # None
          PROVE  Edited(plain', proc'[p].replaced)
      <3>1. /\ proc[p].pc = "persist" /\ ~proc[p].rotated
            /\ proc'[p].replaced = Holder(proc[p].path)
        BY <2>3, SMT DEF Tracks, Begun, Went
      <3>2. Exists(disk, proc[p].path) /\ proc'[p].replaced = disk[proc[p].path].inode
        BY <2>3, <3>1, Zenon DEF Holder
      <3> QED
        BY <1>1, <2>1, <3>1, <3>2, Zenon DEF TurnOK, TurnPcs
    <2> QED
      BY <2>2, <2>3, Zenon DEF TurnOK
  <1> QED
    BY <1>4, <1>5, Zenon DEF TurnInv

(* What each step of p does to them. *)
LEMMA EndTracks ==
    ASSUME Shape, NEW p \in Procs, NEW pc \in {"done", "killed"}, End(p, pc),
           \A t \in Targets : disk'[t] = disk[t] \/ Saved(p, t)
    PROVE  Tracks(p)
  <1>1. /\ proc'[p].pc = pc /\ proc'[p].saw = proc[p].saw
        /\ \A q \in Procs \ {p} : proc'[q] = proc[q]
    BY EndKeeps, Zenon
  <1>2. pc \notin RoutePcs /\ pc \notin TurnPcs /\ pc # "exit"
    BY SMT DEF RoutePcs, PipedPcs, CreatePcs, TurnPcs
  <1>3. Went(p)
    BY <1>1, <1>2, Zenon DEF Went
  <1> QED
    BY <1>1, <1>3, Zenon DEF Tracks

LEMMA GotoTracks ==
    ASSUME Shape, NEW p \in Procs, NEW pc, Goto(p, pc), pc # "exit",
           proc[p].pc \in RoutePcs, pc \in TurnPcs => proc[p].pc \in TurnPcs,
           \A t \in Targets : disk'[t] = disk[t] \/ Placed(p, t)
    PROVE  Tracks(p)
  <1>1. /\ proc'[p].pc = pc /\ proc'[p].path = proc[p].path
        /\ proc'[p].saw = proc[p].saw /\ proc'[p].rotated = proc[p].rotated
        /\ \A q \in Procs \ {p} : proc'[q] = proc[q]
    BY GotoKeeps, Zenon
  <1>2. Went(p)
    BY <1>1, Zenon DEF Went
  <1> QED
    BY <1>1, <1>2, Zenon DEF Tracks

LEMMA TempElsewhere ==
    ASSUME Shape, NEW p \in Procs, proc[p].path \in Targets, NEW f,
           disk' = [disk EXCEPT ![TempOf(proc[p].path, p)] = f]
    PROVE  \A t \in Targets : disk'[t] = disk[t]
  <1>1. \A t \in Targets : t \in Paths /\ t # TempOf(proc[p].path, p)
    BY TempFacts, TargetFacts, Zenon
  <1> QED
    BY <1>1, Zenon DEF Shape

LEMMA StartTracks ==
    ASSUME EditInv, NEW p \in Procs, Start(p)
    PROVE  Tracks(p)
  <1>0. Shape /\ disk \in [Paths -> File \cup {Absent}]
    BY Zenon DEF EditInv, Shape
  <1>1. CASE Refuse(p)
    BY <1>0, <1>1, EndTracks, Zenon DEF Refuse
  <1>2. ASSUME NEW path, NEW saw, NEW pc \in {"input", "create", "sops"},
               At(p, "new"), Begin(p, path, pc, saw),
               path \in HumanFiles => saw = Candidates(disk, NameOf(path)) /\ saw \subseteq {path}
        PROVE  Tracks(p)
    <2>1. /\ proc'[p].pc = pc /\ proc'[p].path = path /\ proc'[p].saw = saw
          /\ \A q \in Procs \ {p} : proc'[q] = proc[q]
          /\ disk' = disk /\ proc[p].pc = "new"
      BY <1>0, <1>2, BeginKeeps, ZenonT(30) DEF At
    <2>2. Begun(p)
      BY <1>2, <2>1, Zenon DEF Begun
    <2> QED
      BY <2>1, <2>2, Zenon DEF Tracks
  <1>3. ASSUME NEW source \in Sources, NEW local \in BOOLEAN, EditAgent(p, source, local)
        PROVE  Tracks(p)
    <2>1. PICK path \in EditAgentPath(source, local) :
             Begin(p, path, IF Exists(disk, path) THEN "sops" ELSE "create", {})
      BY <1>3, Zenon DEF EditAgent
    <2>2. (IF Exists(disk, path) THEN "sops" ELSE "create") \in {"input", "create", "sops"}
      BY Zenon
    <2>3. path.tier = "agent" /\ "agent" # "human"
      BY <2>1 DEF EditAgentPath, AgentFile, Path
    <2>4. path \notin HumanFiles
      BY <2>3, KeyParses, Zenon
    <2> QED
      BY <1>2, <1>3, <2>1, <2>2, <2>4, Zenon DEF EditAgent
  <1>4. ASSUME NEW source \in Sources, NEW local \in BOOLEAN, NEW n \in Names,
               NEW piped \in BOOLEAN, EditHuman(p, n, source, local, piped)
        PROVE  Tracks(p)
    <2> DEFINE pc == IF piped THEN "input"
                     ELSE IF Candidates(disk, n) # {} THEN "sops" ELSE "create"
    <2>1. PICK path \in EditHumanPath(disk, n, source, local, piped) :
             Begin(p, path, pc, Candidates(disk, n))
      BY <1>4, Zenon DEF EditHuman
    <2>2. pc \in {"input", "create", "sops"}
      BY Zenon
    <2> HIDE DEF pc
    <2>3. CASE Candidates(disk, n) = {}
      <3>1. path \in NewHumanPath(n, source, local \/ piped)
        BY <2>1, <2>3, Zenon DEF EditHumanPath
      <3>2. path.file = FileName(n) \/ path.file = LocalFileName(n)
        BY <3>1 DEF NewHumanPath, HumanFile, Path
      <3>3. NameOf(path) = n
        BY <3>2, NameOfKey, Zenon DEF NameOf
      <3> QED
        BY <1>2, <1>4, <2>1, <2>2, <2>3, <3>3, Zenon DEF EditHuman
    <2>4. CASE Candidates(disk, n) # {}
      <3>1. \E c \in Candidates(disk, n) : path \in ExistingHumanPath(c, source, local)
        <4>1. path \in UNION {ExistingHumanPath(c, source, local) : c \in Candidates(disk, n)}
          BY <2>1, <2>4, Zenon DEF EditHumanPath
        <4> QED
          BY <4>1, ZenonT(30)
      <3>2. path \in Candidates(disk, n)
        BY <3>1, Zenon DEF ExistingHumanPath
      <3>3. ~LoadFails(disk)
        BY <1>4, Zenon DEF EditHuman
      <3>4. NameOf(path) = n /\ Candidates(disk, n) = {path}
        BY <1>0, <3>2, <3>3, CandidateNames, SoleCandidate, Zenon
      <3>5. /\ Candidates(disk, n) = Candidates(disk, NameOf(path))
            /\ Candidates(disk, n) \subseteq {path} /\ At(p, "new")
        BY <1>4, <3>4, Zenon DEF EditHuman
      <3> QED
        BY <1>2, <2>1, <2>2, <3>5, Zenon
    <2> QED
      BY <2>3, <2>4, Zenon
  <1> QED
    BY <1>1, <1>3, <1>4, Zenon DEF Start

LEMMA PipedTracks ==
    ASSUME EditInv, NEW p \in Procs,
           \/ ReadPipedAssignment(p) \/ TakeLock(p) \/ LookAndSpawn(p) \/ Encrypted(p)
           \/ MakeTemp(p) \/ WriteTemp(p) \/ Exit(p)
    PROVE  Tracks(p)
  <1>0. /\ Shape /\ Temp(p) = TempOf(proc[p].path, p)
        /\ proc[p].pc \in PipedPcs => proc[p].path \in Targets
    BY PathOf, Zenon
  <1>1. proc[p].pc \in RoutePcs /\ proc[p].path \in Targets
    BY <1>0, Zenon DEF ReadPipedAssignment, TakeLock, LookAndSpawn, Encrypted, MakeTemp,
                       WriteTemp, Exit, At, RoutePcs, PipedPcs
  <1>2. ASSUME End(p, "done"),
               disk' = disk \/ \E f : disk' = [disk EXCEPT ![TempOf(proc[p].path, p)] = f]
        PROVE  Tracks(p)
    BY <1>0, <1>1, <1>2, EndTracks, TempElsewhere, Zenon
  <1>3. ASSUME NEW pc \in {"lock", "look", "store", "write", "persist"}, Goto(p, pc),
               pc \in {"store", "write", "persist"} => proc[p].pc \in TurnPcs,
               disk' = disk \/ \E f : disk' = [disk EXCEPT ![TempOf(proc[p].path, p)] = f]
        PROVE  Tracks(p)
    <2>1. pc # "exit" /\ (pc \in TurnPcs => proc[p].pc \in TurnPcs)
      BY <1>3, Zenon DEF TurnPcs
    <2> QED
      BY <1>0, <1>1, <1>3, <2>1, GotoTracks, TempElsewhere, Zenon
  <1>4. CASE ReadPipedAssignment(p)
    BY <1>2, <1>3, <1>4, SMT DEF ReadPipedAssignment
  <1>5. CASE TakeLock(p)
    BY <1>3, <1>5, SMT DEF TakeLock
  <1>6. CASE Exit(p)
    BY <1>2, <1>6, Zenon DEF Exit
  <1>7. CASE Encrypted(p)
    BY <1>2, <1>3, <1>7, Zenon DEF Encrypted, FailPiped, At, TurnPcs
  <1>8. CASE MakeTemp(p)
    BY <1>0, <1>2, <1>3, <1>8, Zenon DEF MakeTemp, FailPiped, At, TurnPcs
  <1>9. CASE WriteTemp(p)
    <2>1. \E f : disk' = [disk EXCEPT ![TempOf(proc[p].path, p)] = f]
      BY <1>0, <1>9, Zenon DEF WriteTemp
    <2> QED
      BY <1>2, <1>3, <1>9, <2>1, Zenon DEF WriteTemp, FailPiped, At, TurnPcs
  <1>10. CASE LookAndSpawn(p)
    <2>1. CASE FailPiped(p)
      BY <1>2, <1>10, <2>1, Zenon DEF LookAndSpawn, FailPiped
    <2>2. CASE proc' = [proc EXCEPT ![p].pc = "encrypt",
                                    ![p].rotated = Exists(disk, proc[p].path)]
      <3>1. /\ proc'[p].pc = "encrypt" /\ proc'[p].rotated = Exists(disk, proc[p].path)
            /\ proc'[p].path = proc[p].path /\ proc'[p].saw = proc[p].saw
            /\ \A q \in Procs \ {p} : proc'[q] = proc[q]
        BY <1>0, <2>2, LookKeeps, Zenon
      <3>2. Went(p)
        BY <1>1, <3>1, Zenon DEF Went
      <3> QED
        BY <1>10, <3>1, <3>2, Zenon DEF Tracks, LookAndSpawn
    <2> QED
      BY <1>10, <2>1, <2>2, Zenon DEF LookAndSpawn
  <1> QED
    BY <1>4, <1>5, <1>6, <1>7, <1>8, <1>9, <1>10, Zenon

(* The renames. *)
LEMMA RenamePlaces ==
    ASSUME EditInv, NEW p \in Procs, disk' = Renamed(p),
           \/ proc[p].pc = "persist" /\ proc'[p].pc = "exit"
           \/ proc[p].pc = "install" /\ proc'[p].pc = "drop"
    PROVE  \A t \in Targets : disk'[t] = disk[t] \/ Placed(p, t)
  <1>1. /\ Shape /\ Relies(p, proc[p], disk, lock, plain[p].good)
        /\ proc[p].path \in Targets
    BY PathOf, Zenon DEF PipedPcs, CreatePcs
  <1>2. /\ disk[TempOf(proc[p].path, p)] \in File
        /\ disk[TempOf(proc[p].path, p)].inode = p
    BY <1>1, Zenon DEF Relies
  <1>3. /\ disk'[proc[p].path] = disk[TempOf(proc[p].path, p)]
        /\ \A t \in Targets \ {proc[p].path} : disk'[t] = disk[t]
    BY <1>1, RenamedFacts, Zenon
  <1>4. \A f \in File : f # Absent
    <2>1. Absent.state = "absent" /\ \A f \in File : f.state = "file"
      BY Zenon DEF File, Absent
    <2> QED
      BY <2>1, ZenonT(30)
  <1>5. Placed(p, proc[p].path)
    BY <1>2, <1>3, <1>4, Zenon DEF Placed, Exists
  <1> QED
    BY <1>3, <1>5, Zenon

LEMMA PersistTracks ==
    ASSUME EditInv, NEW p \in Procs, Persist(p)
    PROVE  Tracks(p)
  <1>0. /\ Shape /\ Temp(p) = TempOf(proc[p].path, p)
        /\ proc[p].path \in Targets /\ proc[p].pc = "persist"
    BY PathOf, Zenon DEF Persist, At, PipedPcs
  <1>1. CASE disk' = [disk EXCEPT ![Temp(p)] = Absent] /\ FailPiped(p)
    BY <1>0, <1>1, EndTracks, TempElsewhere, Zenon DEF FailPiped
  <1>2. CASE /\ disk' = Renamed(p)
             /\ proc' = [proc EXCEPT ![p].pc = "exit", ![p].replaced = Holder(proc[p].path)]
    <2>1. /\ proc'[p].pc = "exit" /\ proc'[p].replaced = Holder(proc[p].path)
          /\ proc'[p].rotated = proc[p].rotated
          /\ proc'[p].path = proc[p].path /\ proc'[p].saw = proc[p].saw
          /\ \A q \in Procs \ {p} : proc'[q] = proc[q]
      BY <1>0, <1>2, ExitKeeps, Zenon
    <2>2. Went(p)
      <3>1. "exit" \notin TurnPcs /\ proc[p].pc \in RoutePcs
        BY <1>0, SMT DEF TurnPcs, RoutePcs, PipedPcs
      <3> QED
        BY <1>0, <2>1, <3>1, Zenon DEF Went
    <2> QED
      BY <1>0, <1>2, <2>1, <2>2, RenamePlaces, Zenon DEF Tracks
  <1> QED
    BY <1>1, <1>2, Zenon DEF Persist

LEMMA CreateTracks ==
    ASSUME EditInv, NEW p \in Procs,
           \/ CreatePlaintext(p) \/ CheckEdited(p) \/ StartSops(p) \/ SopsEnds(p)
           \/ Install(p) \/ Drop(p)
           \/ \E left, good, names, success : EditorEnds(p, left, good, names, success)
    PROVE  Tracks(p)
  <1>0. /\ Shape /\ Temp(p) = TempOf(proc[p].path, p)
        /\ proc[p].pc \in CreatePcs => proc[p].path \in Targets
    BY PathOf, Zenon
  <1>1. proc[p].pc \in RoutePcs /\ proc[p].path \in Targets
    BY <1>0, Zenon DEF CreatePlaintext, CheckEdited, StartSops, SopsEnds, Install, Drop,
                       EditorEnds, At, RoutePcs, CreatePcs
  <1>2. ASSUME NEW pc \in {"editing", "check", "seal", "sealing", "install", "drop"},
               Goto(p, pc), \A t \in Targets : disk'[t] = disk[t] \/ Placed(p, t)
        PROVE  Tracks(p)
    <2>1. pc # "exit" /\ pc \notin TurnPcs
      BY SMT DEF TurnPcs
    <2> QED
      BY <1>0, <1>1, <1>2, <2>1, GotoTracks, Zenon
  <1>3. CASE CreatePlaintext(p) \/ Drop(p)
    BY <1>0, <1>2, <1>3, EndTracks, Zenon DEF CreatePlaintext, Drop
  <1>4. CASE CheckEdited(p)
    BY <1>2, <1>4, Zenon DEF CheckEdited
  <1>5. CASE \E left, good, names, success : EditorEnds(p, left, good, names, success)
    BY <1>2, <1>5, Zenon DEF EditorEnds
  <1>6. CASE StartSops(p) \/ SopsEnds(p)
    <2>1. disk' = disk \/ \E f : disk' = [disk EXCEPT ![TempOf(proc[p].path, p)] = f]
      BY <1>0, <1>6, Zenon DEF StartSops, SopsEnds
    <2> QED
      BY <1>0, <1>1, <1>2, <1>6, <2>1, TempElsewhere, Zenon DEF StartSops, SopsEnds
  <1>7. CASE Install(p)
    <2>1. proc[p].pc = "install" /\ Goto(p, "drop") /\ proc'[p].pc = "drop"
      BY <1>0, <1>7, GotoKeeps, Zenon DEF Install, At
    <2>2. disk' = Renamed(p) \/ disk' = [disk EXCEPT ![Temp(p)] = Absent]
      BY <1>7, Zenon DEF Install
    <2> QED
      BY <1>0, <1>1, <1>2, <2>1, <2>2, RenamePlaces, TempElsewhere, Zenon
  <1> QED
    BY <1>3, <1>4, <1>5, <1>6, <1>7, Zenon

LEMMA SopsEditsTracks ==
    ASSUME EditInv, NEW p \in Procs, NEW good, NEW names, SopsEdits(p, good, names)
    PROVE  Tracks(p)
  <1> DEFINE path == proc[p].path
             g    == [disk[path] EXCEPT !.by = p, !.good = good, !.names = names]
  <1>1. /\ Shape /\ path \in Targets /\ Exists(disk, path) /\ proc[p].pc = "sops"
        /\ End(p, "done") /\ path \in Paths
    BY PathOf, TargetFacts, Zenon DEF SopsEdits, At, Relies
  <1>2. disk' = disk \/ disk' = [disk EXCEPT ![path] = g]
    BY Zenon DEF SopsEdits
  <1>3. g.inode = disk[path].inode
    <2>1. disk[path] \in File
      BY <1>1, Zenon DEF Shape, Exists
    <2> QED
      BY <2>1, ZenonT(30) DEF File
  <1> HIDE DEF g
  <1>4. proc'[p].pc = "done"
    BY <1>1, EndKeeps, Zenon
  <1>5. \A t \in Targets : disk'[t] = disk[t] \/ Saved(p, t)
    <2>1. disk' = disk \/ \A t \in Paths : disk'[t] = IF t = path THEN g ELSE disk[t]
      BY <1>1, <1>2, Zenon DEF Shape
    <2> QED
      BY <1>1, <1>3, <1>4, <2>1, TargetFacts, Zenon DEF Saved
  <1> QED
    BY <1>1, <1>5, EndTracks, Zenon

LEMMA HistoryInit == Init => ScanInv /\ TurnInv
  <1> SUFFICES ASSUME Init PROVE ScanInv /\ TurnInv
    BY Zenon
  <1>1. PICK human \in SUBSET HumanFiles :
           /\ \A f, g \in human : NameOf(f) = NameOf(g) => f = g
           /\ disk = [f \in Paths |-> IF f \in human THEN OldFile({NameOf(f)}) ELSE Absent]
    BY Zenon DEF Init, NameOf
  <1>2. ASSUME NEW f \in HumanFiles, Exists(disk, f) PROVE f \in human /\ disk[f].inode = "before"
    <2>1. f \in Paths
      BY Zenon DEF Paths
    <2>2. f \in human /\ disk[f] = OldFile({NameOf(f)})
      BY <1>1, <1>2, <2>1, Zenon DEF Exists
    <2> QED
      BY <2>2 DEF OldFile
  <1>3. \A p \in Procs : /\ proc[p].pc = "new" /\ proc[p].pc \notin RoutePcs
                         /\ proc[p].pc \notin TurnPcs /\ proc[p].pc # "exit"
    <2>1. \A p \in Procs : proc[p].pc = "new"
      BY Zenon DEF Init, NewProc
    <2>2. "new" \notin RoutePcs /\ "new" \notin TurnPcs /\ "new" # "exit"
      BY SMT DEF RoutePcs, PipedPcs, CreatePcs, TurnPcs
    <2> QED
      BY <2>1, <2>2, Zenon
  <1>4. "before" \notin Procs
    BY EditorAssumption, Zenon
  <1>5. TurnInv
    BY <1>3, Zenon DEF TurnInv, TurnOK
  <1>6. ScanInv
    BY <1>1, <1>2, <1>3, <1>4, Zenon DEF ScanInv, Twins
  <1> QED
    BY <1>5, <1>6, Zenon

LEMMA HistoryStep ==
    ASSUME EditInv, PlainInv, ScanInv, TurnInv, [Next]_vars
    PROVE  ScanInv' /\ TurnInv'
  <1>0. EditedStays
    BY PlainStep, Zenon
  <1>1. ASSUME NEW p \in Procs, Tracks(p) PROVE ScanInv' /\ TurnInv'
    BY <1>0, <1>1, ScanTracks, TurnTracks, Zenon
  <1>2. ASSUME UNCHANGED <<disk, proc, plain>> PROVE ScanInv' /\ TurnInv'
    <2>1. ScanInv'
      BY <1>2, Zenon DEF ScanInv, Twins, NameOf
    <2>2. TurnInv'
      BY <1>2, Zenon DEF TurnInv, TurnOK
    <2> QED
      BY <2>1, <2>2, Zenon
  <1>3. ASSUME NEW p \in Procs, Human(p) PROVE Tracks(p)
    <2>1. CASE Start(p)
      BY <2>1, StartTracks, Zenon
    <2>2. CASE ReadPipedAssignment(p)
      BY <2>2, PipedTracks, Zenon
    <2>3. CASE Kill(p)
      BY <2>3, EndTracks, Zenon DEF Kill, EditInv
    <2>4. ASSUME NEW good \in BOOLEAN, NEW names \in SUBSET Names, SopsEdits(p, good, names)
          PROVE  Tracks(p)
      BY <2>4, SopsEditsTracks, Zenon
    <2>5. ASSUME NEW good \in BOOLEAN, NEW names \in SUBSET Names,
                 NEW left \in {"none", "orig", "copy"}, NEW success \in BOOLEAN,
                 EditorEnds(p, left, good, names, success)
          PROVE  Tracks(p)
      BY <2>5, CreateTracks, Zenon
    <2> QED
      BY <1>3, <2>1, <2>2, <2>3, <2>4, <2>5, Zenon DEF Human
  <1>4. ASSUME NEW p \in Procs, Works(p) \/ ChildFails(p) PROVE ScanInv' /\ TurnInv'
    <2>1. CASE \/ TakeLock(p) \/ LookAndSpawn(p) \/ Encrypted(p) \/ Exit(p)
               \/ MakeTemp(p) \/ WriteTemp(p)
      BY <1>1, <2>1, PipedTracks, Zenon
    <2>2. CASE Persist(p)
      BY <1>1, <2>2, PersistTracks, Zenon
    <2>3. CASE \/ CreatePlaintext(p) \/ CheckEdited(p) \/ Drop(p)
               \/ StartSops(p) \/ Install(p) \/ SopsEnds(p)
      BY <1>1, <2>3, CreateTracks, Zenon
    <2>4. CASE \/ Feed(p) \/ Drain(p) \/ ChildReads(p) \/ ChildWrites(p) \/ ChildEnds(p)
               \/ ChildFails(p)
      <3>1. UNCHANGED <<disk, proc, plain>>
        BY <2>4, Zenon DEF Feed, Drain, ChildReads, ChildWrites, ChildEnds, ChildFails
      <3> QED
        BY <1>2, <3>1, Zenon
    <2> QED
      BY <1>4, <2>1, <2>2, <2>3, <2>4, Zenon DEF Works, Command, Child
  <1>5. CASE UNCHANGED vars
    BY <1>2, <1>5, Zenon DEF vars
  <1> QED
    BY <1>1, <1>3, <1>4, <1>5, Zenon DEF Next

(* A piped command that reports "created" has replaced no other piped      *)
(* command's value: between its look and its rename, under the lock, only  *)
(* an editor command can have put a file there (rotated in                 *)
(* write_piped_human).                                                     *)
THEOREM CreatedReplacedNothingHolds == Spec => []CreatedReplacedNothing
  <1>1. TurnInv => CreatedReplacedNothing
    BY Zenon DEF TurnInv, TurnOK, Edited, CreatedReplacedNothing, ViaEditor, At
  <1> QED
    BY <1>1, EditInvInit, EditStep, PlainInvInit, PlainStep, HistoryInit, HistoryStep,
       PTL DEF Spec

(* The daemon can open every key that has a file, but for one with two     *)
(* files whose writers each scanned before the other's was there (the      *)
(* scans of human in edit.rs and HumanStore::open).                        *)
THEOREM KeysStayOpenableHolds == Spec => []KeysStayOpenable
  <1>1. ASSUME EditInv, ScanInv, NEW n \in Names, NEW f \in Candidates(disk, n)
        PROVE  \/ Openable(disk, n) # {}
               \/ \E a, b \in Candidates(disk, n) : a # b /\ Missed(a, b) /\ Missed(b, a)
    <2>0. disk \in [Paths -> File \cup {Absent}]
      BY <1>1, Zenon DEF EditInv, Shape
    <2>1. CASE Candidates(disk, n) = {f}
      BY <1>1, <2>0, <2>1, ScanHolds, Zenon DEF Openable
    <2>2. ASSUME NEW g \in Candidates(disk, n), g # f
          PROVE  Missed(f, g) /\ Missed(g, f)
      <3>1. /\ f \in HumanFiles /\ g \in HumanFiles /\ Twins(f, g) /\ Twins(g, f)
            /\ Exists(disk, f) /\ Exists(disk, g)
        BY <1>1, <2>0, <2>2, CandidateNames, Zenon DEF Twins
      <3>2. disk[f].inode # "before" /\ disk[g].inode # "before"
        BY <1>1, <3>1, Zenon DEF ScanInv
      <3>3. disk[f] \in File /\ disk[g] \in File
        BY <2>0, <3>1, Zenon DEF Paths, Exists
      <3>4. disk[f].inode \in Procs /\ disk[g].inode \in Procs
        BY <3>2, <3>3, ZenonT(30) DEF File, Writers
      <3> QED
        BY <1>1, <2>2, <3>1, <3>4, Zenon DEF ScanInv, Missed
    <2> QED
      BY <1>1, <2>1, <2>2, Zenon
  <1>2. EditInv /\ ScanInv => KeysStayOpenable
    BY <1>1, Zenon DEF KeysStayOpenable
  <1> QED
    BY <1>2, EditInvInit, EditStep, PlainInvInit, PlainStep, HistoryInit, HistoryStep,
       PTL DEF Spec

-----------------------------------------------------------------------------
(* The pipes stay within their bounds. *)

LEMMA SopsRecords ==
    ASSUME NEW s \in Sops
    PROVE  /\ s.todo > 0 /\ s.stdin < PipeSize
                => [s EXCEPT !.todo = @ - 1, !.stdin = @ + 1] \in Sops
           /\ [s EXCEPT !.todo = 0, !.broken = TRUE] \in Sops
           /\ s.stdin > 0 => \A n \in 0..2 : [s EXCEPT !.stdin = @ - 1, !.owes = n] \in Sops
           /\ s.owes > 0 /\ s.stdout < PipeSize
                => [s EXCEPT !.owes = @ - 1, !.stdout = @ + 1] \in Sops
           /\ [s EXCEPT !.state = "ok"] \in Sops
           /\ [s EXCEPT !.state = "failed", !.stdin = 0, !.owes = 0] \in Sops
           /\ \A st \in {"failed", s.state} :
                 s.stdout > 0 /\ ~(s.read > MaxOutput)
                    => [s EXCEPT !.stdout = @ - 1, !.read = @ + 1, !.state = st] \in Sops
  <1>0. /\ s.todo \in 0..InputChunks /\ s.stdin \in 0..PipeSize /\ s.owes \in 0..2
        /\ s.stdout \in 0..PipeSize /\ s.read \in 0..(MaxOutput + 1)
        /\ s.state \in {"none", "running", "ok", "failed"} /\ s.broken \in BOOLEAN
    BY Zenon DEF Sops
  <1>1. /\ s.todo > 0 => s.todo - 1 \in 0..InputChunks
        /\ s.stdin < PipeSize => s.stdin + 1 \in 0..PipeSize
        /\ s.stdin > 0 => s.stdin - 1 \in 0..PipeSize
        /\ s.owes > 0 => s.owes - 1 \in 0..2
        /\ s.stdout < PipeSize => s.stdout + 1 \in 0..PipeSize
        /\ s.stdout > 0 => s.stdout - 1 \in 0..PipeSize
        /\ ~(s.read > MaxOutput) => s.read + 1 \in 0..(MaxOutput + 1)
        /\ 0 \in 0..InputChunks /\ 0 \in 0..PipeSize /\ 0 \in 0..2
    BY <1>0, EditorAssumption
  <1> QED
    BY <1>0, <1>1, Zenon DEF Sops

SopsTyped == sops \in [Procs -> Sops]

LEMMA SopsStep ==
    ASSUME SopsTyped, [Next]_vars
    PROVE  SopsTyped'
  <1> USE DEF SopsTyped
  <1>1. ASSUME NEW p \in Procs, NEW s \in Sops, sops' = [sops EXCEPT ![p] = s]
        PROVE  sops' \in [Procs -> Sops]
    BY <1>1, Zenon
  <1>2. NoSops \in Sops /\ [NoSops EXCEPT !.state = "running", !.todo = InputChunks] \in Sops
    <2>1. 0 \in 0..InputChunks /\ InputChunks \in 0..InputChunks /\ 0 \in 0..PipeSize
          /\ 0 \in 0..2 /\ 0 \in 0..(MaxOutput + 1)
      BY EditorAssumption
    <2> QED
      BY <2>1, Zenon DEF NoSops, Sops
  <1>3. ASSUME NEW p \in Procs, Human(p) PROVE sops' \in [Procs -> Sops]
    <2>1. sops' = sops \/ sops' = [sops EXCEPT ![p] = NoSops]
      BY <1>3, Zenon DEF Human, Start, Refuse, EditAgent, EditHuman, Begin,
                         ReadPipedAssignment, Kill, SopsEdits, EditorEnds
    <2> QED
      BY <1>1, <1>2, <2>1, Zenon
  <1>4. ASSUME NEW p \in Procs, Command(p) PROVE sops' \in [Procs -> Sops]
    <2>1. CASE LookAndSpawn(p)
      BY <1>1, <1>2, <2>1, Zenon DEF LookAndSpawn, FailPiped
    <2>2. CASE Feed(p)
      <3>0. sops[p] \in Sops
        BY Zenon
      <3>1. CASE sops[p].state = "running"
        BY <1>1, <2>2, <3>0, <3>1, SopsRecords, Zenon DEF Feed
      <3>2. CASE sops[p].state # "running"
        BY <1>1, <2>2, <3>0, <3>2, SopsRecords, Zenon DEF Feed
      <3> QED
        BY <3>1, <3>2, Zenon
    <2>3. CASE Encrypted(p) \/ MakeTemp(p) \/ WriteTemp(p) \/ Persist(p)
      <3>1. sops' = sops \/ sops' = [sops EXCEPT ![p] = NoSops]
        BY <2>3, Zenon DEF Encrypted, MakeTemp, WriteTemp, Persist, FailPiped
      <3> QED
        BY <1>1, <1>2, <3>1, Zenon
    <2>4. CASE \/ TakeLock(p) \/ Exit(p) \/ CreatePlaintext(p) \/ CheckEdited(p)
               \/ StartSops(p) \/ Install(p) \/ Drop(p)
      BY <2>4, Zenon DEF TakeLock, Exit, CreatePlaintext, CheckEdited, StartSops, Install, Drop
    <2> QED
      BY <1>4, <2>1, <2>2, <2>3, <2>4, Zenon DEF Command
  <1>5. ASSUME NEW p \in Procs, Drain(p) \/ Child(p) \/ ChildFails(p)
        PROVE  sops' \in [Procs -> Sops]
    <2>1. sops[p] \in Sops
      BY Zenon
    <2>2. CASE Drain(p)
      <3> DEFINE st == IF sops[p].read = MaxOutput THEN "failed" ELSE sops[p].state
                 s  == [sops[p] EXCEPT !.stdout = @ - 1, !.read = @ + 1, !.state = st]
      <3>1. sops' = [sops EXCEPT ![p] = s] /\ sops[p].stdout > 0 /\ ~(sops[p].read > MaxOutput)
        BY <2>2, Zenon DEF Drain, TooLarge
      <3>2. st \in {"failed", sops[p].state}
        BY Zenon
      <3> HIDE DEF st
      <3>3. s \in Sops
        BY <2>1, <3>1, <3>2, SopsRecords, Zenon
      <3> QED
        BY <1>1, <3>1, <3>3, Zenon
    <2>3. CASE ChildReads(p)
      <3>1. PICK n \in 0..2 : sops' = [sops EXCEPT ![p].stdin = @ - 1, ![p].owes = n]
        BY <2>3, Zenon DEF ChildReads
      <3>2. [sops[p] EXCEPT !.stdin = @ - 1, !.owes = n] \in Sops
        BY <2>1, <2>3, SopsRecords, Zenon DEF ChildReads
      <3> QED
        BY <1>1, <3>1, <3>2, Zenon
    <2>4. CASE ChildWrites(p)
      BY <1>1, <2>1, <2>4, SopsRecords, Zenon DEF ChildWrites
    <2>5. CASE ChildEnds(p)
      BY <1>1, <2>1, <2>5, SopsRecords, Zenon DEF ChildEnds
    <2>6. CASE ChildFails(p)
      BY <1>1, <2>1, <2>6, SopsRecords, Zenon DEF ChildFails
    <2>7. CASE SopsEnds(p)
      BY <2>7, Zenon DEF SopsEnds
    <2> QED
      BY <1>5, <2>2, <2>3, <2>4, <2>5, <2>6, <2>7, Zenon DEF Child
  <1>6. CASE UNCHANGED vars
    BY <1>6, Zenon DEF vars
  <1> QED
    BY <1>3, <1>4, <1>5, <1>6, Zenon DEF Next, Works

(* Every command stays within its types: the pipes to sops never hold more *)
(* than they can, and the reader never takes in more than one piece beyond *)
(* MAX_SOPS_CIPHERTEXT_BYTES (encrypt_bytes, drain_sops_stdout).           *)
THEOREM EditorTypeOKHolds == Spec => []TypeOK
  <1>1. Init => SopsTyped
    BY EditorAssumption DEF Init, NoSops, Sops, SopsTyped
  <1>2. EditInv /\ SopsTyped => TypeOK
    BY Zenon DEF EditInv, Shape, TypeOK, SopsTyped
  <1> QED
    BY <1>1, <1>2, EditInvInit, EditStep, SopsStep, PTL DEF Spec

-----------------------------------------------------------------------------
(* The tier that answers a read. *)

LEMMA StoreFiles ==
    /\ \A i \in DOMAIN AgentStore : AgentStore[i] \in AgentFiles
    /\ \A f \in AgentFiles : \E i \in DOMAIN AgentStore : AgentStore[i] = f
  <1>1. Len(Roots) \in Nat /\ DOMAIN Roots = 1..Len(Roots)
    <2>1. Roots \in Seq(Range(Roots))
      BY FilesAssumption, Zenon
    <2> QED
      BY <2>1
  <1>2. DOMAIN AgentStore = 1..(2 * Len(Roots))
    BY Zenon DEF AgentStore
  <1>3. ASSUME NEW i \in 1..(2 * Len(Roots)) PROVE AgentStore[i] \in AgentFiles
    <2>1. (i + 1) \div 2 \in DOMAIN Roots
      BY <1>1
    <2>2. Roots[(i + 1) \div 2] \in RootSet
      BY <2>1, Zenon DEF RootSet, Range
    <2>3. PICK local \in BOOLEAN : local = (i % 2 = 1)
      BY Zenon
    <2>4. AgentStore[i] = AgentFile(Roots[(i + 1) \div 2], local)
      BY <2>3, ZenonT(30) DEF AgentStore
    <2>5. \A r \in RootSet : AgentFile(r, local) \in AgentFiles
      BY DEF AgentFiles
    <2> QED
      BY <2>2, <2>4, <2>5, Zenon
  <1>4. ASSUME NEW r \in RootSet, NEW local \in BOOLEAN
        PROVE  \E i \in 1..(2 * Len(Roots)) : AgentStore[i] = AgentFile(r, local)
    <2>1. PICK k \in 1..Len(Roots) : r = Roots[k]
      BY <1>1, Zenon DEF RootSet, Range
    <2>2. /\ 2 * k - 1 \in 1..(2 * Len(Roots)) /\ 2 * k \in 1..(2 * Len(Roots))
          /\ ((2 * k - 1) + 1) \div 2 = k /\ (2 * k + 1) \div 2 = k
          /\ (2 * k - 1) % 2 = 1 /\ (2 * k) % 2 # 1
      BY <1>1
    <2>3. CASE local = TRUE
      <3> DEFINE i == 2 * k - 1
      <3>1. (i % 2 = 1) = local /\ i \in 1..(2 * Len(Roots)) /\ (i + 1) \div 2 = k
        BY <2>2, <2>3, Zenon
      <3> HIDE DEF i
      <3> QED
        BY <2>1, <3>1, Zenon DEF AgentStore
    <2>4. CASE local = FALSE
      <3> DEFINE i == 2 * k
      <3>1. (i % 2 = 1) = local /\ i \in 1..(2 * Len(Roots)) /\ (i + 1) \div 2 = k
        BY <2>2, <2>4, Zenon
      <3> HIDE DEF i
      <3> QED
        BY <2>1, <3>1, Zenon DEF AgentStore
    <2> QED
      BY <2>3, <2>4, Zenon
  <1> QED
    <2>1. \A f \in AgentFiles : \E r \in RootSet, local \in BOOLEAN : f = AgentFile(r, local)
      BY DEF AgentFiles
    <2>2. ASSUME NEW f \in AgentFiles
          PROVE  \E i \in 1..(2 * Len(Roots)) : AgentStore[i] = f
      <3>1. PICK r \in RootSet, local \in BOOLEAN : f = AgentFile(r, local)
        BY <2>1, Zenon
      <3> QED
        BY <1>4, <3>1, Zenon
    <2> QED
      BY <1>2, <1>3, <2>2, Zenon

(* Where every agent file can be read, contains and all tell the same. *)
LEMMA ContainsAgrees ==
    ASSUME NEW d, ~AgentAllFails(d), NEW n
    PROVE  AgentContains(d, n) = IF n \in AgentNames(d) THEN "yes" ELSE "no"
  <1>1. \A i \in DOMAIN AgentStore : ~Unreadable(d, AgentStore[i])
    BY StoreFiles, Zenon DEF AgentAllFails
  <1>2. n \in AgentNames(d) <=> \E f \in AgentFiles : Exists(d, f) /\ n \in d[f].names
    BY Zenon DEF AgentNames
  <1>3. \A i \in DOMAIN AgentStore : 1..i \subseteq DOMAIN AgentStore
    <2>1. DOMAIN AgentStore = 1..(2 * Len(Roots)) /\ Len(Roots) \in Nat
      BY FilesAssumption DEF AgentStore
    <2> QED
      BY <2>1
  <1>4. CASE n \in AgentNames(d)
    <2>1. PICK i \in DOMAIN AgentStore :
             Exists(d, AgentStore[i]) /\ n \in d[AgentStore[i]].names
      BY <1>2, <1>4, StoreFiles, Zenon
    <2> QED
      BY <1>1, <1>3, <1>4, <2>1, Zenon DEF AgentContains
  <1>5. CASE n \notin AgentNames(d)
    BY <1>1, <1>2, <1>5, StoreFiles, Zenon DEF AgentContains
  <1> QED
    BY <1>4, <1>5, Zenon

(* A read that answers does so from the tier that the status names,        *)
(* whatever is on disk (value and status in client/cli.rs, contains and    *)
(* all in client/agent.rs).                                                *)
THEOREM TiersAgreeHolds == Spec => []TiersAgree
  <1>1. TiersAgree
    <2> SUFFICES ASSUME NEW n \in Names, ValueTier(disk, n) \in {"agent", "human"}
                 PROVE  StatusTier(disk, n) = ValueTier(disk, n)
      BY Zenon DEF TiersAgree
    <2>1. ~LoadFails(disk) /\ ~AgentAllFails(disk)
      <3>1. CASE LoadFails(disk) \/ AgentAllFails(disk)
        <4>1. ValueTier(disk, n) = "error"
          BY <3>1, Zenon DEF ValueTier
        <4> QED
          BY <4>1, ZenonT(30)
      <3> QED
        BY <3>1, Zenon
    <2>2. AgentContains(disk, n) = IF n \in AgentNames(disk) THEN "yes" ELSE "no"
      BY <2>1, ContainsAgrees, Zenon
    <2>3. CASE n \in HumanNames(disk)
      <3>1. HumanNames(disk) \cap AgentNames(disk) = {}
        <4>1. ValueTier(disk, n) = IF HumanNames(disk) \cap AgentNames(disk) = {}
                                   THEN "human" ELSE "ambiguous"
          BY <2>1, <2>3, Zenon DEF ValueTier
        <4> QED
          BY <4>1, ZenonT(30)
      <3>2. n \notin AgentNames(disk)
        BY <2>3, <3>1, Zenon
      <3> QED
        BY <2>1, <2>2, <2>3, <3>1, <3>2, SMT DEF ValueTier, StatusTier
    <2>4. CASE n \notin HumanNames(disk)
      <3>1. n \in AgentNames(disk)
        BY <2>1, <2>4, SMT DEF ValueTier
      <3> QED
        BY <2>1, <2>2, <2>4, <3>1, SMT DEF ValueTier, StatusTier
    <2> QED
      BY <2>3, <2>4, Zenon
  <1> QED
    BY <1>1, PTL

=============================================================================
