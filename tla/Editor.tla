------------------------------- MODULE Editor -------------------------------
(***************************************************************************)
(* The commands that write secret files, run at the same time by several   *)
(* processes (src/src/client/edit.rs, src/src/client/edit/new.rs).         *)
(*                                                                         *)
(* A command takes one of three routes.  "piped" stores the value of its   *)
(* standard input under a lock of the directory, replacing the file.       *)
(* "create" runs an editor on a plaintext file and installs a new file,    *)
(* without the lock.  "sops" hands an existing file over to sops.  A       *)
(* process can be killed anywhere.                                         *)
(***************************************************************************)
EXTENDS SecretFiles

CONSTANTS
    Procs,       \* processes, each runs one command
    Unknown,     \* a --source that is not configured
    InputChunks, \* the value is written to sops in so many pieces
    PipeSize,    \* how many pieces a pipe holds
    MaxOutput    \* MAX_SOPS_CIPHERTEXT_BYTES, in pieces

ASSUME EditorAssumption ==
    /\ InputChunks \in Nat /\ MaxOutput \in Nat
    /\ PipeSize \in Nat \ {0}
    /\ None \notin Procs /\ {"before", "env"} \cap Procs = {}
    /\ Unknown \notin RootSet /\ Unknown # None

VARIABLES
    disk,   \* what each path holds
    proc,   \* what each process is doing
    plain,  \* the plaintext edit file of each process
    sops,   \* the sops child of each piped command
    lock    \* the process that holds the flock of each human-tier directory

vars == <<disk, proc, plain, sops, lock>>

-----------------------------------------------------------------------------
(* Types and the initial state. *)

Writers == Procs \cup {"before"}

(* inode names the file, by the process that last wrote it: together they  *)
(* are the FileIdentity.  whole: the ciphertext is complete.  good: it     *)
(* holds what its place asks for, one nonempty assignment of the name for  *)
(* a human file, assignments for an agent file.                            *)
File == [state : {"file"}, inode : Writers, by : Writers, whole : BOOLEAN,
         good : BOOLEAN, names : SUBSET Names]

Temps == {Path(r, tier, TempFileName(p)) :
             r \in RootSet, tier \in {"human", "agent"}, p \in Procs}
Paths == HumanFiles \cup AgentFiles \cup Temps

(* saw and replaced are history: the human files that the scan found for   *)
(* the name, and whose file the command's own took the place of.           *)
Proc == [pc       : {"new", "input", "lock", "look", "encrypt", "store", "write",
                     "persist", "exit", "create", "editing", "check", "seal",
                     "sealing", "install", "drop", "sops", "done", "killed"},
         path     : Paths \cup {None},
         saw      : SUBSET Paths,
         rotated  : BOOLEAN,
         replaced : Writers \cup {None}]

NewProc == [pc |-> "new", path |-> None, saw |-> {}, rotated |-> FALSE,
            replaced |-> None]

(* name is the inode that the path leads to, edited the one reopened after *)
(* the editor.  orig and copy say whether there is text in the two inodes: *)
(* the file made by the command, and the one an editor may put in its      *)
(* place.  What the command tried to scrub or to remove, and failed to, is *)
(* kept.                                                                   *)
Plain == [name   : {"none", "orig", "copy", "kept"},
          edited : {"none", "orig", "copy"},
          orig   : {"blank", "text", "kept"},
          copy   : {"blank", "text", "kept"},
          good   : BOOLEAN,
          names  : SUBSET Names]

NoPlain == [name |-> "none", edited |-> "none", orig |-> "blank", copy |-> "blank",
            good |-> FALSE, names |-> {}]

(* todo is what the command has still to write, owes what sops has still   *)
(* to write before it reads again.                                         *)
Sops == [state : {"none", "running", "ok", "failed"},
         todo  : 0..InputChunks,
         stdin : 0..PipeSize,
         owes  : 0..2,
         stdout : 0..PipeSize,
         read  : 0..(MaxOutput + 1),
         broken : BOOLEAN]

NoSops == [state |-> "none", todo |-> 0, stdin |-> 0, owes |-> 0, stdout |-> 0,
           read |-> 0, broken |-> FALSE]

TypeOK ==
    /\ disk \in [Paths -> File \cup {Absent}]
    /\ proc \in [Procs -> Proc]
    /\ plain \in [Procs -> Plain]
    /\ sops \in [Procs -> Sops]
    /\ lock \in [RootSet -> Procs \cup {None}]

OldFile(names) == [state |-> "file", inode |-> "before", by |-> "before",
                   whole |-> TRUE, good |-> TRUE, names |-> names]

(* The files of earlier commands: at most one human file for each name. *)
Init ==
    /\ \E human \in SUBSET HumanFiles :
          /\ \A p, q \in human : ParseHumanFileName(p.file).name
                                   = ParseHumanFileName(q.file).name => p = q
          /\ disk = [p \in Paths |->
                       IF p \in human THEN OldFile({ParseHumanFileName(p.file).name})
                       ELSE Absent]
    /\ proc = [p \in Procs |-> NewProc]
    /\ plain = [p \in Procs |-> NoPlain]
    /\ sops = [p \in Procs |-> NoSops]
    /\ lock = [r \in RootSet |-> None]

At(p, pc) == proc[p].pc = pc

Goto(p, pc) == proc' = [proc EXCEPT ![p].pc = pc]

(* Of a command that has ended only what it saw matters. *)
End(p, pc) == proc' = [proc EXCEPT ![p] = [NewProc EXCEPT !.pc = pc, !.saw = proc[p].saw]]

Root(p) == proc[p].path.root

-----------------------------------------------------------------------------
(* The start of a command: it loads the names, picks its path and with it  *)
(* its route.                                                              *)

Begin(p, path, pc, saw) ==
    /\ proc' = [proc EXCEPT ![p] = [@ EXCEPT !.pc = pc, !.path = path, !.saw = saw]]
    /\ UNCHANGED <<disk, plain, sops, lock>>

Sources == RootSet \cup {None, Unknown}

(* secrets edit-human NAME.  The outcome of --source and --local, each     *)
(* given at most once, is source and local; any other line is refused.     *)
EditHuman(p, n, source, local, piped) ==
    /\ At(p, "new")
    /\ ~LoadFails(disk)
    /\ \E path \in EditHumanPath(disk, n, source, local, piped) :
          Begin(p, path, IF piped THEN "input"
                         ELSE IF Candidates(disk, n) # {} THEN "sops" ELSE "create",
                Candidates(disk, n))

(* secrets edit and secrets edit-local. *)
EditAgent(p, source, local) ==
    /\ At(p, "new")
    /\ ~LoadFails(disk)
    /\ \E path \in EditAgentPath(source, local) :
          Begin(p, path, IF Exists(disk, path) THEN "sops" ELSE "create", {})

(* Every other outcome: a command line that does not parse, names that do  *)
(* not load, flags that contradict the key's place, a root to be named.    *)
Refuse(p) ==
    /\ At(p, "new")
    /\ End(p, "done")
    /\ UNCHANGED <<disk, plain, sops, lock>>

-----------------------------------------------------------------------------
(* A value from a pipe: write_piped_human and encrypt_bytes. *)

(* Every way out of write_piped_human drops the lock. *)
Unlocked(p) == [r \in RootSet |-> IF lock[r] = p THEN None ELSE lock[r]]

FailPiped(p) ==
    /\ End(p, "done")
    /\ lock' = Unlocked(p)
    /\ sops' = [sops EXCEPT ![p] = NoSops]

(* The value is one nonempty line, or the command ends here. *)
ReadPipedAssignment(p) ==
    /\ At(p, "input")
    /\ Goto(p, "lock") \/ End(p, "done")
    /\ UNCHANGED <<disk, plain, sops, lock>>

TakeLockAnyway(p) ==
    /\ At(p, "lock")
    /\ Goto(p, "look")
    /\ UNCHANGED <<disk, plain, sops, lock>>

TakeLock(p) ==
    /\ At(p, "lock")
    /\ lock[Root(p)] = None
    /\ lock' = [lock EXCEPT ![Root(p)] = p]
    /\ Goto(p, "look")
    /\ UNCHANGED <<disk, plain, sops>>

(* path.exists, then the spawn of sops. *)
LookAndSpawn(p) ==
    /\ At(p, "look")
    /\ \/ /\ proc' = [proc EXCEPT ![p].pc = "encrypt",
                                  ![p].rotated = Exists(disk, proc[p].path)]
          /\ sops' = [sops EXCEPT ![p] = [NoSops EXCEPT !.state = "running",
                                                        !.todo = InputChunks]]
          /\ UNCHANGED lock
       \/ FailPiped(p)
    /\ UNCHANGED <<disk, plain>>

(* The main thread writes the value; a child that is gone breaks the pipe. *)
Feed(p) ==
    /\ At(p, "encrypt")
    /\ sops[p].todo > 0
    /\ IF sops[p].state = "running"
       THEN /\ sops[p].stdin < PipeSize
            /\ sops' = [sops EXCEPT ![p].todo = @ - 1, ![p].stdin = @ + 1]
       ELSE sops' = [sops EXCEPT ![p].todo = 0, ![p].broken = TRUE]
    /\ UNCHANGED <<disk, proc, plain, lock>>

TooLarge(p) == sops[p].read > MaxOutput

DrainUnlimited(p) ==
    /\ At(p, "encrypt")
    /\ sops[p].stdout > 0
    /\ sops' = [sops EXCEPT ![p].stdout = @ - 1, ![p].read = @ + 1]
    /\ UNCHANGED <<disk, proc, plain, lock>>

DrainAfterFeeding(p) ==
    /\ At(p, "encrypt")
    /\ sops[p].todo = 0
    /\ sops[p].stdout > 0 /\ ~TooLarge(p)
    /\ sops' = [sops EXCEPT ![p].stdout = @ - 1, ![p].read = @ + 1,
                            ![p].state = IF sops[p].read = MaxOutput THEN "failed" ELSE @]
    /\ UNCHANGED <<disk, proc, plain, lock>>

(* The reader thread, drain_sops_stdout: it kills a child that writes more *)
(* than the limit.                                                         *)
Drain(p) ==
    /\ At(p, "encrypt")
    /\ sops[p].stdout > 0 /\ ~TooLarge(p)
    /\ sops' = [sops EXCEPT ![p].stdout = @ - 1, ![p].read = @ + 1,
                            ![p].state = IF sops[p].read = MaxOutput THEN "failed" ELSE @]
    /\ UNCHANGED <<disk, proc, plain, lock>>

(* The child is reaped and the reader has met the end of the pipe. *)
Encrypted(p) ==
    /\ At(p, "encrypt")
    /\ sops[p].todo = 0 /\ sops[p].state \in {"ok", "failed"}
    /\ sops[p].stdout = 0 \/ TooLarge(p)
    /\ IF sops[p].state = "ok" /\ ~sops[p].broken
       THEN Goto(p, "store") /\ sops' = [sops EXCEPT ![p] = NoSops] /\ UNCHANGED lock
       ELSE FailPiped(p)
    /\ UNCHANGED <<disk, plain>>

(* The sops child: it reads a piece, writes up to two, and ends well at    *)
(* the end of its input; it may fail at any moment, but need not.          *)
ChildReads(p) ==
    /\ sops[p].state = "running" /\ sops[p].owes = 0 /\ sops[p].stdin > 0
    /\ \E n \in 0..2 : sops' = [sops EXCEPT ![p].stdin = @ - 1, ![p].owes = n]
    /\ UNCHANGED <<disk, proc, plain, lock>>

ChildWrites(p) ==
    /\ sops[p].state = "running" /\ sops[p].owes > 0 /\ sops[p].stdout < PipeSize
    /\ sops' = [sops EXCEPT ![p].owes = @ - 1, ![p].stdout = @ + 1]
    /\ UNCHANGED <<disk, proc, plain, lock>>

ChildEnds(p) ==
    /\ sops[p].state = "running"
    /\ sops[p].owes = 0 /\ sops[p].stdin = 0 /\ sops[p].todo = 0
    /\ sops' = [sops EXCEPT ![p].state = "ok"]
    /\ UNCHANGED <<disk, proc, plain, lock>>

ChildFails(p) ==
    /\ sops[p].state = "running"
    /\ sops' = [sops EXCEPT ![p].state = "failed", ![p].stdin = 0, ![p].owes = 0]
    /\ UNCHANGED <<disk, proc, plain, lock>>

-----------------------------------------------------------------------------
(* The ciphertext of a piped value replaces the file. *)

Temp(p) == Path(Root(p), proc[p].path.tier, TempFileName(p))

Written(p, whole, good, names) ==
    [state |-> "file", inode |-> p, by |-> p, whole |-> whole, good |-> good,
     names |-> names]

NameOf(path) == ParseHumanFileName(path.file).name

(* The ciphertext gets a file of its own in the target's directory. *)
MakeTemp(p) ==
    /\ At(p, "store")
    /\ \/ /\ disk' = [disk EXCEPT ![Temp(p)] = Written(p, FALSE, TRUE, {NameOf(proc[p].path)})]
          /\ Goto(p, "write")
          /\ UNCHANGED <<sops, lock>>
       \/ UNCHANGED disk /\ FailPiped(p)
    /\ UNCHANGED plain

WriteTemp(p) ==
    /\ At(p, "write")
    /\ \/ /\ disk' = [disk EXCEPT ![Temp(p)].whole = TRUE]
          /\ Goto(p, "persist")
          /\ UNCHANGED <<sops, lock>>
       \/ disk' = [disk EXCEPT ![Temp(p)] = Absent] /\ FailPiped(p)
    /\ UNCHANGED plain

Holder(path) == IF Exists(disk, path) THEN disk[path].inode ELSE None

Renamed(p) == [disk EXCEPT ![proc[p].path] = disk[Temp(p)], ![Temp(p)] = Absent]

(* rename: the new file takes the path, whatever was there. *)
Persist(p) ==
    /\ At(p, "persist")
    /\ \/ /\ disk' = Renamed(p)
          /\ proc' = [proc EXCEPT ![p].pc = "exit", ![p].replaced = Holder(proc[p].path)]
          /\ UNCHANGED <<sops, lock>>
       \/ disk' = [disk EXCEPT ![Temp(p)] = Absent] /\ FailPiped(p)
    /\ UNCHANGED plain

(* The command prints what it did, "rotated" or "created", and ends. *)
Exit(p) ==
    /\ At(p, "exit")
    /\ End(p, "done")
    /\ lock' = Unlocked(p)
    /\ UNCHANGED <<disk, plain, sops>>

-----------------------------------------------------------------------------
(* A new file from an editor: create and encrypt. *)

CreatePlaintext(p) ==
    /\ At(p, "create")
    /\ \/ plain' = [plain EXCEPT ![p].name = "orig"] /\ Goto(p, "editing")
       \/ UNCHANGED plain /\ End(p, "done")
    /\ UNCHANGED <<disk, sops, lock>>

IsHuman(p) == proc[p].path.tier = "human"

(* What a file may turn out to hold: a human file its own name, a file     *)
(* that does not parse nothing.                                            *)
Fits(p, good, names) ==
    IF IsHuman(p) THEN names = {NameOf(proc[p].path)} ELSE ~good => names = {}

(* The editor writes the file in place, or puts a copy at its path, or     *)
(* leaves none there that can be reopened; a status other than success     *)
(* ends the command.                                                       *)
EditorEnds(p, left, good, names, success) ==
    /\ At(p, "editing")
    /\ Fits(p, good, names)
    /\ plain' = [plain EXCEPT ![p] = [@ EXCEPT
                    !.name = left,
                    !.orig = IF left = "copy" THEN plain[p].orig ELSE "text",
                    !.copy = IF left = "copy" THEN "text" ELSE plain[p].copy,
                    !.good = success /\ good,
                    !.names = IF success THEN names ELSE {}]]
    /\ Goto(p, IF success THEN "check" ELSE "drop")
    /\ UNCHANGED <<disk, sops, lock>>

CheckEditedUnvalidated(p) ==
    /\ At(p, "check")
    /\ \/ /\ plain[p].name \in {"orig", "copy"}
          /\ plain' = [plain EXCEPT ![p].edited = plain[p].name]
          /\ Goto(p, "seal")
       \/ UNCHANGED plain /\ Goto(p, "drop")
    /\ UNCHANGED <<disk, sops, lock>>

(* validate_human: a human key needs one nonempty assignment. *)
Validated(p) == IsHuman(p) => plain[p].good

(* reopen_after_editor, then the validation. *)
CheckEdited(p) ==
    /\ At(p, "check")
    /\ \/ /\ plain[p].name \in {"orig", "copy"}
          /\ plain' = [plain EXCEPT ![p].edited = plain[p].name]
          /\ Goto(p, IF Validated(p) THEN "seal" ELSE "drop")
       \/ UNCHANGED plain /\ Goto(p, "drop")
    /\ UNCHANGED <<disk, sops, lock>>

StartSops(p) ==
    /\ At(p, "seal")
    /\ \/ /\ disk' = [disk EXCEPT ![Temp(p)] = Written(p, FALSE, plain[p].good,
                                                       plain[p].names)]
          /\ Goto(p, "sealing")
       \/ UNCHANGED disk /\ Goto(p, "drop")
    /\ UNCHANGED <<plain, sops, lock>>

SopsEnds(p) ==
    /\ At(p, "sealing")
    /\ \/ disk' = [disk EXCEPT ![Temp(p)].whole = TRUE] /\ Goto(p, "install")
       \/ disk' = [disk EXCEPT ![Temp(p)] = Absent] /\ Goto(p, "drop")
    /\ UNCHANGED <<plain, sops, lock>>

InstallClobbering(p) ==
    /\ At(p, "install")
    /\ disk' = Renamed(p)
    /\ proc' = [proc EXCEPT ![p].pc = "drop", ![p].replaced = Holder(proc[p].path)]
    /\ UNCHANGED <<plain, sops, lock>>

(* persist_noclobber: the path must still be free. *)
Install(p) ==
    /\ At(p, "install")
    /\ disk' = IF Exists(disk, proc[p].path)
               THEN [disk EXCEPT ![Temp(p)] = Absent]
               ELSE Renamed(p)
    /\ Goto(p, "drop")
    /\ UNCHANGED <<plain, sops, lock>>

(* scrub gives up at the first call that fails. *)
AfterScrub(text, fails) == IF text = "text" /\ fails THEN "kept" ELSE "blank"

DropOriginalOnly(p) ==
    /\ At(p, "drop")
    /\ \E fails \in SUBSET {"name", "orig"} :
          plain' = [plain EXCEPT ![p] = [@ EXCEPT
                      !.name = IF plain[p].name # "none" /\ "name" \in fails
                               THEN "kept" ELSE "none",
                      !.orig = AfterScrub(plain[p].orig, "orig" \in fails),
                      !.good = FALSE, !.names = {}]]
    /\ End(p, "done")
    /\ UNCHANGED <<disk, sops, lock>>

(* PlaintextTemp::drop scrubs the file it reopened and the one it made,    *)
(* and removes whatever has the name.  What fails is passed over.          *)
Drop(p) ==
    /\ At(p, "drop")
    /\ \E fails \in SUBSET {"name", "orig", "copy"} :
          plain' = [plain EXCEPT ![p] = [@ EXCEPT
                      !.name = IF plain[p].name # "none" /\ "name" \in fails
                               THEN "kept" ELSE "none",
                      !.orig = AfterScrub(plain[p].orig, "orig" \in fails),
                      !.copy = IF plain[p].edited = "copy"
                               THEN AfterScrub(plain[p].copy, "copy" \in fails)
                               ELSE plain[p].copy,
                      !.good = FALSE, !.names = {}]]
    /\ End(p, "done")
    /\ UNCHANGED <<disk, sops, lock>>

-----------------------------------------------------------------------------
(* An existing file edited by sops, which takes over the process: it saves *)
(* in place, or changes nothing.                                           *)
SopsEdits(p, good, names) ==
    LET path == proc[p].path IN
    /\ At(p, "sops")
    /\ Fits(p, good, names)
    /\ \/ disk' = [disk EXCEPT ![path] = [@ EXCEPT !.by = p, !.good = good,
                                                   !.names = names]]
       \/ UNCHANGED disk
    /\ End(p, "done")
    /\ UNCHANGED <<plain, sops, lock>>

(* A process that is killed drops its lock and leaves its files behind. *)
Kill(p) ==
    /\ proc[p].pc \notin {"new", "done", "killed"}
    /\ End(p, "killed")
    /\ lock' = Unlocked(p)
    /\ sops' = [sops EXCEPT ![p] = NoSops]
    /\ UNCHANGED <<disk, plain>>

-----------------------------------------------------------------------------
(* The whole system. *)

Start(p) ==
    \/ Refuse(p)
    \/ \E source \in Sources, local \in BOOLEAN :
          \/ EditAgent(p, source, local)
          \/ \E n \in Names, piped \in BOOLEAN : EditHuman(p, n, source, local, piped)

(* What the command's own threads do. *)
Command(p) ==
    \/ TakeLock(p) \/ LookAndSpawn(p) \/ Feed(p) \/ Encrypted(p)
    \/ MakeTemp(p) \/ WriteTemp(p) \/ Persist(p) \/ Exit(p)
    \/ CreatePlaintext(p) \/ CheckEdited(p) \/ StartSops(p) \/ Install(p) \/ Drop(p)

(* What sops does unless it fails or is stuck. *)
Child(p) == ChildReads(p) \/ ChildWrites(p) \/ ChildEnds(p) \/ SopsEnds(p)

Human(p) ==
    \/ Start(p) \/ ReadPipedAssignment(p) \/ Kill(p)
    \/ \E good \in BOOLEAN, names \in SUBSET Names :
          \/ SopsEdits(p, good, names)
          \/ \E left \in {"none", "orig", "copy"}, success \in BOOLEAN :
                EditorEnds(p, left, good, names, success)

Works(p) == Command(p) \/ Drain(p) \/ Child(p)

Next ==
    \E p \in Procs : Human(p) \/ Works(p) \/ ChildFails(p)

Spec == Init /\ [][Next]_vars

(* Of a command's two threads and its sops, one that can go on does at     *)
(* last; nothing is asked of whoever types, pipes or kills, and no failure *)
(* is relied on.                                                           *)
FairSpec == Spec /\ \A p \in Procs : WF_vars(Works(p))

-----------------------------------------------------------------------------
(* Properties. *)

(* Whatever is killed, fails or runs at the same time, a key's file and an *)
(* agent file is a whole ciphertext, and a human file that was not saved   *)
(* by sops itself holds one nonempty assignment (validate_human,           *)
(* read_piped_assignment and the renames of encrypt and encrypt_bytes).    *)
TargetsComplete ==
    \A path \in HumanFiles \cup AgentFiles :
        Exists(disk, path) =>
            /\ disk[path].whole
            /\ path.tier = "human" /\ disk[path].by = disk[path].inode => disk[path].good

(* The files that commands leave behind never make the scan of the client  *)
(* or the daemon fail: every file they put in secrets.human.d parses as a  *)
(* key or is ignored (parse_human_file_name).                              *)
ScansSucceed == ~ScanFails(disk)

(* A file that exists is never removed, and is replaced only by a piped    *)
(* command that holds the lock of its directory or saved by the sops that  *)
(* edits it; a command that creates a file replaces none                   *)
(* (persist_noclobber in encrypt, the lock of write_piped_human).          *)
ReplacedUnderLock ==
    [][\A path \in HumanFiles \cup AgentFiles :
          Exists(disk, path) /\ disk'[path] # disk[path] =>
             /\ Exists(disk', path)
             /\ \E p \in Procs : /\ proc[p].path = path
                                 /\ \/ At(p, "sops")
                                    \/ At(p, "persist") /\ lock[path.root] = p]_vars

ViaEditor(p) == plain[p].edited # "none"

(* Piped commands take turns: one that reports "created" replaced no       *)
(* other's value (rotated in write_piped_human).  Only a file that an      *)
(* editor command installed in between can be there.                       *)
CreatedReplacedNothing ==
    \A p \in Procs :
        At(p, "exit") /\ ~proc[p].rotated /\ proc[p].replaced # None =>
            proc[p].replaced \in Procs /\ ViaEditor(proc[p].replaced)

Missed(f, g) == disk[f].inode \in Procs /\ g \notin proc[disk[f].inode].saw

(* The daemon can open every key that has a file (HumanStore::open).  The  *)
(* exception is a key with two files, each written by a command that had   *)
(* scanned before the other file was there (human in edit.rs).             *)
KeysStayOpenable ==
    \A n \in Names :
        Candidates(disk, n) = {} \/ Openable(disk, n) # {} \/
            \E f, g \in Candidates(disk, n) : f # g /\ Missed(f, g) /\ Missed(g, f)

(* Once a command has ended by itself, wherever it failed, the name of its *)
(* plaintext file and the text in the file that it made and in the one     *)
(* that it reopened are gone, or were kept by a failure of their own       *)
(* removal or scrub: none spares the calls after it (PlaintextTemp::drop). *)
PlaintextScrubbed ==
    \A p \in Procs :
        At(p, "done") =>
            /\ plain[p].name \in {"none", "kept"} /\ plain[p].orig # "text"
            /\ ViaEditor(p) => plain[p].copy # "text"

(* What docs/design.md says of the plaintext file of a new secret, "The    *)
(* file is scrubbed and unlinked on every exit path": no text is left that *)
(* the command did not try to scrub, also in a file that an editor put in  *)
(* the place of the one it made (run_editor, PlaintextTemp::drop).         *)
ScrubbedOnEveryExit ==
    \A p \in Procs :
        At(p, "done") =>
            /\ plain[p].name \in {"none", "kept"}
            /\ "text" \notin {plain[p].orig, plain[p].copy}

(* A read answers from the tier that the status names: never from one tier *)
(* while the other has the key too (value, status and request_grant in     *)
(* client/cli.rs).                                                         *)
TiersAgree ==
    \A n \in Names :
        ValueTier(disk, n) \in {"agent", "human"} => StatusTier(disk, n) = ValueTier(disk, n)

(* A command never hangs on its own account: while nobody has to type, it  *)
(* ends, so that the pipes to sops never block each other and the lock is  *)
(* always given back (encrypt_bytes, write_piped_human).                   *)
CommandsEnd ==
    \A p \in Procs :
        []<>(proc[p].pc \in {"new", "input", "editing", "sops", "done", "killed"})

=============================================================================
