---------------------------- MODULE SecretFiles ----------------------------
(***************************************************************************)
(* Which file backs a secret, and which file an edit command goes to: file *)
(* names (src/src/secret.rs), source roots (src/src/config.rs), the scan   *)
(* that client and daemon each make of the human-tier directories          *)
(* (src/src/client/human.rs, src/src/store.rs), the choice of a path for   *)
(* an edit (src/src/client/edit.rs) and the tier that answers a read       *)
(* (src/src/client/cli.rs, src/src/client/agent.rs).                       *)
(*                                                                         *)
(* A file name is the sequence of its parts between dots, a disk a         *)
(* function on paths that says what a file holds.                          *)
(***************************************************************************)
EXTENDS Naturals, Sequences, Functions

CONSTANTS
    Names,   \* the secret names that SecretName::parse accepts
    Roots,   \* the configured source roots, in their order
    None

ASSUME FilesAssumption ==
    /\ Roots \in Seq(Range(Roots)) /\ Roots # <<>> /\ IsInjective(Roots)
    /\ None \notin Range(Roots)

RootSet == Range(Roots)

-----------------------------------------------------------------------------
(* File names. *)

FileName(n) == <<n, "env">>
LocalFileName(n) == <<n, "local", "env">>

TempFileNameEnv(u) == <<"", u, "env">>

(* The name of a ciphertext on its way, ".secretsd-ciphertext-" and what   *)
(* tempfile appends, here u.                                               *)
TempFileName(u) == <<"", u>>

Ignored == [kind |-> "Ignored"]
Invalid == [kind |-> "Invalid"]

(* strip_suffix with a dot and x: whether it finds it, and what is left. *)
EndsWith(f, x) == Len(f) > 1 /\ f[Len(f)] = x
Stripped(f) == SubSeq(f, 1, Len(f) - 1)

ParseHumanFileName(f) ==
    LET stem  == Stripped(f)
        local == EndsWith(stem, "local")
        raw   == IF local THEN Stripped(stem) ELSE stem
    IN  IF ~EndsWith(f, "env")
        THEN Ignored
        ELSE IF Len(raw) = 1 /\ raw[1] \in Names
             THEN [kind |-> "Key", name |-> raw[1], local |-> local]
             ELSE Invalid

(* The files directly under a root, and those of its secrets.human.d. *)
Path(r, tier, f) == [root |-> r, tier |-> tier, file |-> f]

HumanFile(r, n, local) ==
    Path(r, "human", IF local THEN LocalFileName(n) ELSE FileName(n))

AgentFile(r, local) ==
    Path(r, "agent", IF local THEN LocalFileName("secrets") ELSE FileName("secrets"))

HumanFiles == {HumanFile(r, n, local) : r \in RootSet, n \in Names, local \in BOOLEAN}
AgentFiles == {AgentFile(r, local) : r \in RootSet, local \in BOOLEAN}

-----------------------------------------------------------------------------
(* The scan.  A disk maps every path to what the file holds, or Absent.    *)

Absent == [state |-> "absent"]

Exists(disk, p) == disk[p] # Absent

Listed(disk) == {p \in DOMAIN disk : p.tier = "human" /\ Exists(disk, p)}

Candidates(disk, n) ==
    {p \in Listed(disk) : LET parsed == ParseHumanFileName(p.file)
                          IN  parsed.kind = "Key" /\ parsed.name = n}

(* A name that ends in .env and is not a key's fails the whole scan. *)
ScanFails(disk) == \E p \in Listed(disk) : ParseHumanFileName(p.file) = Invalid

(* HumanNames::load also fails on the second file of a name. *)
LoadFails(disk) ==
    ScanFails(disk) \/ \E n \in Names : \E p, q \in Candidates(disk, n) : p # q

(* HumanStore::open: the sole candidate.  The set is empty when the daemon *)
(* answers NOT_HUMAN_KEY, AMBIGUOUS_KEY or INTERNAL.                       *)
Openable(disk, n) ==
    {p \in Candidates(disk, n) : ~ScanFails(disk) /\ Candidates(disk, n) = {p}}

-----------------------------------------------------------------------------
(* What an edit command goes to.  An operator returns the set of the path  *)
(* it selects, the empty set if the command is refused.  source is what    *)
(* --source names, None without the flag.                                  *)

SelectRoot(source) ==
    IF source = None
    THEN IF Len(Roots) = 1 THEN RootSet ELSE {}
    ELSE {source} \cap RootSet

IsLocal(p) == ParseHumanFileName(p.file).local

(* The flags may not contradict where the key is. *)
ExistingHumanPath(p, source, local) ==
    IF (source # None => source = p.root) /\ (local => IsLocal(p)) THEN {p} ELSE {}

NewHumanPath(n, source, local) ==
    {HumanFile(r, n, local) : r \in SelectRoot(source)}

EditHumanPathUnscanned(disk, n, source, local, piped) ==
    NewHumanPath(n, source, local \/ piped)

(* A new key from a pipe is always a local one. *)
EditHumanPath(disk, n, source, local, piped) ==
    IF Candidates(disk, n) # {}
    THEN UNION {ExistingHumanPath(p, source, local) : p \in Candidates(disk, n)}
    ELSE NewHumanPath(n, source, local \/ piped)

EditAgentPath(source, local) == {AgentFile(r, local) : r \in SelectRoot(source)}

-----------------------------------------------------------------------------
(* Reading: the agent tier's files in the order of their precedence, local *)
(* before shared in each root, and what the commands make of a name.  A    *)
(* file holds a set of names, or is one that does not parse; those that do *)
(* not exist are passed over.                                              *)

AgentStore ==
    [i \in 1..(2 * Len(Roots)) |-> AgentFile(Roots[(i + 1) \div 2], i % 2 = 1)]

Unreadable(disk, p) == Exists(disk, p) /\ ~disk[p].good

(* AgentStore::contains stops at the first file that has the name, or that *)
(* cannot be read.                                                         *)
AgentContains(disk, n) ==
    IF \E i \in DOMAIN AgentStore :
          /\ Exists(disk, AgentStore[i]) /\ n \in disk[AgentStore[i]].names
          /\ \A j \in 1..i : ~Unreadable(disk, AgentStore[j])
    THEN "yes"
    ELSE IF \E i \in DOMAIN AgentStore : Unreadable(disk, AgentStore[i])
         THEN "error" ELSE "no"

(* AgentStore::all reads every file. *)
AgentAllFails(disk) == \E p \in AgentFiles : Unreadable(disk, p)

AgentNames(disk) == UNION {disk[p].names : p \in {q \in AgentFiles : Exists(disk, q)}}

HumanNames(disk) == {n \in Names : Candidates(disk, n) # {}}

(* get and get --request. *)
StatusTier(disk, n) ==
    IF LoadFails(disk) \/ AgentContains(disk, n) = "error" THEN "error"
    ELSE IF AgentContains(disk, n) = "yes"
         THEN IF n \in HumanNames(disk) THEN "ambiguous" ELSE "agent"
         ELSE IF n \in HumanNames(disk) THEN "human" ELSE "missing"

ValueTierPreferAgent(disk, n) ==
    IF LoadFails(disk) \/ AgentAllFails(disk) THEN "error"
    ELSE IF n \in AgentNames(disk) THEN "agent"
    ELSE IF n \in HumanNames(disk) THEN "human" ELSE "missing"

(* get --value and the injection of a command's environment. *)
ValueTier(disk, n) ==
    IF LoadFails(disk) \/ AgentAllFails(disk) THEN "error"
    ELSE IF n \in HumanNames(disk)
         THEN IF HumanNames(disk) \cap AgentNames(disk) = {} THEN "human" ELSE "ambiguous"
         ELSE IF n \in AgentNames(disk) THEN "agent" ELSE "missing"

=============================================================================
