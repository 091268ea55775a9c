------------------------------- MODULE Grants -------------------------------
(***************************************************************************)
(* Who may hold a grant, and the grants themselves (src/src/grants.rs):    *)
(* the registry of session tokens and learned agent terminals, the scope   *)
(* that a request resolves to, and the table of live grants.               *)
(*                                                                         *)
(* Each operator is one method of Registry or GrantTable, written as a     *)
(* function from the table before the call to the table after it, because  *)
(* the daemon composes several of them inside one critical section.        *)
(*                                                                         *)
(* An Instant is modelled by its age, capped at the largest age the code   *)
(* distinguishes; the daemon's clock step makes every age grow.            *)
(***************************************************************************)
EXTENDS Naturals, FiniteSets

CONSTANTS
    Tokens,     \* session tokens (32 random bytes, a model value here)
    Sessions,   \* session names supplied by the harness
    Ttys,       \* terminal device paths
    Keys,       \* secret names that have been asked for
    CapKeys,    \* the CAP_ names among them
    None,       \* an absent Option
    MaxGrant    \* config.max_grant, the backstop age of a grant

ASSUME GrantsAssumption ==
    /\ CapKeys \subseteq Keys
    /\ Tokens \cap Ttys = {}
    /\ None \notin Tokens \cup Sessions \cup Ttys \cup Keys
    /\ MaxGrant \in Nat

(* Scope::Session(token) or Scope::Tty{tty, boot_id}; the boot id is fixed  *)
(* for the life of the daemon and is left out.                             *)
Scopes == Tokens \cup Ttys

-----------------------------------------------------------------------------
(* Registry.  session[t] is the session a token is bound to; liveRoots are *)
(* the bound tokens whose pinned root process is still running.            *)

Registry == [session   : [Tokens -> Sessions \cup {None}],
             liveRoots : SUBSET Tokens,
             agentTtys : SUBSET Ttys]

NewRegistry == [session   |-> [t \in Tokens |-> None],
                liveRoots |-> {},
                agentTtys |-> {}]

TokensOf(r, s) == {t \in Tokens : r.session[t] = s}

(* A token bound to a different session is refused with BAD_REQUEST. *)
RegisterAccepted(r, t, s) == r.session[t] \in {None, s}

(* The tokens whose grants a registration must revoke. *)
Displaced(r, t, s) == IF r.session[t] = s THEN {} ELSE TokensOf(r, s)

(* Re-presenting the bound token keeps the registration and its root. *)
Register(r, t, s) ==
    IF r.session[t] = s
    THEN r
    ELSE [r EXCEPT
            !.session = [u \in Tokens |->
                            IF u = t THEN s
                            ELSE IF r.session[u] = s THEN None
                            ELSE r.session[u]],
            !.liveRoots = (@ \ TokensOf(r, s)) \cup {t}]

Unregister(r, s) ==
    [r EXCEPT !.session = [u \in Tokens |->
                              IF r.session[u] = s THEN None ELSE r.session[u]],
              !.liveRoots = @ \ TokensOf(r, s)]

(* The verdict of resolve on a request that presents token t and terminal  *)
(* y; inTree says whether the caller sits in the process tree of the root. *)
ResolveVerdict(r, t, y, inTree) ==
    CASE t # None /\ r.session[t] = None                     -> "UNKNOWN_TOKEN"
      [] t # None /\ r.session[t] # None
                  /\ ~(inTree /\ t \in r.liveRoots)          -> "FOREIGN_CALLER"
      [] t = None /\ y = None                                -> "NO_SCOPE"
      [] t = None /\ y # None /\ y \in r.agentTtys           -> "AGENT_TTY"
      [] OTHER                                               -> "OK"

ResolvedScope(t, y) == IF t # None THEN t ELSE y

LearnTtyUnguarded(r, t, y) == [r EXCEPT !.agentTtys = @ \cup {y}]

(* A request that proves its session teaches the registry its terminal. *)
LearnTty(r, t, y) ==
    IF t # None /\ y # None THEN [r EXCEPT !.agentTtys = @ \cup {y}] ELSE r

ScopeAliveUnchecked(r, existing, s) == TRUE

(* What the worker asks before it installs a grant: the session is still   *)
(* registered and its root runs, or the terminal device still exists.      *)
ScopeAlive(r, existing, s) ==
    IF s \in Tokens THEN r.session[s] # None /\ s \in r.liveRoots
                    ELSE s \in existing

-----------------------------------------------------------------------------
(* GrantTable, as the set of its entries.  version is the FileIdentity of  *)
(* the ciphertext that was decrypted and stands for the value as well.     *)
(* request is a history field that no operator of the code reads: the id   *)
(* of the request whose decrypt installed the grant.                       *)

Grant == [scope : Scopes, key : Keys, version : Nat, age : 0..MaxGrant,
          request : Nat]

LookupGrant(gs, s, k) == {g \in gs : g.scope = s /\ g.key = k}

Revoke(gs, s, k) == {g \in gs : ~(g.scope = s /\ g.key = k)}

InsertGrant(gs, s, k, v, id) ==
    Revoke(gs, s, k)
      \cup {[scope |-> s, key |-> k, version |-> v, age |-> 0, request |-> id]}

RevokeTokens(gs, ts) == {g \in gs : g.scope \notin ts}

RevokeExpiredForgotten(gs) == gs

RevokeExpired(gs) == {g \in gs : g.age < MaxGrant}

RevokeMissingTtys(gs, existing) ==
    {g \in gs : g.scope \in Tokens \/ g.scope \in existing}

AgeGrants(gs) ==
    {[g EXCEPT !.age = IF @ < MaxGrant THEN @ + 1 ELSE @] : g \in gs}

=============================================================================
