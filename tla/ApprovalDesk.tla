---------------------------- MODULE ApprovalDesk ----------------------------
(***************************************************************************)
(* What the daemon promises about approvals, without sessions, threads,    *)
(* processes or clocks.  Requests are served one at a time in the order in *)
(* which they were made.  A request's grant comes into force in the step   *)
(* that ends its own touch, and only then; a request that is over stays    *)
(* over.  Requests and grants may be withdrawn at any moment.              *)
(***************************************************************************)
EXTENDS Naturals

CONSTANT Requests  \* numbers, in the order in which the requests are made

VARIABLES
    phase,   \* where each request stands
    inForce  \* the requests whose grants are in force

vars == <<phase, inForce>>

Init ==
    /\ phase = [i \in Requests |-> "new"]
    /\ inForce = {}

In(p) == {i \in Requests : phase[i] = p}

Open == In("asked") \cup In("touching")

Ask(i) ==
    /\ i \in In("new")
    /\ \A j \in In("new") : i <= j
    /\ phase' = [phase EXCEPT ![i] = "asked"]
    /\ inForce' \subseteq inForce

Withdraw(W) ==
    /\ phase' = [i \in Requests |-> IF i \in W THEN "over" ELSE phase[i]]
    /\ inForce' \subseteq inForce

(* Whoever is not withdrawn and has waited longest gets to touch. *)
Serve(W, i) ==
    /\ In("touching") \subseteq W
    /\ i \in In("asked") \ W
    /\ \A j \in In("asked") \ W : i <= j
    /\ phase' = [j \in Requests |-> IF j \in W THEN "over"
                                    ELSE IF j = i THEN "touching" ELSE phase[j]]
    /\ inForce' \subseteq inForce

Approve(i) ==
    /\ i \in In("touching")
    /\ phase' = [phase EXCEPT ![i] = "over"]
    /\ i \in inForce' /\ inForce' \subseteq inForce \cup {i}

Next ==
    \/ \E i \in Requests : Ask(i) \/ Approve(i)
    \/ \E W \in SUBSET Open : Withdraw(W) \/ \E i \in Requests : Serve(W, i)

Spec == Init /\ [][Next]_vars

=============================================================================
