------------------------------ MODULE Receipts ------------------------------
(***************************************************************************)
(* Single-use receipts of capability authorizations (src/src/receipts.rs). *)
(*                                                                         *)
(* The 32 random bytes of a receipt are modelled by the pair (request,     *)
(* serial): the request whose ceremony it attests, and how many receipts   *)
(* had been minted for that request before.  The pair is unique, as the    *)
(* random bytes are, and lets a property speak of the ceremony.            *)
(***************************************************************************)
EXTENDS RequestQueue

CONSTANTS
    MaxReceipts,  \* MAX_RECEIPTS
    ReceiptTtl    \* RECEIPT_TTL

ASSUME ReceiptsAssumption ==
    /\ MaxReceipts \in Nat
    /\ ReceiptTtl \in Nat \ {0}

Receipt == [request : Ids, serial : Nat, cap : CapKeys, age : 0..ReceiptTtl]

SweepReceipts(rs) == {r \in rs : r.age < ReceiptTtl}

HasReceiptRoomOffByOne(rs) == Cardinality(SweepReceipts(rs)) <= MaxReceipts

(* mint refuses rather than evicting a live receipt. *)
HasReceiptRoom(rs) == Cardinality(SweepReceipts(rs)) < MaxReceipts

MintReceipt(rs, id, serial, k) ==
    SweepReceipts(rs)
      \cup {[request |-> id, serial |-> serial, cap |-> k, age |-> 0]}

(* redeem consumes the receipt only when the capability matches. *)
Redeemable(rs, r, cap) == r \in SweepReceipts(rs) /\ r.cap = cap

RedeemKeepsReceipt(rs, r, cap) == SweepReceipts(rs)

Redeem(rs, r, cap) ==
    IF Redeemable(rs, r, cap) THEN SweepReceipts(rs) \ {r} ELSE SweepReceipts(rs)

AgeReceipts(rs) ==
    {[r EXCEPT !.age = IF @ < ReceiptTtl THEN @ + 1 ELSE @] : r \in rs}

=============================================================================
