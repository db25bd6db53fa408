---------------------------- MODULE VoucherCard -----------------------------
(***************************************************************************)
(* What a printed voucher promises to the person who bought it: it is      *)
(* unused, then runs for one period, then is over for good.  It may end    *)
(* without ever having run; it never runs twice.                           *)
(***************************************************************************)
CONSTANT Vouchers

VARIABLE card

Init == card = [v \in Vouchers |-> "unused"]

\* The first successful login.
Run(v) ==
  /\ card[v] = "unused"
  /\ card' = [card EXCEPT ![v] = "running"]

\* Expiry and quota end a running card; disabling or deleting a batch ends
\* several cards in one step.
End(V) ==
  /\ \A v \in V : card[v] # "over"
  /\ card' = [v \in Vouchers |-> IF v \in V THEN "over" ELSE card[v]]

Next == (\E v \in Vouchers : Run(v)) \/ (\E V \in SUBSET Vouchers : End(V))

Spec == Init /\ [][Next]_card
=============================================================================
