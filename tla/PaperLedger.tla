----------------------------- MODULE PaperLedger -----------------------------
(***************************************************************************)
(* What a paper account promises, without engine, tracker, risk rules or   *)
(* tasks: at most one holding per symbol; a purchase is paid in full, fee  *)
(* included, out of the cash there is; a sale sells the whole holding,     *)
(* credits its value minus the fee, and books the gain over the purchase   *)
(* price.  Nothing else moves money.                                       *)
(***************************************************************************)
EXTENDS Integers

CONSTANTS Symbols, Prices, InitialBalance, FeeDiv

VARIABLES
  cash,      (* money not invested                                          *)
  held,      (* symbol -> [qty, price], qty 0 when nothing is held          *)
  fees,      (* fees paid so far                                            *)
  realized   (* gains booked so far                                         *)

ledger == <<cash, held, fees, realized>>

FeeOf(cost) == cost \div FeeDiv

Init ==
  /\ cash = InitialBalance
  /\ held = [s \in Symbols |-> [qty |-> 0, price |-> 0]]
  /\ fees = 0
  /\ realized = 0

(* The quantity is whatever the next state holds.                          *)
Buy(s, p) ==
  LET q == held'[s].qty
      cost == q * p
  IN /\ held[s].qty = 0
     /\ held' = [held EXCEPT ![s] = [qty |-> q, price |-> p]]
     /\ q > 0
     /\ cost + FeeOf(cost) <= cash
     /\ cash' = cash - (cost + FeeOf(cost))
     /\ fees' = fees + FeeOf(cost)
     /\ UNCHANGED realized

Sell(s, p) ==
  LET cost == held[s].qty * p
  IN /\ held[s].qty > 0
     /\ held' = [held EXCEPT ![s] = [qty |-> 0, price |-> 0]]
     /\ cash' = cash + (cost - FeeOf(cost))
     /\ fees' = fees + FeeOf(cost)
     /\ realized' = realized + (p - held[s].price) * held[s].qty

Next == \E s \in Symbols, p \in Prices : Buy(s, p) \/ Sell(s, p)

Spec == Init /\ [][Next]_ledger
==============================================================================
