------------------------------ MODULE RiskRules ------------------------------
(***************************************************************************)
(* The rules of trader/risk_manager.py as operators on a record, one per   *)
(* user session.  The state machines of the trader keep such a record in a *)
(* variable and call these operators where trader_bot.py calls the methods *)
(* of RiskManager.                                                         *)
(*                                                                         *)
(* Money is counted in whole units (the code uses floats); percentages     *)
(* are the code's own, multiplied out so that nothing is rounded.          *)
(***************************************************************************)
EXTENDS Integers, FiniteSets

CONSTANTS
  Symbols,         (* the trading pairs                                     *)
  Groups,          (* names of the correlation groups                       *)
  GroupOf,         (* symbol -> its group, or NoGroup                       *)
  NoGroup,
  MaxCorrelated,   (* max_correlation_exposure: 2 in the code               *)
  MaxPosition,     (* max_position_size_usdt, from the user's settings      *)
  InitialBalance,  (* balance and peak a fresh session starts from: 10000   *)
  SizePct,         (* share of the balance one position takes: 10           *)
  BreakerPct,      (* circuit_breaker_drawdown_pct: 10                      *)
  DailyPct         (* max_daily_drawdown_pct: 5                             *)

ASSUME RiskAssumption ==
  /\ IsFiniteSet(Symbols)
  /\ GroupOf \in [Symbols -> Groups \cup {NoGroup}]
  /\ NoGroup \notin Groups
  /\ MaxCorrelated \in Nat \ {0}
  /\ MaxPosition \in Nat
  /\ InitialBalance \in Nat \ {0}
  /\ SizePct \in 1..100
  /\ BreakerPct \in 1..100
  /\ DailyPct \in 1..100

------------------------------------------------------------------------------
(* Market levels, as the guardian publishes them.                          *)

Levels == {"GREEN", "YELLOW", "ORANGE", "RED"}

(* Slip: ORANGE halves the size, like YELLOW.                              *)
SizeHalvesLax(level) ==
  IF level = "GREEN" THEN 2 ELSE IF level = "RED" THEN 0 ELSE 1

(* size_multiplier, in halves: 1.0, 0.5, 0.0, 0.0.                         *)
SizeHalves(level) ==
  IF level = "GREEN" THEN 2 ELSE IF level = "YELLOW" THEN 1 ELSE 0

CanOpenAt(level) == level \in {"GREEN", "YELLOW"}

------------------------------------------------------------------------------
(* The risk manager's state.  last and dayStart are NoBalance while the    *)
(* code's fields are None; newDay is TRUE while today's date differs from  *)
(* _current_date.  _daily_peak is written and never read, so it is left    *)
(* out.                                                                    *)

NoBalance == -1

RiskState ==
  [level : Levels, breaker : BOOLEAN, peak : Int, last : Int,
   dayStart : Int, newDay : BOOLEAN]

FreshRisk ==
  [level |-> "GREEN", breaker |-> FALSE, peak |-> InitialBalance,
   last |-> NoBalance, dayStart |-> NoBalance, newDay |-> TRUE]

Higher(a, b) == IF a < b THEN b ELSE a
Lower(a, b)  == IF a < b THEN a ELSE b

(* Slip: a level the table MARKET_LEVELS does not know is taken over.      *)
SetMarketStatusUnchecked(r, level) == [r EXCEPT !.level = level]

(* Unknown levels are ignored.                                             *)
SetMarketStatus(r, level) ==
  IF level \in Levels THEN [r EXCEPT !.level = level] ELSE r

(* update_balance: the day is rolled first, then the peak is raised, and   *)
(* the breaker is set or cleared against that peak.                        *)
UpdateBalance(r, balance) ==
  LET start == IF r.newDay \/ r.dayStart = NoBalance THEN balance
                                                     ELSE r.dayStart
      peak  == Higher(r.peak, balance)
  IN [r EXCEPT !.newDay   = FALSE,
               !.last     = balance,
               !.dayStart = start,
               !.peak     = peak,
               !.breaker  = balance * 100 <= peak * (100 - BreakerPct)]

(* The daily drawdown check of can_trade.  A day that started from nothing *)
(* makes the code divide by zero; the caller catches it and does not trade.*)
DayLossExceeded(r) ==
  /\ ~r.newDay
  /\ r.last # NoBalance
  /\ r.dayStart # NoBalance
  /\ \/ r.dayStart = 0
     \/ (r.last - r.dayStart) * 100 < -(DailyPct * r.dayStart)

(* Positions already open in the symbol's group, the symbol's own included.*)
Correlated(open, s) == {t \in open : GroupOf[t] = GroupOf[s]}

(* Slip: the cap is compared with > instead of >=.                         *)
CorrelationCapPassed(open, s) ==
  /\ GroupOf[s] # NoGroup
  /\ Cardinality(Correlated(open, s)) > MaxCorrelated

CorrelationCapReached(open, s) ==
  /\ GroupOf[s] # NoGroup
  /\ Cardinality(Correlated(open, s)) >= MaxCorrelated

(* Slip: can_trade without the daily drawdown.                             *)
CanTradeAllDay(r, cooling, open, s) ==
  /\ CanOpenAt(r.level)
  /\ ~r.breaker
  /\ s \notin cooling
  /\ ~CorrelationCapReached(open, s)

(* can_trade.  It is asked for exits as well as for entries.               *)
CanTrade(r, cooling, open, s) ==
  /\ CanOpenAt(r.level)
  /\ ~r.breaker
  /\ ~DayLossExceeded(r)
  /\ s \notin cooling
  /\ ~CorrelationCapReached(open, s)

(* Slip: the larger of cap and share is taken.                             *)
PositionSizeUncapped(r, balance, price) ==
  ((Higher(MaxPosition, (balance * SizePct) \div 100) * SizeHalves(r.level))
     \div 2) \div price

PositionSize(r, balance, price) ==
  ((Lower(MaxPosition, (balance * SizePct) \div 100) * SizeHalves(r.level))
     \div 2) \div price

==============================================================================
