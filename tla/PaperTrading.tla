----------------------------- MODULE PaperTrading -----------------------------
(***************************************************************************)
(* One paper-mode user session of the trader: its PaperEngine, its         *)
(* PositionTracker, its RiskManager, and the two asyncio tasks that work   *)
(* on them, the signal handler and the monitor loop.                       *)
(*                                                                         *)
(* The process is single threaded, so a step of a task runs from one await *)
(* that suspends to the next.  In paper mode neither the engine nor the    *)
(* order validation suspends: everything from the plan check of            *)
(* _execute_for_user to the first _push_log is one step.  The awaits that  *)
(* do suspend are the log push, the two database writes and the notifier.  *)
(***************************************************************************)
EXTENDS RiskRules, Sums

CONSTANTS
  Prices,       (* prices a signal may carry                                *)
  FeeDiv,       (* one over fee_rate: 1000                                  *)
  MaxPairs,     (* the plan's max_pairs                                     *)
  HardCap,      (* hard_cap of _validate_order: 50                          *)
  MinNotional,  (* smallest notional _validate_order lets through: 5        *)
  SpotOnly,     (* the plan's spot_only                                     *)
  Published,    (* market levels the guardian publishes                     *)
  SpansDays,    (* the behaviours cross midnight                            *)
  Futures,      (* the user's trade_type is futures                         *)
  MaxOpens,     (* bound of the model: positions opened in a behaviour      *)
  MaxDbErrors   (* bound of the model: writes that fail in a behaviour      *)

ASSUME PaperAssumption ==
  /\ Prices \subseteq Nat \ {0}
  /\ FeeDiv \in Nat \ {0}
  /\ MaxPairs \in Nat
  /\ HardCap \in Nat
  /\ MinNotional \in Nat \ {0}
  /\ Published \subseteq STRING
  /\ SpansDays \in BOOLEAN
  /\ SpotOnly \in BOOLEAN
  /\ Futures \in BOOLEAN
  /\ MaxOpens \in Nat
  /\ MaxDbErrors \in Nat

VARIABLES
  cash,      (* PaperEngine.balance                                         *)
  held,      (* PaperEngine.positions: symbol -> [qty, price]               *)
  fees,      (* sum of the fee of PaperEngine.orders                        *)
  tracked,   (* PositionTracker._positions: symbol -> [qty, entry, pnl]     *)
  realized,  (* PositionTracker._total_realized_pnl                         *)
  book,      (* value of held at entry prices (the code sums it each time)  *)
  risk,      (* RiskManager                                                 *)
  cooling,   (* symbols whose last recorded trade is under 300 s old        *)
  task,      (* where the signal handler and the monitor stand              *)
  saved,     (* trade rows in the database: their number and summed pnl      *)
  unsaved,   (* what the failed writes would have added to saved            *)
  opens      (* positions opened so far, for the bound MaxOpens             *)

engineVars == <<cash, held, fees, book>>
trackerVars == <<tracked, realized>>
dbVars == <<saved, unsaved>>
vars == <<cash, held, fees, tracked, realized, book, risk, cooling, task,
          saved, unsaved, opens>>

------------------------------------------------------------------------------
(* Data.                                                                   *)

NoHolding  == [qty |-> 0, price |-> 0]
NoPosition == [qty |-> 0, entry |-> 0, pnl |-> 0]

Holding(s) == held[s].qty > 0
Open       == {s \in Symbols : tracked[s].qty > 0}

Fee(cost) == cost \div FeeDiv

(* Slip: the cut forgets the fee.                                          *)
MaxQtyBeforeFee(money, price) == money \div price

(* The largest quantity cash pays for, fee included, rounded down.         *)
MaxQty(money, price) == (money * FeeDiv) \div (price * (FeeDiv + 1))

(* get_total_equity: at entry prices, or with s valued at price p.         *)
EquityAtEntry == cash + book
EquityAt(s, p) == EquityAtEntry + held[s].qty * (p - held[s].price)

(* Tasks: the signal handler runs one signal at a time; the monitor sleeps *)
(* between passes and remembers the positions a pass still has to close.   *)
Tasks == {"signal", "monitor"}
AtRest == [at |-> "rest", pnl |-> 0, todo |-> {}]
TaskState == [at : {"rest", "bought", "sold", "saving", "closing"},
              pnl : Int, todo : SUBSET (Symbols \X Nat)]

Rows   == [count : Int, pnl : Int]
NoRows == [count |-> 0, pnl |-> 0]

------------------------------------------------------------------------------
Init ==
  /\ cash = InitialBalance
  /\ held = [s \in Symbols |-> NoHolding]
  /\ fees = 0
  /\ tracked = [s \in Symbols |-> NoPosition]
  /\ realized = 0
  /\ book = 0
  /\ risk = FreshRisk
  /\ cooling = {}
  /\ task = [t \in Tasks |-> AtRest]
  /\ saved = NoRows
  /\ unsaved = NoRows
  /\ opens = 0

------------------------------------------------------------------------------
(* The engine.  A BUY the cash cannot pay is cut to what it can pay, and   *)
(* rejected when that is nothing.                                          *)

Filled(q, p) ==
  IF q * p + Fee(q * p) > cash THEN MaxQty(cash, p) ELSE q

EngineBuy(s, q, p) ==
  LET n == Filled(q, p)
      cost == n * p
  IN IF n <= 0
     THEN UNCHANGED engineVars
     ELSE /\ cash' = cash - (cost + Fee(cost))
          /\ fees' = fees + Fee(cost)
          /\ held' = [held EXCEPT ![s] = [qty |-> n, price |-> p]]
          /\ book' = book + cost

(* Slips: the holding survives its sale; the fee is counted and not taken. *)
EngineSellKeeps(s, q, p) ==
  /\ cash' = cash + (q * p - Fee(q * p))
  /\ fees' = fees + Fee(q * p)
  /\ UNCHANGED <<held, book>>

EngineSellFree(s, q, p) ==
  /\ cash' = cash + q * p
  /\ fees' = fees + Fee(q * p)
  /\ held' = [held EXCEPT ![s] = NoHolding]
  /\ book' = book - held[s].qty * held[s].price

(* A SELL is never cut: it credits the quantity asked for, and drops the   *)
(* engine's holding when there is one.                                     *)
EngineSell(s, q, p) ==
  /\ cash' = cash + (q * p - Fee(q * p))
  /\ fees' = fees + Fee(q * p)
  /\ held' = [held EXCEPT ![s] = NoHolding]
  /\ book' = book - held[s].qty * held[s].price

------------------------------------------------------------------------------
(* Signals.  The plan's limits come first, for a SELL as for a BUY; then   *)
(* the balance is refreshed, whatever becomes of the signal.               *)

PlanAllows ==
  /\ ~(SpotOnly /\ Futures)
  /\ Cardinality(Open) < MaxPairs

Assessed(s, p) == UpdateBalance(risk, EquityAt(s, p))
Admitted(s, p) == CanTrade(Assessed(s, p), cooling, Open, s)
BuySize(s, p)  == PositionSize(Assessed(s, p), EquityAt(s, p), p)

(* _validate_order *)
ValidOrder(q, p) ==
  /\ q * p >= MinNotional
  /\ Cardinality(Open) < HardCap

(* Slip: a second BUY of a symbol already held goes through.               *)
OpensAgain(s, p) ==
  /\ Admitted(s, p)
  /\ BuySize(s, p) > 0
  /\ ValidOrder(BuySize(s, p), p)

Opens(s, p) ==
  /\ Admitted(s, p)
  /\ s \notin Open
  /\ BuySize(s, p) > 0
  /\ ValidOrder(BuySize(s, p), p)

Receive == task["signal"].at = "rest" /\ PlanAllows

(* A BUY that goes through.  The tracker records the quantity that was     *)
(* asked for, and the engine's fill price, which is 0 after a rejection.   *)
SignalBuy(s, p) ==
  /\ Receive
  /\ Opens(s, p)
  /\ opens < MaxOpens
  /\ LET q == BuySize(s, p)
     IN /\ EngineBuy(s, q, p)
        /\ tracked' = [tracked EXCEPT ![s] =
                         [qty |-> q,
                          entry |-> IF Filled(q, p) > 0 THEN p ELSE 0,
                          pnl |-> 0]]
  /\ risk' = Assessed(s, p)
  /\ cooling' = cooling \cup {s}
  /\ task' = [task EXCEPT !["signal"].at = "bought"]
  /\ opens' = opens + 1
  /\ UNCHANGED <<realized, dbVars>>

(* A BUY that a check turns down after the balance was refreshed.          *)
SignalBuyRefused(s, p) ==
  /\ Receive
  /\ ~Opens(s, p)
  /\ risk' = Assessed(s, p)
  /\ UNCHANGED <<engineVars, trackerVars, cooling, task, dbVars, opens>>

(* _close_position up to its first suspension: the engine sells, then the  *)
(* tracker drops the position and books the gain.  todo is what the        *)
(* monitor has left to close afterwards.                                   *)
Close(t, s, p, todo) ==
  LET q == tracked[s].qty
      gain == (p - tracked[s].entry) * q
  IN /\ EngineSell(s, q, p)
     /\ tracked' = [tracked EXCEPT ![s] = NoPosition]
     /\ realized' = realized + gain
     /\ task' = [task EXCEPT ![t].at = "sold",
                             ![t].pnl = gain,
                             !["monitor"].todo = todo]

(* The monitor's list refers to the position objects: closing one changes  *)
(* the price the list holds for it.                                        *)
Repriced(s, p) ==
  {IF o[1] = s THEN <<s, p>> ELSE o : o \in task["monitor"].todo}

SignalSell(s, p) ==
  /\ Receive
  /\ Admitted(s, p)
  /\ s \in Open
  /\ Close("signal", s, p, Repriced(s, p))
  /\ risk' = Assessed(s, p)
  /\ UNCHANGED <<cooling, dbVars, opens>>

SignalSellRefused(s, p) ==
  /\ Receive
  /\ ~(Admitted(s, p) /\ s \in Open)
  /\ risk' = Assessed(s, p)
  /\ UNCHANGED <<engineVars, trackerVars, cooling, task, dbVars, opens>>

------------------------------------------------------------------------------
(* What follows the log push: the balance is refreshed at entry prices of  *)
(* that moment, then the trade row is written, or the write fails and the  *)
(* error is logged.                                                        *)

Settle(t) ==
  /\ task[t].at = "sold"
  /\ risk' = UpdateBalance(risk, EquityAtEntry)
  /\ task' = [task EXCEPT ![t].at = "saving"]
  /\ UNCHANGED <<engineVars, trackerVars, cooling, dbVars, opens>>

(* One row, or none when the write fails.                                  *)
WriteRow(pnl) ==
  LET Plus(rows) == [count |-> rows.count + 1, pnl |-> rows.pnl + pnl]
  IN \/ saved' = Plus(saved) /\ UNCHANGED unsaved
     \/ /\ unsaved.count < MaxDbErrors
        /\ unsaved' = Plus(unsaved)
        /\ UNCHANGED saved

SaveSell(t) ==
  /\ task[t].at = "saving"
  /\ WriteRow(task[t].pnl)
  /\ task' = [task EXCEPT ![t].at = IF t = "signal" THEN "rest" ELSE "closing",
                          ![t].pnl = 0]
  /\ UNCHANGED <<engineVars, trackerVars, risk, cooling, opens>>

(* save_position, then save_trade, in one try.                             *)
SaveBuy ==
  /\ task["signal"].at = "bought"
  /\ WriteRow(0)
  /\ task' = [task EXCEPT !["signal"].at = "rest"]
  /\ UNCHANGED <<engineVars, trackerVars, risk, cooling, opens>>

------------------------------------------------------------------------------
(* The monitor.  A pass reads the level once and lists the positions to    *)
(* close, each with the price it will use: current_price, which nothing    *)
(* moves from the entry price while the position is open.                  *)

(* Slip: RED, like ORANGE, closes losers only.                             *)
ShouldCloseLoser(s) ==
  risk.level \in {"ORANGE", "RED"} /\ tracked[s].pnl < 0

ShouldClose(s) ==
  \/ risk.level = "RED"
  \/ risk.level = "ORANGE" /\ tracked[s].pnl < 0

ToClose == {<<s, tracked[s].entry>> : s \in {x \in Open : ShouldClose(x)}}

(* Slip: the list is trusted, positions closed meanwhile included.         *)
Listed(todo) == todo

(* Of a list of positions the monitor closes the next that is still open;  *)
(* when there is none it refreshes the balance and sleeps.                 *)
StillOpen(todo) == {o \in todo : o[1] \in Open}

CloseNext(todo) ==
  \E o \in StillOpen(todo) :
    /\ Close("monitor", o[1], o[2], todo \ {o})
    /\ UNCHANGED risk

EndPass ==
  /\ risk' = IF \E s \in Symbols : Holding(s)
             THEN UpdateBalance(risk, EquityAtEntry)
             ELSE risk
  /\ task' = [task EXCEPT !["monitor"] = AtRest]
  /\ UNCHANGED <<engineVars, trackerVars>>

Proceed(todo) ==
  /\ \/ CloseNext(todo)
     \/ StillOpen(todo) = {} /\ EndPass
  /\ UNCHANGED <<cooling, dbVars, opens>>

MonitorTick ==
  /\ task["monitor"].at = "rest"
  /\ Proceed(ToClose)

MonitorResume ==
  /\ task["monitor"].at = "closing"
  /\ Proceed(task["monitor"].todo)

------------------------------------------------------------------------------
(* The world around the session.                                           *)

(* The guardian's status message: one synchronous assignment.              *)
MarketStatus(level) ==
  /\ risk' = SetMarketStatus(risk, level)
  /\ UNCHANGED <<engineVars, trackerVars, cooling, task, dbVars, opens>>

(* 300 s have passed since the last trade recorded for s.                  *)
CooldownOver(s) ==
  /\ s \in cooling
  /\ cooling' = cooling \ {s}
  /\ UNCHANGED <<engineVars, trackerVars, risk, task, dbVars, opens>>

(* The UTC date changes.                                                   *)
NewDay ==
  /\ SpansDays
  /\ risk' = [risk EXCEPT !.newDay = TRUE]
  /\ UNCHANGED <<engineVars, trackerVars, cooling, task, dbVars, opens>>

------------------------------------------------------------------------------
Signal ==
  \E s \in Symbols, p \in Prices :
    \/ SignalBuy(s, p)
    \/ SignalBuyRefused(s, p)
    \/ SignalSell(s, p)
    \/ SignalSellRefused(s, p)

SignalTail == SaveBuy \/ Settle("signal") \/ SaveSell("signal")

Monitor == MonitorTick \/ MonitorResume \/ Settle("monitor") \/ SaveSell("monitor")

World ==
  \/ \E level \in Published : MarketStatus(level)
  \/ \E s \in Symbols : CooldownOver(s)
  \/ NewDay

Next == Signal \/ SignalTail \/ Monitor \/ World

Spec == Init /\ [][Next]_vars

(* The event loop resumes every task whose await returned, and the awaits  *)
(* return: redis, database and notifier errors are all caught.             *)
FairSpec == Spec /\ WF_vars(SignalTail) /\ WF_vars(Monitor)

------------------------------------------------------------------------------
TypeOK ==
  /\ cash \in Int
  /\ held \in [Symbols -> [qty : Nat, price : Nat]]
  /\ fees \in Int
  /\ tracked \in [Symbols -> [qty : Nat, entry : Nat, pnl : Int]]
  /\ realized \in Int
  /\ book \in Int
  /\ risk \in RiskState
  /\ cooling \subseteq Symbols
  /\ task \in [Tasks -> TaskState]
  /\ saved \in Rows
  /\ unsaved \in Rows
  /\ opens \in 0..MaxOpens

------------------------------------------------------------------------------
(* Safety.                                                                 *)

(* Paper money is never overdrawn: the fill in paper_engine.py that cuts a *)
(* BUY to what the balance pays for leaves the balance at zero or above.   *)
NeverOverdrawn == cash >= 0

(* The engine never holds a symbol the tracker does not know, nor more of  *)
(* it, nor at another entry price: both dicts are written by the same open *)
(* and the same close, whichever of the two tasks runs them.               *)
EngineWithinTracker ==
  \A s \in Symbols :
    /\ held[s].qty <= tracked[s].qty
    /\ Holding(s) => held[s].price = tracked[s].entry

(* Every order of the session is filled in full, so that tracker and       *)
(* engine agree on quantities.  It depends on sizing, plan cap and circuit *)
(* breaker together: they keep enough cash for the next position, as long  *)
(* as the plan has room for one position more, fee included, on an equity  *)
(* that is just above the breaker's limit: up to nine pairs at the shares  *)
(* of the code.                                                            *)
FilledInFull == \A s \in Symbols : held[s].qty = tracked[s].qty

PlanHasRoom ==
  LET spare == 100 * FeeDiv - SizePct * FeeDiv - SizePct
  IN /\ spare >= 0
     /\ (100 - BreakerPct) * spare >= (MaxPairs - 1) * SizePct * 100 * FeeDiv

(* The plan's pair limit, the hard cap and the correlation cap bound what  *)
(* is open at any moment, although they are only looked at by a signal.    *)
CapsHold ==
  /\ Cardinality(Open) <= MaxPairs
  /\ Cardinality(Open) <= HardCap
  /\ \A g \in Groups : Cardinality({s \in Open : GroupOf[s] = g}) <= MaxCorrelated

(* book is the sum that get_total_equity computes over the engine's        *)
(* positions at the tracker's entry prices.                                *)
Values == [s \in Symbols |-> held[s].qty * tracked[s].entry]

BookIsSum == book = SumOver(Values, {s \in Symbols : Holding(s)})

(* No money appears or vanishes: cash and holdings are the initial balance *)
(* plus the realized gains of the tracker minus the fees of the engine.    *)
(* A position sold twice by the two tasks, or booked twice, would break it.*)
MoneyConserved == cash + book = InitialBalance + realized - fees

(* Every open and every close of the tracker has its trade row, whichever  *)
(* task runs it and however they interleave: the rows saved, those whose   *)
(* write failed and those a task is about to write account for the         *)
(* realized gains and for the number of trades.                            *)
InFlight(t) == IF task[t].at \in {"sold", "saving"} THEN 1 ELSE 0

RowsAddUp ==
  /\ saved.pnl + unsaved.pnl + task["signal"].pnl + task["monitor"].pnl = realized
  /\ saved.count + unsaved.count + InFlight("signal") + InFlight("monitor")
       + (IF task["signal"].at = "bought" THEN 1 ELSE 0)
       = 2 * opens - Cardinality(Open)

(* A position is only opened by a session whose equity is less than        *)
(* BreakerPct below its peak and DailyPct below its start of day, at the   *)
(* moment of the BUY and not at that of an earlier check, and at a market  *)
(* level that allows it.                                                   *)
OpensOnSoundEquity ==
  [][(Cardinality(Open') > Cardinality(Open)) =>
       /\ CanOpenAt(risk.level)
       /\ EquityAtEntry * 100 > risk'.peak * (100 - BreakerPct)
       /\ EquityAtEntry * 100 >= risk'.dayStart * (100 - DailyPct)]_vars

(* A SELL order fills what the engine holds of the symbol, as the fill     *)
(* simulation is said to be realistic.  It is not so once an order was cut *)
(* or rejected: _close_position sells the tracker's quantity.              *)
SellsWhatIsHeld ==
  [][\A s \in Open \ Open' : tracked[s].qty = held[s].qty]_vars

(* The session is a paper account: seen through cash, holdings, fees and   *)
(* gains, each of its steps is a purchase or a sale of PaperLedger, or     *)
(* leaves them alone.                                                      *)
Ledger ==
  INSTANCE PaperLedger
    WITH Symbols <- Symbols, Prices <- Prices, InitialBalance <- InitialBalance,
         FeeDiv <- FeeDiv, cash <- cash, held <- held, fees <- fees,
         realized <- realized

ImplementsLedger == Ledger!Spec

------------------------------------------------------------------------------
(* Liveness.                                                               *)

(* While the guardian keeps the market at RED the monitor closes every     *)
(* position of the session, and none is opened again.                      *)
RedFlattens == <>[](risk.level = "RED") => <>[](Open = {})

==============================================================================
